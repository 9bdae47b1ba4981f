--------------------------- MODULE ResultsProofs ---------------------------
(***************************************************************************)
(* What holds for any setups, orders and prices and any number of          *)
(* restarts: of the stored orders, in storages that do not hand out an     *)
(* identifier twice (Bunt in memory, and SQL), of the chart's pages, and   *)
(* of the profits, in every storage.                                       *)
(***************************************************************************)
EXTENDS Chart, DataTheorems, FiniteSetTheorems, SequenceTheorems, TLAPS

(* The identifiers are consecutive, and Bunt counts them.                  *)
Numbered ==
  /\ kind \in {"memory", "sql"}
  /\ \E n \in Nat : DOMAIN content = 1..n /\ (kind = "memory" => lastID = n)

(* Every order of the history is stored once, as it was last written.      *)
Matched ==
  /\ \A a, b \in DOMAIN content :
       content[a].exchangeID = content[b].exchangeID => a = b
  /\ \A id \in DOMAIN content :
       /\ content[id].exchangeID \in DOMAIN table
       /\ content[id] = table[content[id].exchangeID]
  /\ \A e \in DOMAIN table : \E id \in DOMAIN content : content[id].exchangeID = e

(* The history is about orders of the exchange, which keep their names.    *)
Named ==
  /\ DOMAIN table \subseteq DOMAIN book
  /\ \A e \in DOMAIN book : "exchangeID" \in DOMAIN book[e] /\ book[e].exchangeID = e

Stored == Numbered /\ Matched /\ Named

-----------------------------------------------------------------------------

LEMMA NewIDIsNext ==
  ASSUME NEW n \in Nat, kind \in {"memory", "sql"}, DOMAIN content = 1..n,
         kind = "memory" => lastID = n
  PROVE  NewID = n + 1
  <1>1. CASE kind = "memory"
    BY <1>1 DEF NewID
  <1>2. CASE kind = "sql"
    <2>1. n \in 1..n \cup {0} /\ \A y \in 1..n \cup {0} : n >= y
      OBVIOUS
    <2>2. Max(1..n \cup {0}) = n
      BY <2>1 DEF Max
    <2> QED
      BY <1>2, <2>2 DEF NewID
  <1> QED
    BY <1>1, <1>2

LEMMA StoredInit == "file" \notin Kinds /\ Init => Stored
  <1> SUFFICES ASSUME "file" \notin Kinds, Init PROVE Stored
    OBVIOUS
  <1>1. kind \in {"memory", "sql"} /\ content = Empty /\ lastID = 0 /\ table = Empty /\ book = Empty
    BY KindAssumption DEF Init, ResultsInit, StoreInit
  <1>2. DOMAIN Empty = {} /\ {} = 1..0
    BY DEF Empty
  <1> QED
    BY <1>1, <1>2 DEF Stored, Numbered, Matched, Named

(* An order is created under a new name, and stored under a new identifier.*)
LEMMA StoredCreate ==
  ASSUME Stored, NEW e, NEW o, "exchangeID" \in DOMAIN o, o.exchangeID = e, Create(e, o)
  PROVE  Stored'
  <1>1. PICK n \in Nat : DOMAIN content = 1..n /\ (kind = "memory" => lastID = n)
    BY DEF Stored, Numbered
  <1>2. NewID = n + 1
    BY <1>1, NewIDIsNext DEF Stored, Numbered
  <1>3. /\ book' = With(book, e, o) /\ e \notin DOMAIN book
        /\ content' = With(content, n + 1, o) /\ table' = With(table, e, o)
        /\ kind' = kind /\ lastID' = IF kind = "sql" THEN lastID ELSE n + 1
    <2>1. Reports(e, FALSE) = book'[e]
      BY DEF Reports
    <2>2. book'[e] = o
      BY DEF Create, With
    <2> QED
      BY <1>2, <2>1, <2>2 DEF Create, CreateOrder
  <1>4. Numbered'
    <2>1. DOMAIN content' = 1..(n + 1)
      BY <1>1, <1>3 DEF With
    <2> QED
      BY <1>1, <1>3, <2>1 DEF Stored, Numbered
  <1>5. Named'
    BY <1>3 DEF Stored, Named, With
  <1>6. Matched'
    <2>1. n + 1 \notin DOMAIN content /\ e \notin DOMAIN table
      BY <1>1, <1>3 DEF Stored, Named
    <2>2. /\ DOMAIN content' = DOMAIN content \cup {n + 1} /\ content'[n + 1] = o
          /\ \A id \in DOMAIN content : content'[id] = content[id]
      BY <1>3, <2>1 DEF With
    <2>3. /\ DOMAIN table' = DOMAIN table \cup {e} /\ table'[e] = o
          /\ \A f \in DOMAIN table : table'[f] = table[f]
      BY <1>3, <2>1 DEF With
    <2> QED
      BY <2>1, <2>2, <2>3 DEF Stored, Matched
  <1> QED
    BY <1>4, <1>5, <1>6 DEF Stored

(* A poll writes the orders it found changed, in place.                    *)
LEMMA StoredUpdate ==
  ASSUME Stored, UNCHANGED book, NEW changed, UpdateOrders(changed),
         DOMAIN changed \subseteq DOMAIN content,
         \A id \in DOMAIN changed : changed[id].exchangeID = content[id].exchangeID
  PROVE  Stored'
  <1>1. /\ DOMAIN content' = DOMAIN content /\ DOMAIN table' = DOMAIN table
        /\ kind' = kind /\ lastID' = lastID
    BY DEF UpdateOrders
  <1>2. Numbered' /\ Named'
    BY <1>1 DEF Stored, Numbered, Named
  <1>3. \A id \in DOMAIN content :
          /\ content'[id] = IF id \in DOMAIN changed THEN changed[id] ELSE content[id]
          /\ content'[id].exchangeID = content[id].exchangeID
    BY DEF UpdateOrders
  <1>4. \A id \in DOMAIN content : table'[content[id].exchangeID] = content'[id]
    <2> SUFFICES ASSUME NEW id \in DOMAIN content
                 PROVE  table'[content[id].exchangeID] = content'[id]
      OBVIOUS
    <2> DEFINE e == content[id].exchangeID
    <2>1. e \in DOMAIN table /\ content[id] = table[e]
      BY DEF Stored, Matched
    <2>2. CASE id \in DOMAIN changed
      <3>1. \A i \in DOMAIN changed : changed[i].exchangeID = e => i = id
        BY DEF Stored, Matched
      <3>2. (CHOOSE i \in DOMAIN changed : changed[i].exchangeID = e) = id
        BY <2>2, <3>1
      <3> QED
        BY <2>1, <2>2, <3>2, <1>3 DEF UpdateOrders
    <2>3. CASE id \notin DOMAIN changed
      <3>1. ~\E i \in DOMAIN changed : changed[i].exchangeID = e
        BY <2>3 DEF Stored, Matched
      <3> QED
        BY <2>1, <2>3, <3>1, <1>3 DEF UpdateOrders
    <2> QED
      BY <2>2, <2>3
  <1>5. Matched'
    BY <1>1, <1>3, <1>4 DEF Stored, Matched
  <1> QED
    BY <1>2, <1>5 DEF Stored

LEMMA StoredStep == Stored /\ [Next]_vars => Stored'
  <1> SUFFICES ASSUME Stored, [Next]_vars PROVE Stored'
    OBVIOUS
  <1>1. ASSUME UNCHANGED <<storage, book>> PROVE Stored'
    BY <1>1 DEF storage, Stored, Numbered, Matched, Named
  <1>2. ASSUME NEW e \in setup.orders, NewOrder(e) PROVE Stored'
    <2>1. PICK o : "exchangeID" \in DOMAIN o /\ o.exchangeID = e /\ Create(e, o)
      BY <1>2 DEF NewOrder
    <2> QED
      BY <2>1, StoredCreate
  <1>3. ASSUME NEW e \in setup.orders, NEW status, Settle(e, status) PROVE Stored'
    <2>1. UNCHANGED storage /\ Numbered' /\ Matched'
      BY <1>3 DEF Settle, storage, Stored, Numbered, Matched
    <2>2. Named'
      <3>1. /\ book' = [book EXCEPT ![e] = [book[e] EXCEPT !.status = status, !.updated = clock]]
            /\ e \in DOMAIN book /\ table' = table
        BY <1>3, <2>1 DEF Settle, storage
      <3>2. \A f \in DOMAIN book : f # e => book'[f] = book[f]
        BY <3>1
      <3>3. /\ book'[e] = [book[e] EXCEPT !.status = status, !.updated = clock]
            /\ DOMAIN book' = DOMAIN book
        BY <3>1
      <3>4. "exchangeID" \in DOMAIN book'[e] /\ book'[e].exchangeID = e
        BY <3>1, <3>3 DEF Stored, Named
      <3> QED
        BY <3>1, <3>2, <3>3, <3>4 DEF Stored, Named
    <2> QED
      BY <2>1, <2>2 DEF Stored
  <1>4. CASE Tick
    BY <1>4, <1>1 DEF Tick
  <1>5. CASE UpdateOrdersOfPoll
    <2> DEFINE changed == {id \in DOMAIN content :
                             /\ content[id].status = "new"
                             /\ book[content[id].exchangeID].status # "new"}
               reported == [id \in changed |-> Reports(content[id].exchangeID, TRUE)]
    <2>1. UpdateOrders(reported) /\ UNCHANGED book
      BY <1>5 DEF UpdateOrdersOfPoll, trades
    <2>2. \A id \in changed : Reports(content[id].exchangeID, TRUE).exchangeID
                               = content[id].exchangeID
      BY <2>1 DEF Reports, Stored, Matched, Named
    <2> QED
      BY <2>1, <2>2, StoredUpdate
  <1>6. CASE Again
    <2>1. CASE kind = "memory"
      BY <1>6, <2>1 DEF Again, Restart, trades, Empty, Stored, Numbered, Matched, Named
    <2>2. CASE kind = "sql"
      BY <1>6, <2>2 DEF Again, Restart, trades, Stored, Numbered, Matched, Named
    <2> QED
      BY <2>1, <2>2 DEF Stored, Numbered
  <1>7. ASSUME NEW o \in outbox, OnOrder(o) PROVE Stored'
    BY <1>7, <1>1 DEF OnOrder, trades
  <1>8. ASSUME NEW p, NEW time, OnCandle(p, time) PROVE Stored'
    BY <1>8, <1>1 DEF OnCandle, trades
  <1>9. ASSUME NEW p, Request(p) PROVE Stored'
    BY <1>9, <1>1 DEF Request, trades
  <1>10. CASE UNCHANGED vars
    BY <1>10, <1>1 DEF vars, trades
  <1> QED
    BY <1>2, <1>3, <1>4, <1>5, <1>6, <1>7, <1>8, <1>9, <1>10 DEF Next, Trades

(* Orders() answers every order created, once and as it was last written,  *)
(* however creations, polls and restarts follow each other, unless Bunt    *)
(* uses a file.                                                            *)
THEOREM StorageIsComplete == "file" \notin Kinds /\ Spec => []Complete
  <1>1. Stored => Complete
    <2> SUFFICES ASSUME Stored PROVE Complete
      OBVIOUS
    <2>1. ASSUME NEW e \in DOMAIN table
          PROVE  Cardinality({id \in DOMAIN content : content[id].exchangeID = e}) = 1
      <3>1. PICK id \in DOMAIN content : content[id].exchangeID = e
        BY DEF Stored, Matched
      <3>2. {i \in DOMAIN content : content[i].exchangeID = e} = {id}
        BY <3>1 DEF Stored, Matched
      <3> QED
        BY <3>2, FS_Singleton
    <2> QED
      BY <2>1 DEF Complete, Stored, Matched
  <1> QED
    BY <1>1, StoredInit, StoredStep, PTL DEF Spec

-----------------------------------------------------------------------------
(* The chart's candles, and the times of its orders.                       *)

Listed(of) ==
  /\ Len(of) \in Nat /\ DOMAIN of = 1..Len(of)
  /\ \A i \in DOMAIN of : "time" \in DOMAIN of[i] /\ of[i].time \in Nat

Dated(o) == {"exchangeID", "updated"} \subseteq DOMAIN o /\ o.updated \in Nat

(* Every time an order has, wherever it is known, is one of the clock.     *)
OrdersDated ==
  /\ setup \in Setups /\ clock \in Nat
  /\ \A e \in DOMAIN book : Dated(book[e]) /\ book[e].exchangeID = e
  /\ \A id \in DOMAIN content : Dated(content[id]) /\ content[id].exchangeID \in DOMAIN book

ReportsDated == \A o \in outbox : o.updated \in Nat

ChartDated ==
  /\ \A p \in DOMAIN orderIDs : orderIDs[p] \subseteq DOMAIN orderByID
  /\ \A id \in DOMAIN orderByID : orderByID[id] \in Nat

CandlesListed == \A p \in Pair : p \in DOMAIN candles /\ Listed(candles[p])

Charted == OrdersDated /\ ReportsDated /\ ChartDated /\ CandlesListed

LEMMA ProcessDated ==
  ASSUME ReportsDated, NEW orders, NEW ids, \A id \in ids : orders[id].updated \in Nat,
         NEW executions, Process(orders, ids, executions)
  PROVE  ReportsDated'
  <1> DEFINE told == {[id |-> id, pair |-> orders[id].pair,
                       updated |-> orders[id].updated] : id \in ids}
  <1>1. outbox' = outbox \/ outbox' = outbox \cup told
    BY DEF Process
  <1>2. \A o \in told : o.updated \in Nat
    OBVIOUS
  <1> QED
    BY <1>1, <1>2 DEF ReportsDated

LEMMA CreateDated ==
  ASSUME OrdersDated, ReportsDated, NEW e, NEW o, Dated(o), o.exchangeID = e, Create(e, o)
  PROVE  OrdersDated' /\ ReportsDated'
  <1>1. book' = With(book, e, o) /\ UNCHANGED <<setup, clock>>
    BY DEF Create
  <1>2. Reports(e, FALSE) = book'[e] /\ book'[e] = o
    BY <1>1 DEF Reports, With
  <1>3. content' = With(content, NewID, o) /\ Process(content', {NewID}, ledger')
    BY <1>2 DEF Create, CreateOrder
  <1>4. OrdersDated'
    BY <1>1, <1>3 DEF OrdersDated, With
  <1>5. \A id \in {NewID} : content'[id].updated \in Nat
    BY <1>3, <1>4 DEF OrdersDated, With, Dated
  <1> DEFINE after == content'
             executions == ledger'
  <1> HIDE DEF after, executions
  <1>6. Process(after, {NewID}, executions) /\ \A id \in {NewID} : after[id].updated \in Nat
    BY <1>3, <1>5 DEF after, executions
  <1> QED
    BY <1>4, <1>6, ProcessDated

LEMMA PollDated ==
  ASSUME OrdersDated, ReportsDated, UpdateOrdersOfPoll
  PROVE  OrdersDated' /\ ReportsDated'
  <1> DEFINE changed == {id \in DOMAIN content :
                           /\ content[id].status = "new"
                           /\ book[content[id].exchangeID].status # "new"}
             reported == [id \in changed |-> Reports(content[id].exchangeID, TRUE)]
  <1>1. /\ UpdateOrders(reported) /\ UNCHANGED <<setup, clock, book>>
        /\ Process(content', changed, ledger)
    BY DEF UpdateOrdersOfPoll, trades
  <1>2. ASSUME NEW id \in changed
        PROVE  Dated(reported[id]) /\ reported[id].exchangeID \in DOMAIN book
    <2> DEFINE o == book[content[id].exchangeID]
    <2>1. Dated(o) /\ o.exchangeID \in DOMAIN book
      BY DEF OrdersDated
    <2>2. reported[id] = o \/ reported[id] = [o EXCEPT !.stop = NoStop]
      BY <1>1 DEF Reports
    <2> HIDE DEF o
    <2> QED
      BY <2>1, <2>2 DEF Dated
  <1>3. /\ DOMAIN content' = DOMAIN content
        /\ \A id \in DOMAIN content :
             content'[id] = IF id \in changed THEN reported[id] ELSE content[id]
    BY <1>1 DEF UpdateOrders
  <1>4. changed \subseteq DOMAIN content
    OBVIOUS
  <1> HIDE DEF changed, reported
  <1>5. OrdersDated'
    BY <1>1, <1>2, <1>3 DEF OrdersDated
  <1>6. \A id \in changed : content'[id].updated \in Nat
    BY <1>2, <1>3, <1>4 DEF Dated
  <1> DEFINE after == content'
  <1> HIDE DEF after
  <1>7. Process(after, changed, ledger) /\ \A id \in changed : after[id].updated \in Nat
    BY <1>1, <1>6 DEF after
  <1> QED
    BY <1>5, <1>7, ProcessDated

LEMMA TradesDated ==
  ASSUME OrdersDated, ReportsDated, Trades
  PROVE  OrdersDated' /\ ReportsDated'
  <1>1. ASSUME NEW e \in setup.orders, NewOrder(e) PROVE OrdersDated' /\ ReportsDated'
    <2>1. PICK o : Dated(o) /\ o.exchangeID = e /\ Create(e, o)
      BY <1>1 DEF NewOrder, OrdersDated, Dated
    <2> QED
      BY <2>1, CreateDated
  <1>2. ASSUME NEW e, NEW status, Settle(e, status) PROVE OrdersDated' /\ ReportsDated'
    <2>1. /\ book' = [book EXCEPT ![e] = [book[e] EXCEPT !.status = status, !.updated = clock]]
          /\ e \in DOMAIN book /\ UNCHANGED <<setup, clock, content, outbox>>
      BY <1>2 DEF Settle, storage
    <2>2. book'[e] = [book[e] EXCEPT !.status = status, !.updated = clock]
      BY <2>1
    <2>3. Dated(book'[e]) /\ book'[e].exchangeID = e
      BY <2>1, <2>2 DEF OrdersDated, Dated
    <2>4. \A f \in DOMAIN book : f # e => book'[f] = book[f]
      BY <2>1
    <2>5. DOMAIN book' = DOMAIN book
      BY <2>1
    <2> QED
      BY <2>1, <2>3, <2>4, <2>5 DEF OrdersDated, ReportsDated
  <1>3. CASE Tick
    BY <1>3, SetupAssumption DEF Tick, OrdersDated, ReportsDated, storage
  <1>4. CASE UpdateOrdersOfPoll
    BY <1>4, PollDated
  <1> QED
    BY <1>1, <1>2, <1>3, <1>4 DEF Trades

LEMMA CandlesStep ==
  ASSUME CandlesListed, NEW p, NEW of,
         p \in Pair => (Listed(candles[p]) => Listed(of)),
         candles' = [candles EXCEPT ![p] = of]
  PROVE  CandlesListed'
  <1> SUFFICES ASSUME NEW q \in Pair PROVE q \in DOMAIN candles' /\ Listed(candles'[q])
    BY DEF CandlesListed
  <1>1. CASE q = p
    BY <1>1 DEF CandlesListed
  <1>2. CASE q # p
    BY <1>2 DEF CandlesListed
  <1> QED
    BY <1>1, <1>2

LEMMA ChartedStep == Charted /\ [Next]_vars => Charted'
  <1> SUFFICES ASSUME Charted, [Next]_vars PROVE Charted'
    OBVIOUS
  <1> USE DEF Charted
  <1>1. CASE Trades /\ UNCHANGED chart
    <2>1. OrdersDated' /\ ReportsDated'
      BY <1>1, TradesDated
    <2> QED
      BY <1>1, <2>1 DEF chart, ChartDated, CandlesListed
  <1>2. CASE Again /\ ChartAgain
    <2>1. OrdersDated'
      <3>1. content' = Empty \/ content' = content
        BY <1>2 DEF Again, Restart
      <3> QED
        BY <1>2, <3>1 DEF Again, trades, OrdersDated, Empty
    <2>2. ReportsDated' /\ ChartDated' /\ CandlesListed'
      BY <1>2 DEF Again, ChartAgain, ReportsDated, ChartDated, CandlesListed, Listed, Empty
    <2> QED
      BY <2>1, <2>2
  <1>3. ASSUME NEW o \in outbox, OnOrder(o) PROVE Charted'
    <2>1. /\ UNCHANGED <<storage, trades, candles>> /\ outbox' \subseteq outbox
          /\ \/ UNCHANGED <<orderIDs, orderByID>>
             \/ /\ orderIDs' = [orderIDs EXCEPT ![o.pair] = @ \cup {o.id}]
                /\ orderByID' = With(orderByID, o.id, o.updated)
      BY <1>3 DEF OnOrder
    <2>2. OrdersDated' /\ ReportsDated' /\ CandlesListed'
      BY <2>1 DEF storage, trades, OrdersDated, ReportsDated, CandlesListed
    <2>3. ChartDated'
      BY <2>1 DEF ReportsDated, ChartDated, With
    <2> QED
      BY <2>2, <2>3
  <1>4. ASSUME NEW p, NEW time \in 0..clock, OnCandle(p, time) PROVE Charted'
    <2>1. /\ UNCHANGED <<storage, trades, outbox, orderByID>>
          /\ orderIDs' = orderIDs \/ orderIDs' = With(orderIDs, p, {})
      BY <1>4 DEF OnCandle
    <2>2. OrdersDated' /\ ReportsDated' /\ ChartDated'
      BY <2>1 DEF storage, trades, OrdersDated, ReportsDated, ChartDated, With
    <2> DEFINE c == [time |-> time, orders |-> <<>>]
    <2>3. candles' = [candles EXCEPT ![p] = Append(candles[p], c)]
      BY <1>4 DEF OnCandle
    <2>4. c.time \in Nat /\ "time" \in DOMAIN c
      BY DEF OrdersDated
    <2> HIDE DEF c
    <2>5. \A of : Listed(of) => Listed(Append(of, c))
      BY <2>4 DEF Listed
    <2>6. CandlesListed'
      BY <2>3, <2>5, CandlesStep
    <2> QED
      BY <2>2, <2>6
  <1>5. ASSUME NEW p, Request(p) PROVE Charted'
    <2>1. UNCHANGED <<storage, trades, outbox, orderIDs, orderByID>>
      BY <1>5 DEF Request
    <2>2. OrdersDated' /\ ReportsDated' /\ ChartDated'
      BY <2>1 DEF storage, trades, OrdersDated, ReportsDated, ChartDated
    <2>3. PICK at, late :
            candles' = [candles EXCEPT ![p] =
                          [candles[p] EXCEPT ![at] = [candles[p][at] EXCEPT !.orders = late]]]
      BY <1>5 DEF Request
    <2> DEFINE kept(of) == [of EXCEPT ![at] = [of[at] EXCEPT !.orders = late]]
    <2>4. ASSUME NEW of, Listed(of) PROVE Listed(kept(of))
      <3>1. DOMAIN kept(of) = DOMAIN of
        OBVIOUS
      <3>2. DOMAIN kept(of) = 1..Len(of) /\ Len(of) \in Nat
        BY <2>4, <3>1 DEF Listed
      <3>3. Len(kept(of)) = Len(of)
        BY <3>2
      <3>4. ASSUME NEW i \in DOMAIN of
            PROVE  "time" \in DOMAIN kept(of)[i] /\ kept(of)[i].time = of[i].time
        BY <2>4, <3>4 DEF Listed
      <3> HIDE DEF kept
      <3> QED
        BY <2>4, <3>1, <3>2, <3>3, <3>4 DEF Listed
    <2>5. candles' = [candles EXCEPT ![p] = kept(candles[p])]
      BY <2>3
    <2> HIDE DEF kept
    <2>6. CandlesListed'
      BY <2>4, <2>5, CandlesStep
    <2> QED
      BY <2>2, <2>6
  <1>6. CASE UNCHANGED vars
    BY <1>6 DEF vars, storage, trades, chart, OrdersDated, ReportsDated, ChartDated, CandlesListed
  <1> QED
    BY <1>1, <1>2, <1>3, <1>4, <1>5, <1>6 DEF Next

(* A page served shows every order the chart knows of between the first    *)
(* and the last candle, under the candle it fell in, however orders,       *)
(* candles, requests and restarts followed each other.                     *)
THEOREM PagesShowOrders == Spec => []ChartShowsOrders
  <1>1. Init => Charted
    <2> SUFFICES ASSUME Init PROVE Charted
      OBVIOUS
    <2>1. OrdersDated /\ ReportsDated /\ ChartDated
      BY DEF Init, ResultsInit, StoreInit, ChartInit, Empty, OrdersDated, ReportsDated, ChartDated
    <2>2. CandlesListed
      BY DEF Init, ChartInit, CandlesListed, Listed
    <2> QED
      BY <2>1, <2>2 DEF Charted
  <1>2. Charted => ChartShowsOrders
    <2> SUFFICES ASSUME Charted, NEW pair \in Pair, NEW id \in orderIDs[pair],
                        pair \in DOMAIN orderIDs, NEW i \in DOMAIN candles[pair],
                        candles[pair][i].time <= orderByID[id],
                        IF i = Len(candles[pair]) THEN orderByID[id] = candles[pair][i].time
                        ELSE orderByID[id] < candles[pair][i + 1].time
                 PROVE  Under(candles[pair], orderByID[id], i)
      BY DEF ChartShowsOrders, candlesByPair, Answers
    <2>1. orderByID[id] \in Nat
      BY DEF Charted, ChartDated
    <2>2. Listed(candles[pair])
      BY DEF Charted, CandlesListed
    <2> QED
      BY <2>1, <2>2 DEF Listed, Under
  <1> QED
    BY <1>1, <1>2, ChartedStep, PTL DEF Spec

-----------------------------------------------------------------------------
(* The code's sums and the reference, one execution after the other.       *)

Order ==
  [exchangeID : Nat, pair : Pair, side : {"buy", "sell"}, type : {"market", "limit", "stop"},
   price : Nat, quantity : Nat \ {0}, updated : Nat, status : {"new", "filled", "canceled"},
   stop : Nat \cup {NoStop}]

Sum == [quantity : Int, long : Int, short : Int]

Position == [quantity : Int, cost : Int, reversed : BOOLEAN]

(* The sums stand for a position that no order reversed.                   *)
Agree(sum, held) ==
  \/ held.reversed
  \/ /\ sum.quantity = held.quantity
     /\ held.quantity > 0 => held.cost = sum.long * held.quantity
     /\ held.quantity < 0 => held.cost = sum.short * (-held.quantity)
     /\ held.quantity = 0 => held.cost = 0

LEMMA AverageType ==
  ASSUME NEW o \in Order, NEW average \in Int, NEW quantity \in Int
  PROVE  Average(o, average, quantity) \in Int
  <1>1. PriceOf(o) \in Int /\ o.quantity \in Nat \ {0}
    BY DEF PriceOf, Order, NoStop
  <1> DEFINE m == o.quantity + Abs(quantity)
             n == o.quantity * PriceOf(o) + average * Abs(quantity)
  <1>2. Abs(quantity) \in Nat
    BY DEF Abs
  <1>3. m \in Nat \ {0}
    BY <1>1, <1>2
  <1>4. n \in Int
    <2>1. o.quantity * PriceOf(o) \in Int /\ average * Abs(quantity) \in Int
      BY <1>1, <1>2
    <2>. QED
      BY <2>1
  <1> HIDE DEF m, n
  <1>5. n \div m \in Int
    BY <1>3, <1>4
  <1>. QED
    BY <1>5 DEF Average, m, n

LEMMA SignedType ==
  ASSUME NEW o \in Order
  PROVE  /\ Signed(o) \in Int /\ Abs(Signed(o)) = o.quantity /\ o.quantity \in Nat \ {0}
         /\ PriceOf(o) \in Int
         /\ \/ o.side = "buy" /\ Signed(o) = o.quantity
            \/ o.side = "sell" /\ Signed(o) = -o.quantity
  BY DEF Signed, Abs, Order, PriceOf, NoStop

LEMMA AccumulateType ==
  ASSUME NEW sum \in Sum, NEW o \in Order
  PROVE  Accumulate(sum, o) \in Sum
  <1>1. /\ Average(o, sum.long, sum.quantity) \in Int /\ Average(o, sum.short, sum.quantity) \in Int
        /\ sum.quantity + Signed(o) \in Int
    BY AverageType, SignedType DEF Sum
  <1>. QED
    BY <1>1 DEF Accumulate, Sum

(* An average whose division leaves nothing, of a cost known exactly.      *)
LEMMA AverageIs ==
  ASSUME NEW o \in Order, NEW average \in Int, NEW quantity \in Int, NEW cost \in Int,
         cost = average * Abs(quantity),
         (cost + o.quantity * PriceOf(o)) % (Abs(quantity) + o.quantity) = 0
  PROVE  Average(o, average, quantity) * (Abs(quantity) + o.quantity)
           = cost + o.quantity * PriceOf(o)
  <1> DEFINE m == Abs(quantity) + o.quantity
             n == cost + o.quantity * PriceOf(o)
  <1>1. Abs(quantity) \in Nat /\ o.quantity \in Nat \ {0} /\ PriceOf(o) \in Int
    BY SignedType DEF Abs
  <1>2. m \in Nat \ {0} /\ o.quantity * PriceOf(o) \in Int
    BY <1>1
  <1>3. n \in Int
    BY <1>2
  <1>4. o.quantity + Abs(quantity) = m
    BY <1>1
  <1>5. o.quantity * PriceOf(o) + average * Abs(quantity) = n
    BY <1>2
  <1>6. Average(o, average, quantity) = n \div m
    BY <1>4, <1>5 DEF Average
  <1> HIDE DEF m, n
  <1>7. n % m = 0
    BY DEF m, n
  <1>8. n = m * (n \div m) + (n % m) /\ n \div m \in Int
    BY <1>2, <1>3, Division
  <1>9. (n \div m) * m = n
    BY <1>2, <1>3, <1>7, <1>8
  <1>. QED
    BY <1>6, <1>9 DEF m, n

(* What a reduction leaves of a cost that is a whole average.              *)
LEMMA PartIs ==
  ASSUME NEW average \in Int, NEW size \in Nat \ {0}, NEW n \in Int
  PROVE  /\ (average * size) \div size = average
         /\ average * size - average * n = average * (size - n)
  <1>1. 0 \in 0..(size - 1) /\ (average * size + 0) \div size = average
    BY Quotient
  <1>2. average * size \in Int
    OBVIOUS
  <1>3. average * size + 0 = average * size
    BY <1>2
  <1>4. average * size - average * n = average * (size - n)
    OBVIOUS
  <1>. QED
    BY <1>1, <1>3, <1>4

LEMMA SignOf ==
  ASSUME NEW q \in Int, NEW n \in Nat \ {0}
  PROVE  /\ q >= 0 <=> q * n >= 0
         /\ q <= 0 <=> q * (-n) >= 0
         /\ q > 0 <=> q * (-n) < 0
         /\ q < 0 <=> q * n < 0
  <1>1. ASSUME NEW x \in Nat PROVE x * n >= 0 /\ (x > 0 => x * n > 0)
    OBVIOUS
  <1>2. CASE q >= 0
    <2>1. q * n >= 0 /\ (q > 0 => q * n > 0) /\ q * n \in Int
      BY <1>1, <1>2
    <2>2. q * (-n) = -(q * n)
      OBVIOUS
    <2>3. q = 0 => q * n = 0
      OBVIOUS
    <2>. QED
      BY <1>2, <2>1, <2>2, <2>3
  <1>3. CASE q < 0
    <2>1. -q \in Nat /\ -q > 0
      BY <1>3
    <2>2. (-q) * n > 0
      BY <1>1, <2>1
    <2>3. (-q) * n = -(q * n) /\ q * (-n) = -(q * n) /\ q * n \in Int
      OBVIOUS
    <2>. QED
      BY <1>3, <2>2, <2>3
  <1>. QED
    BY <1>2, <1>3

LEMMA TradeType ==
  ASSUME NEW held \in Position, NEW o \in Order
  PROVE  Trade(held, o) \in Position
  <1>1. /\ Signed(o) \in Int /\ Abs(Signed(o)) = o.quantity /\ o.quantity \in Nat \ {0}
        /\ PriceOf(o) \in Int
    BY SignedType
  <1>2. held.quantity \in Int /\ held.cost \in Int /\ held.reversed \in BOOLEAN
    BY DEF Position
  <1>3. CASE held.quantity * Signed(o) >= 0
    <2>1. Abs(Signed(o)) * PriceOf(o) \in Int
      BY <1>1
    <2>2. Trade(held, o) = [held EXCEPT !.quantity = @ + Signed(o),
                                        !.cost = @ + Abs(Signed(o)) * PriceOf(o)]
      BY <1>3 DEF Trade
    <2>3. PICK a \in Int, b \in Int :
            a = Signed(o) /\ b = Abs(Signed(o)) * PriceOf(o)
      BY <1>1, <2>1
    <2>4. Trade(held, o) = [held EXCEPT !.quantity = held.quantity + a,
                                        !.cost = held.cost + b]
      BY <2>2, <2>3
    <2>5. held.quantity + a \in Int /\ held.cost + b \in Int
      BY <1>2
    <2>. QED
      BY <2>4, <2>5 DEF Position
  <1>4. CASE ~(held.quantity * Signed(o) >= 0)
    <2>1. held.quantity # 0
      <3>1. held.quantity = 0 => held.quantity * Signed(o) = 0
        BY <1>1
      <3>. QED
        BY <1>4, <3>1
    <2>2. Abs(held.quantity) \in Nat \ {0}
      BY <1>2, <2>1 DEF Abs
    <2>3. held.cost \div Abs(held.quantity) \in Int
      BY <1>2, <2>2
    <2>4. (held.cost \div Abs(held.quantity)) * Abs(Signed(o)) \in Int
      BY <1>1, <2>3
    <2>. QED
      BY <1>1, <1>2, <1>4, <2>4 DEF Trade, Position
  <1>. QED
    BY <1>3, <1>4

(* The sums of the code go on standing for the position.                   *)
LEMMA TradeAgrees ==
  ASSUME NEW sum \in Sum, NEW held \in Position, NEW o \in Order, NEW k \in Order,
         k.side = o.side, k.quantity = o.quantity, PriceOf(k) = PriceOf(o),
         Agree(sum, held), WholeAverage(Trade(held, k))
  PROVE  Agree(Accumulate(sum, o), Trade(held, k))
  <1> DEFINE Q == held.quantity
             C == held.cost
             n == o.quantity
             p == PriceOf(o)
             after == Accumulate(sum, o)
             next == Trade(held, k)
  <1>1. /\ Q \in Int /\ C \in Int /\ n \in Nat \ {0} /\ p \in Int
        /\ sum.long \in Int /\ sum.short \in Int
    BY SignedType DEF Position, Sum
  <1>2. /\ o.side = "buy" \/ o.side = "sell"
        /\ Abs(Signed(k)) = n /\ PriceOf(k) = p /\ Signed(k) = Signed(o)
        /\ Signed(o) = IF o.side = "buy" THEN n ELSE -n
    BY SignedType DEF Signed, Order
  <1>3. next.reversed \in BOOLEAN
    BY TradeType DEF Position
  <1>4. SUFFICES ASSUME ~next.reversed PROVE Agree(after, next)
    BY DEF Agree
  <1>5. CASE Q * Signed(k) >= 0
    <2>1. /\ next.quantity = Q + Signed(o) /\ next.cost = C + n * p
          /\ next.reversed = held.reversed
      BY <1>2, <1>5 DEF Trade, Position
    <2>2. Agree(sum, held) /\ ~held.reversed
      BY <1>4, <2>1
    <2>3. /\ sum.quantity = Q /\ (Q > 0 => C = sum.long * Q)
          /\ (Q < 0 => C = sum.short * (-Q)) /\ (Q = 0 => C = 0)
      BY <2>2 DEF Agree
    <2>4. WholeAverage(next) /\ next.quantity # 0 => next.cost % Abs(next.quantity) = 0
      BY <1>4 DEF WholeAverage
    <2>5. CASE o.side = "buy"
      <3>1. Q >= 0 /\ next.quantity = Q + n
        BY <1>1, <1>2, <1>5, <2>1, <2>5, SignOf
      <3>2. Abs(Q) = Q /\ Abs(Q + n) = Q + n /\ Q + n > 0
        BY <1>1, <3>1 DEF Abs
      <3>3. Q = 0 => sum.long * Abs(Q) = 0
        BY <1>1, <3>2
      <3>4. C = sum.long * Abs(Q)
        BY <1>1, <2>3, <3>1, <3>2, <3>3
      <3>5. (C + n * p) % (Abs(Q) + n) = 0
        BY <1>1, <2>1, <2>4, <3>1, <3>2
      <3>6. Average(o, sum.long, Q) * (Q + n) = C + n * p
        BY <1>1, <3>2, <3>4, <3>5, AverageIs
      <3>7. after.quantity = Q + n /\ after.long = Average(o, sum.long, Q)
        BY <1>1, <1>2, <2>3, <2>5, <3>1, <3>2 DEF Accumulate
      <3>. QED
        BY <1>1, <2>1, <3>1, <3>2, <3>6, <3>7 DEF Agree
    <2>6. CASE o.side = "sell"
      <3>1. Q <= 0 /\ next.quantity = Q - n
        BY <1>1, <1>2, <1>5, <2>1, <2>6, SignOf
      <3>2. Abs(Q) = -Q /\ Abs(Q - n) = n - Q /\ Q - n < 0
        BY <1>1, <3>1 DEF Abs
      <3>3. Q = 0 => sum.short * Abs(Q) = 0
        BY <1>1, <3>2
      <3>4. C = sum.short * Abs(Q)
        BY <1>1, <2>3, <3>1, <3>2, <3>3
      <3>5. (C + n * p) % (Abs(Q) + n) = 0
        BY <1>1, <2>1, <2>4, <3>1, <3>2
      <3>6. Average(o, sum.short, Q) * (n - Q) = C + n * p
        <4>1. Abs(Q) + n = n - Q
          BY <1>1, <3>2
        <4>2. Average(o, sum.short, Q) * (Abs(Q) + n) = C + n * p
          BY <1>1, <3>4, <3>5, AverageIs
        <4>. QED
          BY <4>1, <4>2
      <3>7. after.quantity = Q - n /\ after.short = Average(o, sum.short, Q)
        BY <1>1, <1>2, <2>3, <2>6, <3>2 DEF Accumulate
      <3>8. -(Q - n) = n - Q
        BY <1>1
      <3>. QED
        BY <1>1, <2>1, <3>1, <3>2, <3>6, <3>7, <3>8 DEF Agree
    <2>. QED
      BY <1>2, <2>5, <2>6
  <1>6. CASE ~(Q * Signed(k) >= 0)
    <2>1. /\ next.quantity = Q + Signed(o) /\ next.cost = C - (C \div Abs(Q)) * n
          /\ next.reversed = (held.reversed \/ n > Abs(Q))
      BY <1>2, <1>6 DEF Trade
    <2>2. ~held.reversed /\ ~(n > Abs(Q))
      BY <1>4, <2>1
    <2>3. /\ sum.quantity = Q /\ (Q > 0 => C = sum.long * Q)
          /\ (Q < 0 => C = sum.short * (-Q)) /\ (Q = 0 => C = 0)
      BY <2>2 DEF Agree
    <2>5. CASE o.side = "buy"
      <3>1. Q < 0 /\ next.quantity = Q + n
        BY <1>1, <1>2, <1>6, <2>1, <2>5, SignOf
      <3>2. Abs(Q) = -Q /\ n <= -Q /\ -Q \in Nat \ {0}
        BY <1>1, <2>2, <3>1 DEF Abs
      <3>3. C \div Abs(Q) = sum.short /\ C - sum.short * n = sum.short * (-Q - n)
        <4>0. sum.short \in Int /\ -Q \in Nat \ {0} /\ n \in Int
          BY <1>1, <3>2
        <4>1. /\ (sum.short * (-Q)) \div (-Q) = sum.short
              /\ sum.short * (-Q) - sum.short * n = sum.short * (-Q - n)
          BY <4>0, PartIs
        <4>. QED
          BY <2>3, <3>1, <3>2, <4>1
      <3>4. next.cost = sum.short * (-Q - n)
        BY <2>1, <3>3
      <3>5. after.quantity = Q + n /\ (Q + n < 0 => after.short = sum.short)
        BY <1>1, <1>2, <2>3, <2>5 DEF Accumulate
      <3>6. -(Q + n) = -Q - n /\ (Q + n = 0 => -Q - n = 0)
        BY <1>1
      <3>7. sum.short * 0 = 0
        BY <1>1
      <3>. QED
        BY <1>1, <3>1, <3>2, <3>4, <3>5, <3>6, <3>7 DEF Agree
    <2>6. CASE o.side = "sell"
      <3>1. Q > 0 /\ next.quantity = Q - n
        BY <1>1, <1>2, <1>6, <2>1, <2>6, SignOf
      <3>2. Abs(Q) = Q /\ n <= Q /\ Q \in Nat \ {0}
        BY <1>1, <2>2, <3>1 DEF Abs
      <3>3. C \div Abs(Q) = sum.long /\ C - sum.long * n = sum.long * (Q - n)
        <4>0. sum.long \in Int /\ Q \in Nat \ {0} /\ n \in Int
          BY <1>1, <3>2
        <4>1. /\ (sum.long * Q) \div Q = sum.long
              /\ sum.long * Q - sum.long * n = sum.long * (Q - n)
          BY <4>0, PartIs
        <4>. QED
          BY <2>3, <3>1, <3>2, <4>1
      <3>4. next.cost = sum.long * (Q - n)
        BY <2>1, <3>3
      <3>5. after.quantity = Q - n /\ (Q - n > 0 => after.long = sum.long)
        BY <1>1, <1>2, <2>3, <2>6 DEF Accumulate
      <3>7. sum.long * 0 = 0
        BY <1>1
      <3>. QED
        BY <1>1, <3>1, <3>2, <3>4, <3>5, <3>7 DEF Agree
    <2>. QED
      BY <1>2, <2>5, <2>6
  <1>. QED
    BY <1>5, <1>6

Nothing == [quantity |-> 0, cost |-> 0, reversed |-> FALSE]

AllOrders(known) == \A e \in DOMAIN known : known[e] \in Order

(* The reference begins with nothing and follows the pair's executions.    *)
LEMMA HeldIs ==
  ASSUME NEW known, AllOrders(known), NEW executions \in Seq(DOMAIN known), NEW pair
  PROVE  LET held == Held(known, executions, pair)
         IN  /\ held \in [0..Len(executions) -> Position]
             /\ held[0] = Nothing
             /\ \A i \in 1..Len(executions) :
                  held[i] = IF known[executions[i]].pair = pair
                            THEN Trade(held[i - 1], known[executions[i]]) ELSE held[i - 1]
  <1> DEFINE n == Len(executions)
             T(f) == f = [i \in 0..Len(executions) |->
                            IF i = 0 THEN [quantity |-> 0, cost |-> 0, reversed |-> FALSE]
                            ELSE IF known[executions[i]].pair = pair
                                 THEN Trade(f[i - 1], known[executions[i]]) ELSE f[i - 1]]
             step == [x \in (1..n) \X Position |->
                        IF known[executions[x[1]]].pair = pair
                        THEN Trade(x[2], known[executions[x[1]]]) ELSE x[2]]
  <1>0. n \in Nat /\ \A i \in 1..n : executions[i] \in DOMAIN known
    OBVIOUS
  <1>1. Nothing \in Position
    BY DEF Nothing, Position
  <1>2. \A i \in 1..n : \A v \in Position :
          step[<<i, v>>] = IF known[executions[i]].pair = pair
                           THEN Trade(v, known[executions[i]]) ELSE v
    OBVIOUS
  <1>3. \A i \in 1..n : \A v \in Position : step[<<i, v>>] \in Position
    BY <1>0, <1>2, TradeType DEF AllOrders
  <1> HIDE DEF step
  <1>4. PICK f : IsRun(f, Position, n, Nothing, step)
    BY <1>0, <1>1, <1>3, RunExists
  <1>5. T(f)
    <2>1. /\ f \in [0..n -> Position] /\ f[0] = Nothing
          /\ \A i \in 1..n : f[i] = step[<<i, f[i - 1]>>]
      BY <1>4 DEF IsRun
    <2>2. ASSUME NEW i \in 0..n, i # 0
          PROVE  f[i] = IF known[executions[i]].pair = pair
                        THEN Trade(f[i - 1], known[executions[i]]) ELSE f[i - 1]
      <3>1. i \in 1..n /\ i - 1 \in 0..n
        BY <1>0, <2>2
      <3>2. f[i - 1] \in Position
        BY <2>1, <3>1
      <3>. QED
        BY <1>2, <2>1, <3>1, <3>2
    <2>3. f = [i \in 0..n |-> f[i]]
      BY <2>1
    <2>. QED
      BY <2>1, <2>2, <2>3 DEF Nothing
  <1> DEFINE held == Held(known, executions, pair)
  <1>6. held = CHOOSE g : T(g)
    BY DEF Held
  <1> HIDE DEF T
  <1>7. T(held)
    BY <1>5, <1>6
  <1> HIDE DEF held
  <1>8. /\ DOMAIN held = 0..n /\ held = [i \in 0..n |-> held[i]] /\ held[0] = Nothing
        /\ \A i \in 1..n : held[i] = IF known[executions[i]].pair = pair
                                     THEN Trade(held[i - 1], known[executions[i]])
                                     ELSE held[i - 1]
    <2>1. held = [i \in 0..n |-> IF i = 0 THEN Nothing
                                 ELSE IF known[executions[i]].pair = pair
                                      THEN Trade(held[i - 1], known[executions[i]])
                                      ELSE held[i - 1]]
      BY <1>7 DEF T, Nothing
    <2>2. 0 \in 0..n /\ \A i \in 1..n : i \in 0..n /\ i # 0
      BY <1>0
    <2> HIDE DEF n
    <2>. QED
      BY <2>1, <2>2
  <1>9. \A i \in 0..n : held[i] \in Position
    <2> DEFINE P == {i \in Nat : i <= n => held[i] \in Position}
    <2>1. 0 \in P
      BY <1>1, <1>8
    <2>2. ASSUME NEW i \in Nat, i \in P PROVE i + 1 \in P
      <3> SUFFICES ASSUME i + 1 <= n PROVE held[i + 1] \in Position
        OBVIOUS
      <3>1. i + 1 \in 1..n /\ (i + 1) - 1 = i /\ held[i] \in Position
        BY <1>0, <2>2
      <3>. QED
        BY <1>0, <1>8, <3>1, TradeType DEF AllOrders
    <2> HIDE DEF P
    <2>3. Nat \subseteq P
      BY <2>1, <2>2, EveryNatural
    <2>. QED
      BY <1>0, <2>3 DEF P
  <1>. QED
    BY <1>8, <1>9 DEF held

NoSum == [quantity |-> 0, long |-> 0, short |-> 0]

IsSum(f, orders, earlier) ==
  /\ f \in [0..Len(earlier) -> Sum] /\ f[0] = NoSum
  /\ \A i \in 1..Len(earlier) : f[i] = Accumulate(f[i - 1], orders[earlier[i]])

(* The code's sums, one earlier order after the other.                     *)
LEMMA SummedIs ==
  ASSUME NEW orders, NEW id, NEW earlier, earlier = Orders(orders, EarlierIDs(orders, id)),
         Len(earlier) \in Nat, \A i \in 1..Len(earlier) : orders[earlier[i]] \in Order
  PROVE  \E f : IsSum(f, orders, earlier) /\ Summed(orders, id) = f[Len(earlier)]
  <1> DEFINE n == Len(earlier)
             T(f) == f = [i \in 0..Len(earlier) |->
                            IF i = 0 THEN [quantity |-> 0, long |-> 0, short |-> 0]
                            ELSE Accumulate(f[i - 1], orders[earlier[i]])]
             step == [x \in (1..n) \X Sum |-> Accumulate(x[2], orders[earlier[x[1]]])]
  <1>0. n \in Nat
    OBVIOUS
  <1>1. NoSum \in Sum
    BY DEF NoSum, Sum
  <1>2. \A i \in 1..n : \A v \in Sum : step[<<i, v>>] = Accumulate(v, orders[earlier[i]])
    OBVIOUS
  <1>3. \A i \in 1..n : \A v \in Sum : step[<<i, v>>] \in Sum
    BY <1>2, AccumulateType
  <1> HIDE DEF step
  <1>4. PICK f : IsRun(f, Sum, n, NoSum, step)
    BY <1>0, <1>1, <1>3, RunExists
  <1>5. /\ f \in [0..n -> Sum] /\ f[0] = NoSum
        /\ \A i \in 1..n : f[i] = step[<<i, f[i - 1]>>]
    BY <1>4 DEF IsRun
  <1>6. \A i \in 1..n : f[i] = Accumulate(f[i - 1], orders[earlier[i]])
    <2> SUFFICES ASSUME NEW i \in 1..n PROVE f[i] = Accumulate(f[i - 1], orders[earlier[i]])
      OBVIOUS
    <2>1. i - 1 \in 0..n
      BY <1>0
    <2>. QED
      BY <1>2, <1>5, <2>1
  <1>7. T(f)
    <2>1. \A i \in 0..n : i # 0 => i \in 1..n
      BY <1>0
    <2>2. f = [i \in 0..n |-> f[i]]
      BY <1>5
    <2>. QED
      BY <1>5, <1>6, <2>1, <2>2 DEF NoSum
  <1>8. Summed(orders, id) = (CHOOSE g : T(g))[n]
    BY DEF Summed
  <1>9. \A g : T(g) => g = f
    <2> SUFFICES ASSUME NEW g, T(g) PROVE g = f
      OBVIOUS
    <2>0. /\ DOMAIN g = 0..n /\ g[0] = NoSum /\ g = [i \in 0..n |-> g[i]]
          /\ \A i \in 1..n : g[i] = Accumulate(g[i - 1], orders[earlier[i]])
      BY <1>0 DEF NoSum
    <2> HIDE DEF T
    <2> DEFINE P == {i \in Nat : i <= n => g[i] = f[i]}
    <2>1. 0 \in P
      BY <1>5, <2>0
    <2>2. ASSUME NEW i \in Nat, i \in P PROVE i + 1 \in P
      <3> SUFFICES ASSUME i + 1 <= n PROVE g[i + 1] = f[i + 1]
        OBVIOUS
      <3>1. i + 1 \in 1..n /\ (i + 1) - 1 = i /\ g[i] = f[i]
        BY <1>0, <2>2
      <3>2. /\ g[i + 1] = Accumulate(g[i], orders[earlier[i + 1]])
            /\ f[i + 1] = Accumulate(f[i], orders[earlier[i + 1]])
        BY <1>6, <2>0, <3>1
      <3>. QED
        BY <3>1, <3>2
    <2> HIDE DEF P
    <2>3. Nat \subseteq P
      BY <2>1, <2>2, EveryNatural
    <2>4. \A i \in 0..n : g[i] = f[i]
      BY <1>0, <2>3 DEF P
    <2>. QED
      BY <1>5, <2>0, <2>4
  <1> HIDE DEF T
  <1>10. Summed(orders, id) = f[n]
    BY <1>7, <1>8, <1>9
  <1>. QED
    BY <1>5, <1>6, <1>10 DEF IsSum

-----------------------------------------------------------------------------
(* The earlier orders, in the order of their execution.                    *)

(* How many of some numbers are not above another.                         *)
UpTo(P, j) == Cardinality({i \in P : i <= j})

LEMMA UpToIs ==
  ASSUME NEW n \in Nat, NEW P \in SUBSET (1..n)
  PROVE  /\ UpTo(P, 0) = 0 /\ \A j \in 0..n : UpTo(P, j) \in Nat
         /\ \A j \in 1..n : UpTo(P, j) = IF j \in P THEN UpTo(P, j - 1) + 1 ELSE UpTo(P, j - 1)
         /\ \A j, k \in 0..n : j <= k => UpTo(P, j) <= UpTo(P, k)
  <1>0. \A i \in P : i \in Int /\ 1 <= i /\ i <= n
    OBVIOUS
  <1>1. IsFiniteSet(1..n)
    BY FS_Interval
  <1>2. ASSUME NEW j \in 0..n
        PROVE  IsFiniteSet({i \in P : i <= j}) /\ UpTo(P, j) \in Nat
    <2>1. {i \in P : i <= j} \subseteq 1..n
      OBVIOUS
    <2>. QED
      BY <1>1, <2>1, FS_Subset, FS_CardinalityType DEF UpTo
  <1>3. UpTo(P, 0) = 0
    <2>1. {i \in P : i <= 0} = {}
      <3>1. \A i \in P : ~(i <= 0)
        BY <1>0
      <3>. QED
        BY <3>1
    <2>. QED
      BY <2>1, FS_EmptySet DEF UpTo
  <1>4. ASSUME NEW j \in 1..n
        PROVE  UpTo(P, j) = IF j \in P THEN UpTo(P, j - 1) + 1 ELSE UpTo(P, j - 1)
    <2> DEFINE below == {i \in P : i <= j - 1}
    <2>1. j - 1 \in 0..n /\ j \notin below
      OBVIOUS
    <2>2. IsFiniteSet(below) /\ UpTo(P, j - 1) = Cardinality(below)
      BY <1>2, <2>1 DEF UpTo
    <2>3. {i \in P : i <= j} = IF j \in P THEN below \cup {j} ELSE below
      <3>1. \A i \in P : i <= j <=> i <= j - 1 \/ i = j
        BY <1>0
      <3>. QED
        BY <3>1
    <2> HIDE DEF below
    <2>4. Cardinality(below \cup {j}) = Cardinality(below) + 1
      BY <2>1, <2>2, FS_AddElement
    <2>. QED
      BY <2>2, <2>3, <2>4 DEF UpTo
  <1>5. ASSUME NEW j \in 0..n, NEW k \in 0..n, j <= k
        PROVE  UpTo(P, j) <= UpTo(P, k)
    <2>1. {i \in P : i <= j} \in SUBSET {i \in P : i <= k}
      <3>1. \A i \in P : i <= j => i <= k
        BY <1>0, <1>5
      <3>. QED
        BY <3>1
    <2>. QED
      BY <1>2, <2>1, FS_Subset DEF UpTo
  <1>. QED
    BY <1>2, <1>3, <1>4, <1>5

(* K lists the identifiers of S in the storage's order, at the places P.   *)
Lists(orders, S, n, P, K) ==
  /\ n \in Nat /\ P \in SUBSET (1..n) /\ K \in [P -> S]
  /\ \A a \in S : \E i \in P : K[i] = a
  /\ \A i, j \in P : Before(orders, K[i], K[j]) <=> i < j

(* What Orders answers of identifiers that are listed.                     *)
LEMMA OrdersAre ==
  ASSUME NEW orders, NEW S, NEW n, NEW P, NEW K, Lists(orders, S, n, P, K)
  PROVE  /\ Len(Orders(orders, S)) = UpTo(P, n)
         /\ \A i \in P : /\ UpTo(P, i) \in 1..UpTo(P, n)
                         /\ Orders(orders, S)[UpTo(P, i)] = K[i]
         /\ \A r \in 1..UpTo(P, n) : Orders(orders, S)[r] \in S
  <1>a. /\ n \in Nat /\ P \in SUBSET (1..n) /\ K \in [P -> S]
        /\ \A a \in S : \E i \in P : K[i] = a
        /\ \A i, j \in P : Before(orders, K[i], K[j]) <=> i < j
    BY DEF Lists
  <1> USE <1>a
  <1>b. /\ \A j \in 0..n : UpTo(P, j) \in Nat
        /\ \A j \in 1..n : UpTo(P, j) = IF j \in P THEN UpTo(P, j - 1) + 1 ELSE UpTo(P, j - 1)
        /\ \A j, k \in 0..n : j <= k => UpTo(P, j) <= UpTo(P, k)
    BY UpToIs
  <1> DEFINE Rank(a) == Cardinality({b \in S : Before(orders, b, a)})
  <1>0. \A i \in P : i \in 1..n /\ i \in 0..n /\ i - 1 \in 0..n /\ i \in Int /\ i <= n
    OBVIOUS
  <1>1. \A i, j \in P : K[i] = K[j] => i = j
    BY <1>0
  <1>2. ASSUME NEW i \in P PROVE Rank(K[i]) = UpTo(P, i) - 1
    <2> DEFINE A == {j \in P : j <= i - 1}
               B == {b \in S : Before(orders, b, K[i])}
               f == [j \in A |-> K[j]]
    <2>1. f \in [A -> B]
      <3>1. ASSUME NEW j \in A PROVE K[j] \in B
        <4>1. j \in P /\ j < i
          BY <1>0
        <4>. QED
          BY <4>1
      <3>. QED
        BY <3>1
    <2>2. \A b \in B : \E j \in A : f[j] = b
      <3> SUFFICES ASSUME NEW b \in B PROVE \E j \in A : f[j] = b
        OBVIOUS
      <3>1. PICK j \in P : K[j] = b
        OBVIOUS
      <3>2. j < i
        BY <3>1
      <3>3. j \in A
        BY <1>0, <3>2
      <3>. QED
        BY <3>1, <3>3
    <2>3. \A j, k \in A : f[j] = f[k] => j = k
      BY <1>1
    <2> HIDE DEF f
    <2>4. f \in Bijection(A, B)
      BY <2>1, <2>2, <2>3 DEF Bijection, Injection, IsInjective, Surjection
    <2>5. IsFiniteSet(A) /\ Cardinality(A) = UpTo(P, i - 1)
      <3>1. IsFiniteSet(1..n)
        BY FS_Interval
      <3>2. A \subseteq 1..n
        BY <1>0
      <3>. QED
        BY <3>1, <3>2, FS_Subset DEF UpTo
    <2>6. Cardinality(B) = Cardinality(A)
      <3> HIDE DEF A, B
      <3>. QED
        BY <2>4, <2>5, FS_Bijection DEF ExistsBijection
    <2>7. UpTo(P, i) = UpTo(P, i - 1) + 1 /\ UpTo(P, i - 1) \in Nat
      BY <1>0, <1>b
    <2>. QED
      BY <2>5, <2>6, <2>7
  <1>3. Cardinality(S) = UpTo(P, n)
    <2> DEFINE A == {i \in P : i <= n}
    <2>1. A = P
      <3>1. \A i \in P : i <= n
        BY <1>0
      <3>. QED
        BY <3>1
    <2> HIDE DEF A
    <2>2. K \in Bijection(P, S)
      BY <1>1 DEF Bijection, Injection, IsInjective, Surjection
    <2>3. IsFiniteSet(P)
      <3>1. IsFiniteSet(1..n) /\ P \subseteq 1..n
        BY FS_Interval
      <3>. QED
        BY <3>1, FS_Subset
    <2>4. Cardinality(S) = Cardinality(P)
      BY <2>2, <2>3, FS_Bijection DEF ExistsBijection
    <2>. QED
      BY <2>1, <2>4 DEF UpTo, A
  <1>4. UpTo(P, n) \in Nat /\ \A i \in P : UpTo(P, i) \in Nat
    BY <1>0, <1>b
  <1>5. \A i, j \in P : UpTo(P, i) = UpTo(P, j) => i = j
    <2> SUFFICES ASSUME NEW i \in P, NEW j \in P, i < j PROVE UpTo(P, i) < UpTo(P, j)
      BY <1>0, <1>4
    <2>1. i \in 0..n /\ j - 1 \in 0..n /\ i <= j - 1 /\ j \in 1..n
      BY <1>0
    <2>2. UpTo(P, i) <= UpTo(P, j - 1)
      BY <2>1, <1>b
    <2>3. UpTo(P, j) = UpTo(P, j - 1) + 1 /\ UpTo(P, j - 1) \in Nat /\ UpTo(P, i) \in Nat
      BY <2>1, <1>b
    <2>. QED
      BY <2>2, <2>3
  <1>6. \A i \in P : UpTo(P, i) \in 1..UpTo(P, n)
    <2> SUFFICES ASSUME NEW i \in P PROVE UpTo(P, i) \in 1..UpTo(P, n)
      OBVIOUS
    <2>1. UpTo(P, i) = UpTo(P, i - 1) + 1 /\ UpTo(P, i - 1) \in Nat
      BY <1>0, <1>b
    <2>2. UpTo(P, i) <= UpTo(P, n)
      <3>1. i \in 0..n /\ n \in 0..n /\ i <= n
        BY <1>0
      <3>. QED
        BY <3>1, <1>b
    <2>. QED
      BY <1>4, <2>1, <2>2
  <1>7. \A r \in 1..UpTo(P, n) : \E i \in P : UpTo(P, i) = r
    <2> DEFINE T == 1..UpTo(P, n)
               f == [i \in P |-> UpTo(P, i)]
    <2>1. f \in Injection(P, T)
      BY <1>5, <1>6 DEF Injection, IsInjective
    <2>2. IsFiniteSet(P) /\ Cardinality(P) = UpTo(P, n)
      <3>1. IsFiniteSet(1..n) /\ P \subseteq 1..n
        BY FS_Interval
      <3>2. {i \in P : i <= n} = P
        BY <1>0
      <3>. QED
        BY <3>1, <3>2, FS_Subset DEF UpTo
    <2>3. IsFiniteSet(T) /\ Cardinality(T) = UpTo(P, n)
      <3> DEFINE m == UpTo(P, n)
      <3>1. m \in Nat
        BY <1>4
      <3> HIDE DEF m
      <3>2. IsFiniteSet(1..m) /\ Cardinality(1..m) = IF 1 > m THEN 0 ELSE m - 1 + 1
        BY <3>1, FS_Interval
      <3>3. IsFiniteSet(1..m) /\ Cardinality(1..m) = m
        BY <3>1, <3>2
      <3>. QED
        BY <3>3 DEF m
    <2> HIDE DEF f, T
    <2>4. f \in Surjection(P, T)
      BY <2>1, <2>2, <2>3, FS_Injection
    <2>5. \A r \in T : \E i \in P : f[i] = r
      BY <2>4 DEF Surjection
    <2>. QED
      BY <2>5 DEF f, T
  <1> DEFINE list == Orders(orders, S)
  <1>8. list = [r \in 1..UpTo(P, n) |-> CHOOSE a \in S : Rank(a) = r - 1]
    BY <1>3 DEF Orders
  <1> HIDE DEF Rank, list
  <1>9. ASSUME NEW i \in P PROVE list[UpTo(P, i)] = K[i]
    <2>1. K[i] \in S /\ Rank(K[i]) = UpTo(P, i) - 1
      BY <1>2
    <2>2. ASSUME NEW a \in S, Rank(a) = UpTo(P, i) - 1 PROVE a = K[i]
      <3>1. PICK j \in P : K[j] = a
        OBVIOUS
      <3>2. UpTo(P, j) - 1 = UpTo(P, i) - 1
        BY <1>2, <2>2, <3>1
      <3>. QED
        BY <1>4, <1>5, <3>1, <3>2
    <2>3. (CHOOSE a \in S : Rank(a) = UpTo(P, i) - 1) = K[i]
      BY <2>1, <2>2
    <2>. QED
      BY <1>6, <1>8, <2>3
  <1>10. \A r \in 1..UpTo(P, n) : list[r] \in S
    BY <1>7, <1>9
  <1>11. Len(list) = UpTo(P, n)
    BY <1>4, <1>8
  <1>. QED
    BY <1>6, <1>9, <1>10, <1>11 DEF list

(* The orders at the exchange, and those it executed, each once.           *)
BookOf(known, executions) ==
  /\ AllOrders(known) /\ \A e \in DOMAIN known : known[e].exchangeID = e
  /\ executions \in Seq(DOMAIN known)
  /\ \A i, j \in DOMAIN executions : executions[i] = executions[j] => i = j
  /\ \A e \in DOMAIN known :
       known[e].status = "filled" <=> \E i \in DOMAIN executions : executions[i] = e

(* A stored order is that of the exchange, but for a stop it does not tell.*)
Same(o, k) == o = k \/ o = [k EXCEPT !.stop = NoStop]

StoreOf(orders, known) ==
  /\ DOMAIN orders \subseteq Nat
  /\ \A a, b \in DOMAIN orders : orders[a].exchangeID = orders[b].exchangeID => a = b
  /\ \A a \in DOMAIN orders :
       /\ orders[a] \in Order /\ orders[a].exchangeID \in DOMAIN known
       /\ orders[a].status # "new" => Same(orders[a], known[orders[a].exchangeID])

LEMMA SameIs ==
  ASSUME NEW k \in Order, NEW o, Same(o, k)
  PROVE  /\ o.exchangeID = k.exchangeID /\ o.pair = k.pair /\ o.side = k.side
         /\ o.quantity = k.quantity /\ o.updated = k.updated /\ o.status = k.status
         /\ o.type = k.type /\ o.price = k.price /\ o \in Order
         /\ PriceOf(o) # NoStop => PriceOf(o) = PriceOf(k)
  BY DEF Same, Order, PriceOf, NoStop

LEMMA PlaceIs ==
  ASSUME NEW executions, NEW i \in DOMAIN executions,
         \A a, b \in DOMAIN executions : executions[a] = executions[b] => a = b
  PROVE  Place(executions, executions[i]) = i
  BY DEF Place

(* What lies seconds apart, Bunt's index has in the order of time.         *)
LEMMA IndexedGrows ==
  ASSUME NEW s \in Nat, NEW t \in Nat, s \div 2 < t \div 2
  PROVE  s < t /\ Indexed(s) < Indexed(t)
  <1>1. s = 2 * (s \div 2) + (s % 2) /\ s % 2 \in 0..1
    OBVIOUS
  <1>2. t = 2 * (t \div 2) + (t % 2) /\ t % 2 \in 0..1
    OBVIOUS
  <1>3. s \div 2 \in Int /\ t \div 2 \in Int
    OBVIOUS
  <1>. QED
    BY <1>1, <1>2, <1>3 DEF Indexed

(* An order that is stored as executed has been executed.                  *)
LEMMA ExecutionIs ==
  ASSUME NEW known, NEW executions, NEW orders, NEW id \in DOMAIN orders,
         BookOf(known, executions), StoreOf(orders, known), orders[id].status = "filled",
         NEW e, e = orders[id].exchangeID
  PROVE  /\ Place(executions, e) \in DOMAIN executions
         /\ executions[Place(executions, e)] = e
         /\ Place(executions, e) \in Nat /\ Place(executions, e) - 1 \in Nat
  <1>1. e \in DOMAIN known /\ known[e].status = "filled"
    <2>1. e \in DOMAIN known /\ Same(orders[id], known[e])
      BY DEF StoreOf
    <2>2. known[e] \in Order
      BY <2>1 DEF BookOf, AllOrders
    <2>. QED
      BY <2>1, <2>2, SameIs
  <1>2. PICK i \in DOMAIN executions : executions[i] = e
    BY <1>1 DEF BookOf
  <1>3. Place(executions, e) = i
    BY <1>2, PlaceIs DEF BookOf
  <1>4. i \in Nat /\ i - 1 \in Nat
    BY DEF BookOf
  <1>. QED
    BY <1>2, <1>3, <1>4

(* The places of a pair's executions among the first ones.                 *)
Places(known, executions, pair, n) == {i \in 1..n : known[executions[i]].pair = pair}

(* The earlier orders of the code are the pair's executions before that of *)
(* the order, and the storage answers them in the order of execution.      *)
LEMMA EarlierAre ==
  ASSUME NEW known, NEW executions, NEW orders, NEW id \in DOMAIN orders, NEW n,
         BookOf(known, executions), StoreOf(orders, known), orders[id].status = "filled",
         Regular(known, executions, orders, orders[id].exchangeID),
         n = Place(executions, orders[id].exchangeID) - 1
  PROVE  LET P == Places(known, executions, orders[id].pair, n)
         IN  /\ n \in Nat /\ n + 1 \in DOMAIN executions
             /\ executions[n + 1] = orders[id].exchangeID
             /\ \E K : /\ Lists(orders, EarlierIDs(orders, id), n, P, K)
                      /\ \A i \in P : Same(orders[K[i]], known[executions[i]])
  <1> DEFINE P == Places(known, executions, orders[id].pair, n)
             e == orders[id].exchangeID
             q == Place(executions, e)
             S == EarlierIDs(orders, id)
             time(i) == known[executions[i]].updated
             mine == {i \in DOMAIN executions : known[executions[i]].pair = known[e].pair}
             upTo == {i \in mine : i <= q}
             Key(i) == CHOOSE a \in DOMAIN orders : orders[a].exchangeID = executions[i]
  <1>0. /\ e \in DOMAIN known /\ Same(orders[id], known[e]) /\ known[e] \in Order
        /\ known[e].status = "filled" /\ known[e].pair = orders[id].pair
        /\ known[e].updated = orders[id].updated
    <2>1. e \in DOMAIN known /\ Same(orders[id], known[e])
      BY DEF StoreOf
    <2>2. known[e] \in Order
      BY <2>1 DEF BookOf, AllOrders
    <2>. QED
      BY <2>1, <2>2, SameIs
  <1>1. q \in DOMAIN executions /\ executions[q] = e
    <2>1. PICK i \in DOMAIN executions : executions[i] = e
      BY <1>0 DEF BookOf
    <2>2. q = i
      BY <2>1, PlaceIs DEF BookOf
    <2>. QED
      BY <2>1, <2>2
  <1>2. DOMAIN executions = 1..Len(executions) /\ Len(executions) \in Nat
    BY DEF BookOf
  <1>3. n = q - 1 /\ n \in Nat /\ q \in Nat /\ q \in mine
    BY <1>1, <1>2
  <1>4. P = {i \in mine : i < q}
    <2>1. \A i : i \in 1..n <=> i \in DOMAIN executions /\ i < q
      BY <1>1, <1>2, <1>3
    <2>2. P = {i \in 1..n : known[executions[i]].pair = known[e].pair}
      BY <1>0 DEF Places
    <2>. QED
      BY <2>1, <2>2
  <1>5. /\ \A i \in upTo : \E a \in DOMAIN orders :
             orders[a].exchangeID = executions[i] /\ orders[a].status = "filled"
        /\ \A i, j \in mine : i < j => time(i) \div 2 < time(j) \div 2
        /\ kind = "sql" => \A i, j \in upTo : i < j => Key(i) < Key(j)
    BY DEF Regular
  <1>6. \A i \in DOMAIN executions : time(i) \in Nat /\ known[executions[i]] \in Order
    BY <1>2 DEF BookOf, AllOrders, Order
  <1>7. \A i \in mine : i \in Nat /\ i \in DOMAIN executions
    BY <1>2
  <1>8. P \subseteq upTo
    BY <1>3, <1>4, <1>7
  <1>9. time(q) = orders[id].updated
    BY <1>0, <1>1
  <1> HIDE DEF mine
  <1>10. ASSUME NEW i \in P
         PROVE  /\ Key(i) \in DOMAIN orders /\ orders[Key(i)].exchangeID = executions[i]
                /\ Same(orders[Key(i)], known[executions[i]])
                /\ orders[Key(i)].updated = time(i) /\ Key(i) \in S
    <2>1. PICK a \in DOMAIN orders :
            orders[a].exchangeID = executions[i] /\ orders[a].status = "filled"
      BY <1>5, <1>8
    <2>2. Key(i) = a
      BY <2>1 DEF StoreOf
    <2>3. Same(orders[a], known[executions[i]])
      BY <2>1 DEF StoreOf
    <2>4. i \in mine /\ i < q /\ known[executions[i]] \in Order
      BY <1>4, <1>6, <1>7
    <2>5. orders[a].pair = orders[id].pair /\ orders[a].updated = time(i)
      BY <1>0, <2>3, <2>4, SameIs DEF mine
    <2>6. time(i) < time(q)
      BY <1>3, <1>5, <1>6, <1>7, <2>4, IndexedGrows
    <2>7. time(i) \in Nat /\ time(q) \in Nat
      BY <1>1, <1>6, <1>7, <2>4
    <2>8. a # id
      BY <1>1, <1>7, <2>1, <2>4 DEF BookOf
    <2>9. a \in S
      <3>1. orders[a].updated <= orders[id].updated
        BY <1>9, <2>5, <2>6, <2>7
      <3>. QED
        BY <2>1, <2>5, <2>8, <3>1 DEF EarlierIDs
    <2>. QED
      BY <2>1, <2>2, <2>3, <2>5, <2>9
  <1>11. ASSUME NEW a \in S PROVE \E i \in P : Key(i) = a
    <2>1. /\ a \in DOMAIN orders /\ orders[a].updated <= orders[id].updated
          /\ orders[a].status = "filled" /\ orders[a].pair = orders[id].pair /\ a # id
      BY DEF EarlierIDs
    <2> DEFINE x == orders[a].exchangeID
    <2>2. x \in DOMAIN known /\ Same(orders[a], known[x]) /\ known[x] \in Order
      BY <2>1 DEF StoreOf, BookOf, AllOrders
    <2>3. /\ known[x].status = "filled" /\ known[x].pair = known[e].pair
          /\ known[x].updated = orders[a].updated
      BY <1>0, <2>1, <2>2, SameIs
    <2>4. PICK i \in DOMAIN executions : executions[i] = x
      BY <2>2, <2>3 DEF BookOf
    <2>5. i \in mine /\ i \in Nat
      BY <1>2, <2>3, <2>4 DEF mine
    <2>6. i # q
      BY <1>1, <2>1, <2>4 DEF StoreOf
    <2>7. ~(q < i)
      <3>1. q < i => time(q) < time(i)
        BY <1>1, <1>3, <1>5, <1>6, <2>4, <2>5, IndexedGrows
      <3>2. time(i) <= time(q) /\ time(i) \in Nat /\ time(q) \in Nat
        BY <1>1, <1>6, <1>9, <2>1, <2>3, <2>4
      <3>. QED
        BY <3>1, <3>2
    <2>8. i \in P
      BY <1>3, <1>4, <2>5, <2>6, <2>7
    <2>9. Key(i) = a
      BY <2>1, <2>4 DEF StoreOf
    <2>. QED
      BY <2>8, <2>9
  <1>12. ASSUME NEW i \in P, NEW j \in P, i < j
         PROVE  Before(orders, Key(i), Key(j)) /\ ~Before(orders, Key(j), Key(i))
    <2>1. i \in mine /\ j \in mine /\ i \in upTo /\ j \in upTo
      BY <1>4, <1>8
    <2>2. time(i) \in Nat /\ time(j) \in Nat /\ time(i) \div 2 < time(j) \div 2
      BY <1>5, <1>6, <1>7, <1>12, <2>1
    <2>3. /\ Indexed(time(i)) < Indexed(time(j)) /\ time(i) < time(j)
          /\ Indexed(time(i)) \in Int /\ Indexed(time(j)) \in Int
      <3>1. Indexed(time(i)) < Indexed(time(j)) /\ time(i) < time(j)
        BY <2>2, IndexedGrows
      <3>2. \A t \in Nat : Indexed(t) \in Int
        BY DEF Indexed
      <3>. QED
        BY <2>2, <3>1, <3>2
    <2>4. orders[Key(i)].updated = time(i) /\ orders[Key(j)].updated = time(j)
      BY <1>10
    <2>5. CASE kind = "sql"
      <3>1. Key(i) < Key(j)
        BY <1>5, <1>12, <2>1, <2>5
      <3>2. Key(i) \in Nat /\ Key(j) \in Nat
        BY <1>10 DEF StoreOf
      <3> HIDE DEF Key
      <3>. QED
        BY <2>5, <3>1, <3>2 DEF Before
    <2>6. CASE kind # "sql"
      <3> HIDE DEF Key, time
      <3>1. time(i) # time(j)
        BY <2>2, <2>3 DEF time
      <3>. QED
        BY <2>3, <2>4, <2>6, <3>1 DEF Before
    <2>. QED
      BY <2>5, <2>6
  <1>13. ASSUME NEW i \in P PROVE ~Before(orders, Key(i), Key(i))
    <2>1. Key(i) \in Nat
      BY <1>10 DEF StoreOf
    <2> HIDE DEF Key
    <2>. QED
      BY <2>1 DEF Before
  <1> DEFINE K == [i \in P |-> Key(i)]
  <1>14. K \in [P -> S]
    BY <1>10
  <1>15. \A a \in S : \E i \in P : K[i] = a
    BY <1>11
  <1>16. ASSUME NEW i \in P, NEW j \in P PROVE Before(orders, K[i], K[j]) <=> i < j
    <2>1. i \in Nat /\ j \in Nat
      BY <1>4, <1>7
    <2>2. K[i] = Key(i) /\ K[j] = Key(j)
      OBVIOUS
    <2> HIDE DEF K, Key
    <2>. QED
      BY <1>12, <1>13, <2>1, <2>2
  <1>17. \A i \in P : Same(orders[K[i]], known[executions[i]])
    BY <1>10
  <1>18. n + 1 = q
    BY <1>3
  <1>19. P \in SUBSET (1..n)
    BY DEF Places
  <1> HIDE DEF K, S, P
  <1>20. Lists(orders, S, n, P, K)
    BY <1>3, <1>14, <1>15, <1>16, <1>19 DEF Lists
  <1>. QED
    BY <1>1, <1>3, <1>17, <1>18, <1>20 DEF S, P

(* The sums over the earlier orders stand for the position before the      *)
(* order's execution.                                                      *)
LEMMA SumsAgree ==
  ASSUME NEW known, NEW executions, NEW orders, NEW id \in DOMAIN orders, NEW n,
         BookOf(known, executions), StoreOf(orders, known), orders[id].status = "filled",
         Regular(known, executions, orders, orders[id].exchangeID),
         n = Place(executions, orders[id].exchangeID) - 1,
         NEW held, held = Held(known, executions, orders[id].pair),
         \A i \in 0..n : WholeAverage(held[i]),
         \A i \in EarlierIDs(orders, id) : PriceOf(orders[i]) # NoStop
  PROVE  Summed(orders, id) \in Sum /\ Agree(Summed(orders, id), held[n])
  <1> DEFINE P == Places(known, executions, orders[id].pair, n)
             S == EarlierIDs(orders, id)
             earlier == Orders(orders, S)
  <1>0. /\ n \in Nat /\ n + 1 \in DOMAIN executions
        /\ \E K : /\ Lists(orders, S, n, P, K)
                 /\ \A i \in P : Same(orders[K[i]], known[executions[i]])
    BY EarlierAre
  <1>1. PICK K : /\ Lists(orders, S, n, P, K)
                 /\ \A i \in P : Same(orders[K[i]], known[executions[i]])
    BY <1>0
  <1>2. n \in Nat /\ n + 1 \in DOMAIN executions /\ K \in [P -> S]
    BY <1>0, <1>1 DEF Lists
  <1>3. /\ executions \in Seq(DOMAIN known) /\ AllOrders(known)
        /\ \A i \in 1..n : i \in 1..Len(executions) /\ known[executions[i]] \in Order
    <2>1. executions \in Seq(DOMAIN known) /\ AllOrders(known)
      BY DEF BookOf
    <2>2. \A i \in 1..n : i \in DOMAIN executions
      BY <1>2, <2>1
    <2>. QED
      BY <2>1, <2>2 DEF AllOrders
  <1>4. \A a \in S : a \in DOMAIN orders /\ orders[a] \in Order /\ PriceOf(orders[a]) # NoStop
    BY DEF EarlierIDs, StoreOf
  <1>5. P \in SUBSET (1..n)
    BY DEF Places
  <1> HIDE DEF P, S
  <1>6. /\ Len(earlier) = UpTo(P, n)
        /\ \A i \in P : UpTo(P, i) \in 1..UpTo(P, n) /\ earlier[UpTo(P, i)] = K[i]
        /\ \A r \in 1..UpTo(P, n) : earlier[r] \in S
    BY <1>1, OrdersAre
  <1>7. /\ UpTo(P, 0) = 0 /\ \A j \in 0..n : UpTo(P, j) \in Nat
        /\ \A j \in 1..n : UpTo(P, j) = IF j \in P THEN UpTo(P, j - 1) + 1 ELSE UpTo(P, j - 1)
        /\ \A j, k \in 0..n : j <= k => UpTo(P, j) <= UpTo(P, k)
    BY <1>2, <1>5, UpToIs
  <1> HIDE DEF earlier
  <1>8. Len(earlier) \in Nat /\ \A i \in 1..Len(earlier) : orders[earlier[i]] \in Order
    <2>1. n \in 0..n
      BY <1>2
    <2>. QED
      BY <1>4, <1>6, <1>7, <2>1
  <1>9. PICK f : IsSum(f, orders, earlier) /\ Summed(orders, id) = f[Len(earlier)]
    BY <1>8, SummedIs DEF earlier, S
  <1>10. /\ f \in [0..UpTo(P, n) -> Sum] /\ f[0] = NoSum
         /\ \A i \in 1..UpTo(P, n) : f[i] = Accumulate(f[i - 1], orders[earlier[i]])
         /\ Summed(orders, id) = f[UpTo(P, n)]
    BY <1>6, <1>9 DEF IsSum
  <1>11. /\ held \in [0..Len(executions) -> Position] /\ held[0] = Nothing
         /\ \A i \in 1..Len(executions) :
              held[i] = IF known[executions[i]].pair = orders[id].pair
                        THEN Trade(held[i - 1], known[executions[i]]) ELSE held[i - 1]
    BY <1>3, HeldIs
  <1> DEFINE T == {j \in Nat : j <= n => Agree(f[UpTo(P, j)], held[j])}
  <1>12. 0 \in T
    BY <1>7, <1>10, <1>11 DEF Agree, NoSum, Nothing
  <1>13. ASSUME NEW j \in Nat, j \in T PROVE j + 1 \in T
    <2> SUFFICES ASSUME j + 1 <= n PROVE Agree(f[UpTo(P, j + 1)], held[j + 1])
      OBVIOUS
    <2>1. /\ j + 1 \in 1..n /\ j \in 0..n /\ (j + 1) - 1 = j /\ j + 1 \in 0..n
          /\ n \in 0..n /\ j <= n
      BY <1>2
    <2>2. Agree(f[UpTo(P, j)], held[j])
      BY <1>13, <2>1
    <2>3. /\ held[j + 1] = IF known[executions[j + 1]].pair = orders[id].pair
                           THEN Trade(held[j], known[executions[j + 1]]) ELSE held[j]
          /\ known[executions[j + 1]] \in Order /\ held[j] \in Position
      <3>1. j + 1 \in 1..Len(executions) /\ known[executions[j + 1]] \in Order
        BY <1>3, <2>1
      <3>2. j \in 0..Len(executions)
        BY <2>1, <3>1
      <3>. QED
        BY <1>11, <2>1, <3>1, <3>2
    <2>4. j + 1 \in P <=> known[executions[j + 1]].pair = orders[id].pair
      BY <2>1 DEF P, Places
    <2>5. CASE j + 1 \in P
      <3> DEFINE u == UpTo(P, j)
                 o == orders[K[j + 1]]
                 k == known[executions[j + 1]]
      <3>1. u \in Nat /\ UpTo(P, j + 1) = u + 1 /\ u + 1 \in 1..UpTo(P, n)
            /\ UpTo(P, n) \in Nat
        BY <1>6, <1>7, <2>1, <2>5
      <3>2. earlier[u + 1] = K[j + 1]
        BY <1>6, <2>5, <3>1
      <3>3. f[u + 1] = Accumulate(f[u], o) /\ f[u] \in Sum
        <4>1. u \in 0..UpTo(P, n) /\ (u + 1) - 1 = u
          BY <3>1
        <4>2. f[u + 1] = Accumulate(f[(u + 1) - 1], orders[earlier[u + 1]])
          BY <1>10, <3>1
        <4>. QED
          BY <1>10, <3>2, <4>1, <4>2
      <3>4. o \in Order /\ PriceOf(o) # NoStop /\ Same(o, k) /\ k \in Order
        <4>1. K[j + 1] \in S
          BY <1>2, <2>5
        <4>. QED
          BY <1>1, <1>4, <2>3, <2>5, <4>1
      <3>5. k.side = o.side /\ k.quantity = o.quantity /\ PriceOf(k) = PriceOf(o)
        BY <3>4, SameIs
      <3>6. held[j + 1] = Trade(held[j], k) /\ WholeAverage(Trade(held[j], k))
        BY <2>1, <2>3, <2>4, <2>5
      <3> HIDE DEF u, o, k
      <3>7. Agree(Accumulate(f[u], o), Trade(held[j], k))
        <4>1. Agree(f[u], held[j]) /\ held[j] \in Position
          BY <2>2, <2>3 DEF u
        <4>. QED
          BY <3>3, <3>4, <3>5, <3>6, <4>1, TradeAgrees
      <3>. QED
        BY <3>1, <3>3, <3>6, <3>7
    <2>6. CASE j + 1 \notin P
      <3>1. UpTo(P, j + 1) = UpTo(P, j)
        BY <1>7, <2>1, <2>6
      <3>. QED
        BY <2>2, <2>3, <2>4, <2>6, <3>1
    <2>. QED
      BY <2>5, <2>6
  <1> HIDE DEF T
  <1>14. n \in T
    BY <1>2, <1>12, <1>13, EveryNatural
  <1>15. Agree(f[UpTo(P, n)], held[n])
    BY <1>2, <1>14 DEF T
  <1>16. f[UpTo(P, n)] \in Sum
    <2>1. UpTo(P, n) \in Nat /\ UpTo(P, n) \in 0..UpTo(P, n)
      BY <1>2, <1>7
    <2>. QED
      BY <1>10, <2>1
  <1>. QED
    BY <1>10, <1>15, <1>16

(* The profit of an order, computed when what it needs is stored, is what  *)
(* its execution gained.                                                   *)
LEMMA ProfitIs ==
  ASSUME NEW known, NEW executions, NEW orders, NEW id \in DOMAIN orders, NEW e,
         BookOf(known, executions), StoreOf(orders, known),
         orders[id].status = "filled", e = orders[id].exchangeID,
         Regular(known, executions, orders, e), ~Panics(orders, id),
         ~Held(known, executions, known[e].pair)[Place(executions, e)].reversed,
         \A i \in 0..(Place(executions, e) - 1) :
           WholeAverage(Held(known, executions, known[e].pair)[i])
  PROVE  calculateProfit(orders, id) = Gain(known, executions, e)
  <1> DEFINE n == Place(executions, e) - 1
             held == Held(known, executions, known[e].pair)
             before == held[n]
             sum == Summed(orders, id)
             o == orders[id]
             k == known[e]
  <1>1. k \in Order /\ Same(o, k) /\ o \in Order /\ k.pair = o.pair /\ k.side = o.side
        /\ k.quantity = o.quantity /\ (PriceOf(o) # NoStop => PriceOf(o) = PriceOf(k))
    <2>1. k \in Order /\ Same(o, k)
      BY DEF StoreOf, BookOf, AllOrders
    <2>. QED
      BY <2>1, SameIs
  <1>2. /\ n \in Nat /\ n + 1 \in DOMAIN executions /\ executions[n + 1] = e
        /\ Place(executions, e) = n + 1
    <2>1. /\ n \in Nat /\ Place(executions, e) \in DOMAIN executions
          /\ executions[Place(executions, e)] = e /\ Place(executions, e) \in Nat
      BY ExecutionIs
    <2>. QED
      BY <2>1
  <1>3. sum \in Sum /\ Agree(sum, before)
    <2>1. \A i \in EarlierIDs(orders, id) : PriceOf(orders[i]) # NoStop
      BY DEF Panics
    <2>2. held = Held(known, executions, o.pair)
      BY <1>1
    <2> HIDE DEF held
    <2>3. \A i \in 0..n : WholeAverage(held[i])
      BY DEF held
    <2>. QED
      BY <2>1, <2>2, <2>3, SumsAgree
  <1>4. before \in Position /\ held[n + 1] = Trade(before, k)
    <2>1. executions \in Seq(DOMAIN known) /\ AllOrders(known)
      BY DEF BookOf
    <2>2. /\ held \in [0..Len(executions) -> Position]
          /\ \A i \in 1..Len(executions) :
               held[i] = IF known[executions[i]].pair = k.pair
                         THEN Trade(held[i - 1], known[executions[i]]) ELSE held[i - 1]
      BY <2>1, HeldIs
    <2> HIDE DEF held
    <2>3. n + 1 \in 1..Len(executions) /\ n \in 0..Len(executions) /\ (n + 1) - 1 = n
      BY <1>2, <2>1
    <2>4. held[n + 1] = IF known[executions[n + 1]].pair = k.pair
                        THEN Trade(held[(n + 1) - 1], known[executions[n + 1]])
                        ELSE held[(n + 1) - 1]
      BY <2>2, <2>3
    <2>. QED
      BY <1>2, <2>2, <2>3, <2>4
  <1>5. ~before.reversed
    <2>1. ~held[n + 1].reversed
      BY <1>2
    <2> HIDE DEF before, held
    <2>2. before.reversed => Trade(before, k).reversed
      BY <1>4 DEF Trade, Position
    <2>. QED
      BY <1>4, <2>1, <2>2
  <1> DEFINE Q == before.quantity
             C == before.cost
             m == k.quantity
  <1>6. /\ Q \in Int /\ C \in Int /\ m \in Nat \ {0} /\ sum.long \in Int /\ sum.short \in Int
        /\ PriceOf(k) \in Int /\ PriceOf(o) \in Int
    BY <1>1, <1>3, <1>4, SignedType DEF Position, Sum
  <1>7. /\ sum.quantity = Q /\ (Q > 0 => C = sum.long * Q)
        /\ (Q < 0 => C = sum.short * (-Q)) /\ (Q = 0 => C = 0)
    BY <1>3, <1>5 DEF Agree
  <1>8. Signed(k) = Signed(o) /\ Signed(k) \in Int
    BY <1>1, SignedType DEF Signed
  <1>9. Closes(o, sum) <=> Q * Signed(k) < 0
    BY <1>7, <1>8 DEF Closes
  <1>10. Q * Signed(k) \in Int
    BY <1>6, <1>8
  <1>11. calculateProfit(orders, id) =
           IF ~Closes(o, sum) THEN 0
           ELSE IF o.side = "buy" THEN (sum.short - PriceOf(o)) * o.quantity
           ELSE (PriceOf(o) - sum.long) * o.quantity
    BY DEF calculateProfit
  <1>12. Gain(known, executions, e) =
           IF Q * Signed(k) >= 0 THEN 0
           ELSE IF k.side = "sell" THEN PriceOf(k) * m - (C \div Abs(Q)) * m
           ELSE (C \div Abs(Q)) * m - PriceOf(k) * m
    BY <1>2 DEF Gain
  <1> HIDE DEF before, held, sum
  <1>13. CASE ~Closes(o, sum)
    BY <1>9, <1>10, <1>11, <1>12, <1>13
  <1>14. CASE Closes(o, sum)
    <2>1. PriceOf(o) = PriceOf(k)
      BY <1>1, <1>14 DEF Panics, sum
    <2>2. Q * Signed(k) < 0
      BY <1>9, <1>14
    <2>3. CASE k.side = "sell"
      <3>1. Q > 0
        BY <1>6, <2>2, <2>3, SignOf DEF Signed
      <3>2. Abs(Q) = Q /\ Q \in Nat \ {0}
        BY <1>6, <3>1 DEF Abs
      <3>3. C \div Abs(Q) = sum.long
        <4>1. (sum.long * Q) \div Q = sum.long
          BY <1>6, <3>2, PartIs
        <4>. QED
          BY <1>7, <3>1, <3>2, <4>1
      <3>4. Gain(known, executions, e) = PriceOf(k) * m - sum.long * m
        BY <1>10, <1>12, <2>2, <2>3, <3>3
      <3>5. calculateProfit(orders, id) = (PriceOf(k) - sum.long) * m
        BY <1>1, <1>11, <1>14, <2>1, <2>3
      <3>6. (PriceOf(k) - sum.long) * m = PriceOf(k) * m - sum.long * m
        BY <1>6
      <3>. QED
        BY <3>4, <3>5, <3>6
    <2>4. CASE k.side # "sell"
      <3>0. k.side = "buy"
        BY <1>1, <2>4 DEF Order
      <3>1. Q < 0
        BY <1>6, <2>2, <3>0, SignOf DEF Signed
      <3>2. Abs(Q) = -Q /\ -Q \in Nat \ {0}
        BY <1>6, <3>1 DEF Abs
      <3>3. C \div Abs(Q) = sum.short
        <4>1. (sum.short * (-Q)) \div (-Q) = sum.short
          BY <1>6, <3>2, PartIs
        <4>. QED
          BY <1>7, <3>1, <3>2, <4>1
      <3>4. Gain(known, executions, e) = sum.short * m - PriceOf(k) * m
        BY <1>10, <1>12, <2>2, <2>4, <3>3
      <3>5. calculateProfit(orders, id) = (sum.short - PriceOf(k)) * m
        BY <1>1, <1>11, <1>14, <2>1, <3>0
      <3>6. (sum.short - PriceOf(k)) * m = sum.short * m - PriceOf(k) * m
        BY <1>6
      <3>. QED
        BY <3>4, <3>5, <3>6
    <2>. QED
      BY <2>3, <2>4
  <1>. QED
    BY <1>13, <1>14

-----------------------------------------------------------------------------
(* What has been compared stays so, and each step compares what it adds.   *)

(* A profit can be compared when no order reversed the position, and the   *)
(* average costs before it were whole.                                     *)
Comparable(known, executions, e) ==
  LET held == Held(known, executions, known[e].pair)
  IN  /\ ~held[Place(executions, e)].reversed
      /\ \A i \in 0..(Place(executions, e) - 1) : WholeAverage(held[i])

BookedOf(profits, known, executions) ==
  \A e \in DOMAIN profits :
    /\ \E i \in DOMAIN executions : executions[i] = e
    /\ profits[e].regular /\ Comparable(known, executions, e)
         => profits[e].profit = Gain(known, executions, e)

(* The exchange goes on, and what it executed stays.                       *)
Grows(known, executions, more, longer) ==
  /\ Len(executions) <= Len(longer)
  /\ \A i \in 1..Len(executions) :
       longer[i] = executions[i] /\ more[executions[i]] = known[executions[i]]

LEMMA HeldStays ==
  ASSUME NEW known, NEW executions, NEW more, NEW longer, BookOf(known, executions),
         BookOf(more, longer), Grows(known, executions, more, longer), NEW pair,
         NEW j \in 0..Len(executions)
  PROVE  Held(more, longer, pair)[j] = Held(known, executions, pair)[j]
  <1> DEFINE n == Len(executions)
             f == Held(known, executions, pair)
             g == Held(more, longer, pair)
             P == {i \in Nat : i <= n => g[i] = f[i]}
  <1>1. /\ AllOrders(known) /\ executions \in Seq(DOMAIN known) /\ n \in Nat
        /\ AllOrders(more) /\ longer \in Seq(DOMAIN more) /\ Len(longer) \in Nat
    BY DEF BookOf
  <1>2. /\ f[0] = Nothing
        /\ \A i \in 1..n :
             f[i] = IF known[executions[i]].pair = pair
                    THEN Trade(f[i - 1], known[executions[i]]) ELSE f[i - 1]
    BY <1>1, HeldIs
  <1>3. /\ g[0] = Nothing
        /\ \A i \in 1..Len(longer) :
             g[i] = IF more[longer[i]].pair = pair
                    THEN Trade(g[i - 1], more[longer[i]]) ELSE g[i - 1]
    BY <1>1, HeldIs
  <1> HIDE DEF f, g
  <1>4. 0 \in P
    BY <1>2, <1>3
  <1>5. ASSUME NEW i \in Nat, i \in P PROVE i + 1 \in P
    <2> SUFFICES ASSUME i + 1 <= n PROVE g[i + 1] = f[i + 1]
      OBVIOUS
    <2>1. /\ i + 1 \in 1..n /\ i + 1 \in 1..Len(longer) /\ (i + 1) - 1 = i /\ g[i] = f[i]
      BY <1>1, <1>5 DEF Grows
    <2>2. longer[i + 1] = executions[i + 1]
          /\ more[executions[i + 1]] = known[executions[i + 1]]
      BY <2>1 DEF Grows
    <2>3. /\ f[i + 1] = IF known[executions[i + 1]].pair = pair
                        THEN Trade(f[i], known[executions[i + 1]]) ELSE f[i]
          /\ g[i + 1] = IF more[longer[i + 1]].pair = pair
                        THEN Trade(g[i], more[longer[i + 1]]) ELSE g[i]
      BY <1>2, <1>3, <2>1
    <2>. QED
      BY <2>1, <2>2, <2>3
  <1> HIDE DEF P
  <1>6. j \in P
    BY <1>1, <1>4, <1>5, EveryNatural
  <1>. QED
    BY <1>1, <1>6 DEF P, f, g

LEMMA BookedStays ==
  ASSUME NEW known, NEW executions, NEW more, NEW longer, BookOf(known, executions),
         BookOf(more, longer), Grows(known, executions, more, longer), NEW profits,
         BookedOf(profits, known, executions)
  PROVE  BookedOf(profits, more, longer)
  <1> SUFFICES ASSUME NEW e \in DOMAIN profits
               PROVE  /\ \E i \in DOMAIN longer : longer[i] = e
                      /\ profits[e].regular /\ Comparable(more, longer, e)
                           => profits[e].profit = Gain(more, longer, e)
    BY DEF BookedOf
  <1>1. PICK i \in DOMAIN executions : executions[i] = e
    BY DEF BookedOf
  <1>2. /\ DOMAIN executions = 1..Len(executions) /\ DOMAIN longer = 1..Len(longer)
        /\ Len(executions) \in Nat /\ Len(longer) \in Nat
    BY DEF BookOf
  <1>3. i \in DOMAIN longer /\ longer[i] = e /\ more[e] = known[e] /\ i \in Nat
    BY <1>1, <1>2 DEF Grows
  <1>4. Place(executions, e) = i /\ Place(longer, e) = i
    BY <1>1, <1>3, PlaceIs DEF BookOf
  <1>5. \A j \in 0..i :
          Held(more, longer, known[e].pair)[j] = Held(known, executions, known[e].pair)[j]
    <2>1. \A j \in 0..i : j \in 0..Len(executions)
      BY <1>1, <1>2
    <2>. QED
      BY <2>1, HeldStays
  <1>6. i - 1 \in 0..i /\ i \in 0..i /\ \A j \in 0..(i - 1) : j \in 0..i
    BY <1>1, <1>2
  <1>7. Comparable(more, longer, e) <=> Comparable(known, executions, e)
    BY <1>3, <1>4, <1>5, <1>6 DEF Comparable
  <1>8. Gain(more, longer, e) = Gain(known, executions, e)
    BY <1>3, <1>4, <1>5, <1>6 DEF Gain
  <1>. QED
    BY <1>3, <1>7, <1>8 DEF BookedOf

(* What the exchange executes, it executes after the rest.                 *)
LEMMA BookGrows ==
  ASSUME BookOf(book, ledger), NEW e, NEW o \in Order, o.exchangeID = e,
         NEW known, known = With(book, e, o),
         e \in DOMAIN book => book[e].status = "new",
         NEW executions,
         executions = IF o.status = "filled" THEN Append(ledger, e) ELSE ledger
  PROVE  BookOf(known, executions) /\ Grows(book, ledger, known, executions)
  <1>1. /\ DOMAIN known = DOMAIN book \cup {e} /\ known[e] = o
        /\ \A f \in DOMAIN book : f # e => known[f] = book[f]
    BY DEF With
  <1>2. AllOrders(known) /\ \A f \in DOMAIN known : known[f].exchangeID = f
    BY <1>1 DEF BookOf, AllOrders
  <1>3. ledger \in Seq(DOMAIN book) /\ Len(ledger) \in Nat /\ DOMAIN ledger = 1..Len(ledger)
    BY DEF BookOf
  <1>4. \A i \in DOMAIN ledger : ledger[i] \in DOMAIN book /\ book[ledger[i]].status = "filled"
    BY <1>3 DEF BookOf
  <1>5. \A i \in DOMAIN ledger : ledger[i] # e
    BY <1>4
  <1>6. ledger \in Seq(DOMAIN known)
    BY <1>1, <1>3
  <1>7. CASE o.status = "filled"
    <2>1. /\ executions \in Seq(DOMAIN known) /\ Len(executions) = Len(ledger) + 1
          /\ DOMAIN executions = 1..(Len(ledger) + 1)
          /\ \A i \in 1..Len(ledger) : executions[i] = ledger[i]
          /\ executions[Len(ledger) + 1] = e
      BY <1>1, <1>3, <1>6, <1>7
    <2>2. \A i \in DOMAIN executions : i \in DOMAIN ledger \/ i = Len(ledger) + 1
      BY <1>3, <2>1
    <2>3. \A i, j \in DOMAIN executions : executions[i] = executions[j] => i = j
      BY <1>3, <1>5, <2>1, <2>2 DEF BookOf
    <2>4. ASSUME NEW f \in DOMAIN known
          PROVE  known[f].status = "filled" <=> \E i \in DOMAIN executions : executions[i] = f
      <3>1. CASE f = e
        <4>1. Len(ledger) + 1 \in DOMAIN executions
          BY <1>3, <2>1
        <4>. QED
          BY <1>1, <1>7, <2>1, <3>1, <4>1
      <3>2. CASE f # e
        <4>1. f \in DOMAIN book /\ known[f] = book[f]
          BY <1>1, <3>2
        <4>2. book[f].status = "filled" <=> \E i \in DOMAIN ledger : ledger[i] = f
          BY <4>1 DEF BookOf
        <4>3. \A i \in DOMAIN ledger : i \in DOMAIN executions /\ executions[i] = ledger[i]
          BY <1>3, <2>1
        <4>. QED
          BY <2>1, <2>2, <3>2, <4>1, <4>2, <4>3
      <3>. QED
        BY <3>1, <3>2
    <2>5. BookOf(known, executions)
      BY <1>2, <2>1, <2>3, <2>4 DEF BookOf
    <2>6. Grows(book, ledger, known, executions)
      <3>1. ASSUME NEW i \in 1..Len(ledger)
            PROVE  executions[i] = ledger[i] /\ known[ledger[i]] = book[ledger[i]]
        BY <1>1, <1>3, <1>4, <1>5, <2>1
      <3>2. Len(ledger) <= Len(executions)
        BY <1>3, <2>1
      <3>. QED
        BY <3>1, <3>2 DEF Grows
    <2>. QED
      BY <2>5, <2>6
  <1>8. CASE o.status # "filled"
    <2>1. executions = ledger
      BY <1>8
    <2>2. ASSUME NEW f \in DOMAIN known
          PROVE  known[f].status = "filled" <=> \E i \in DOMAIN ledger : ledger[i] = f
      BY <1>1, <1>5, <1>8 DEF BookOf
    <2>3. BookOf(known, executions)
      BY <1>2, <1>6, <2>1, <2>2 DEF BookOf
    <2>4. Grows(book, ledger, known, executions)
      <3>1. ASSUME NEW i \in 1..Len(ledger)
            PROVE  executions[i] = ledger[i] /\ known[ledger[i]] = book[ledger[i]]
        BY <1>1, <1>3, <1>4, <1>5, <2>1
      <3>2. Len(ledger) <= Len(executions)
        <4>1. Len(executions) = Len(ledger)
          BY <2>1
        <4>2. Len(ledger) <= Len(ledger)
          BY <1>3
        <4>. QED
          BY <4>1, <4>2
      <3>. QED
        BY <3>1, <3>2 DEF Grows
    <2>. QED
      BY <2>3, <2>4
  <1>. QED
    BY <1>7, <1>8

(* Each profit that Process computes is what the execution gained.         *)
LEMMA ProcessBooked ==
  ASSUME NEW known, NEW executions, NEW orders, NEW ids \in SUBSET DOMAIN orders,
         BookOf(known, executions), StoreOf(orders, known), book' = known,
         BookedOf(booked, known, executions), Process(orders, ids, executions),
         NEW profits, profits = booked'
  PROVE  BookedOf(profits, known, executions)
  <1> DEFINE filled == {i \in ids : orders[i].status = "filled"}
             done == {orders[i].exchangeID : i \in filled}
             Key(e) == CHOOSE i \in filled : orders[i].exchangeID = e
  <1>1. CASE \E i \in filled : Panics(orders, i)
    <2>1. profits = booked
      BY <1>1 DEF Process, results
    <2>. QED
      BY <2>1
  <1>2. CASE ~\E i \in filled : Panics(orders, i)
    <2>1. profits = [e \in DOMAIN booked \cup done |->
                       IF e \in done THEN [profit |-> calculateProfit(orders, Key(e)),
                                           regular |-> Regular(known, executions, orders, e)]
                       ELSE booked[e]]
      BY <1>2 DEF Process
    <2> SUFFICES ASSUME NEW e \in DOMAIN profits
                 PROVE  /\ \E i \in DOMAIN executions : executions[i] = e
                        /\ profits[e].regular /\ Comparable(known, executions, e)
                             => profits[e].profit = Gain(known, executions, e)
      BY DEF BookedOf
    <2>2. CASE e \in done
      <3>1. PICK id \in filled : orders[id].exchangeID = e
        BY <2>2
      <3>2. id \in DOMAIN orders /\ orders[id].status = "filled" /\ ~Panics(orders, id)
        BY <1>2
      <3>3. Key(e) = id
        BY <3>1 DEF StoreOf
      <3>4. /\ profits[e].profit = calculateProfit(orders, id)
            /\ profits[e].regular = Regular(known, executions, orders, e)
        <4> HIDE DEF filled, done, Key
        <4>1. profits[e] = [profit |-> calculateProfit(orders, Key(e)),
                            regular |-> Regular(known, executions, orders, e)]
          BY <2>1, <2>2
        <4>. QED
          BY <3>3, <4>1
      <3>5. \E i \in DOMAIN executions : executions[i] = e
        BY <3>1, <3>2, ExecutionIs
      <3>6. ASSUME Regular(known, executions, orders, e), Comparable(known, executions, e)
            PROVE  calculateProfit(orders, id) = Gain(known, executions, e)
        <4>1. /\ ~Held(known, executions, known[e].pair)[Place(executions, e)].reversed
              /\ \A i \in 0..(Place(executions, e) - 1) :
                   WholeAverage(Held(known, executions, known[e].pair)[i])
          BY <3>6 DEF Comparable
        <4>2. e = orders[id].exchangeID
          BY <3>1
        <4> HIDE DEF filled, done, Key
        <4>. QED
          BY <3>2, <3>6, <4>1, <4>2, ProfitIs
      <3>. QED
        BY <3>4, <3>5, <3>6
    <2>3. CASE e \notin done
      <3>1. e \in DOMAIN booked /\ profits[e] = booked[e]
        BY <2>1, <2>3
      <3>. QED
        BY <3>1 DEF BookedOf
    <2>. QED
      BY <2>2, <2>3
  <1>. QED
    BY <1>1, <1>2

(* An order that is not pending at the exchange does not change there.     *)
LEMMA StoreStays ==
  ASSUME NEW orders, NEW known, NEW more, StoreOf(orders, known), AllOrders(known),
         \A x \in DOMAIN known :
           x \in DOMAIN more /\ (known[x].status # "new" => more[x] = known[x])
  PROVE  StoreOf(orders, more)
  <1>1. ASSUME NEW a \in DOMAIN orders, orders[a].status # "new"
        PROVE  Same(orders[a], more[orders[a].exchangeID])
    <2> DEFINE x == orders[a].exchangeID
    <2>1. x \in DOMAIN known /\ Same(orders[a], known[x]) /\ known[x] \in Order
      BY <1>1 DEF StoreOf, AllOrders
    <2>2. known[x].status # "new"
      BY <1>1, <2>1, SameIs
    <2>. QED
      BY <2>1, <2>2
  <1>. QED
    BY <1>1 DEF StoreOf

Counted == \E n \in Nat : DOMAIN content = 1..n /\ lastID \in 0..n

LEMMA NewIDIs ==
  ASSUME Counted
  PROVE  /\ NewID \in Nat
         /\ \E n \in Nat : /\ DOMAIN content \cup {NewID} = 1..n
                           /\ (IF kind = "sql" THEN lastID ELSE NewID) \in 0..n
  <1>1. PICK n \in Nat : DOMAIN content = 1..n /\ lastID \in 0..n
    BY DEF Counted
  <1>2. CASE kind = "sql"
    <2>1. n \in 1..n \cup {0} /\ \A y \in 1..n \cup {0} : n >= y
      OBVIOUS
    <2>2. Max(1..n \cup {0}) = n
      BY <2>1 DEF Max
    <2>3. NewID = n + 1
      BY <1>1, <1>2, <2>2 DEF NewID
    <2>4. 1..n \cup {n + 1} = 1..(n + 1) /\ n + 1 \in Nat /\ lastID \in 0..(n + 1)
      BY <1>1
    <2>. QED
      BY <1>1, <1>2, <2>3, <2>4
  <1>3. CASE kind # "sql"
    <2>1. NewID = lastID + 1
      BY <1>3 DEF NewID
    <2>2. CASE lastID = n
      <3>1. 1..n \cup {n + 1} = 1..(n + 1) /\ n + 1 \in Nat /\ n + 1 \in 0..(n + 1)
        OBVIOUS
      <3>. QED
        BY <1>1, <1>3, <2>1, <2>2, <3>1
    <2>3. CASE lastID # n
      <3>1. lastID + 1 \in 1..n /\ lastID + 1 \in 0..n
        BY <1>1, <2>3
      <3>2. 1..n \cup {lastID + 1} = 1..n
        BY <3>1
      <3>. QED
        BY <1>1, <1>3, <2>1, <3>1, <3>2
    <2>. QED
      BY <2>2, <2>3
  <1>. QED
    BY <1>2, <1>3

Traded == setup \in Setups /\ clock \in Nat /\ BookOf(book, ledger)

Profits == Traded /\ StoreOf(content, book) /\ Counted /\ BookedOf(booked, book, ledger)

LEMMA ProfitsCreate ==
  ASSUME Profits, NEW e, NEW o \in Order, o.exchangeID = e, Create(e, o)
  PROVE  Profits'
  <1> DEFINE known == With(book, e, o)
             executions == IF o.status = "filled" THEN Append(ledger, e) ELSE ledger
             orders == With(content, NewID, o)
  <1>1. /\ e \notin DOMAIN book /\ book' = known /\ ledger' = executions
        /\ UNCHANGED <<setup, clock>>
    BY DEF Create
  <1>2. known[e] = o /\ DOMAIN known = DOMAIN book \cup {e}
        /\ \A x \in DOMAIN book : known[x] = book[x]
    BY <1>1 DEF With
  <1>3. /\ content' = orders /\ Process(orders, {NewID}, executions)
        /\ lastID' = (IF kind = "sql" THEN lastID ELSE NewID) /\ kind' = kind
    <2>1. Reports(e, FALSE) = o
      BY <1>1, <1>2 DEF Reports
    <2>. QED
      BY <1>1, <2>1 DEF Create, CreateOrder
  <1>4. BookOf(known, executions) /\ Grows(book, ledger, known, executions)
    <2>1. BookOf(book, ledger)
      BY DEF Profits, Traded
    <2> HIDE DEF known, executions
    <2>2. known = With(book, e, o)
          /\ executions = IF o.status = "filled" THEN Append(ledger, e) ELSE ledger
      BY DEF known, executions
    <2>. QED
      BY <1>1, <2>1, <2>2, BookGrows
  <1>5. NewID \in Nat /\ Counted'
    <2>1. /\ NewID \in Nat
          /\ \E n \in Nat : /\ DOMAIN content \cup {NewID} = 1..n
                            /\ (IF kind = "sql" THEN lastID ELSE NewID) \in 0..n
      BY NewIDIs DEF Profits
    <2>2. DOMAIN content' = DOMAIN content \cup {NewID}
      BY <1>3 DEF With
    <2>. QED
      BY <1>3, <2>1, <2>2 DEF Counted
  <1>6. StoreOf(orders, known)
    <2>1. StoreOf(content, known)
      <3>1. StoreOf(content, book) /\ AllOrders(book)
        BY DEF Profits, Traded, BookOf
      <3> HIDE DEF known
      <3>. QED
        BY <1>2, <3>1, StoreStays
    <2>2. /\ DOMAIN orders = DOMAIN content \cup {NewID} /\ orders[NewID] = o
          /\ \A a \in DOMAIN content : a # NewID => orders[a] = content[a]
      BY DEF With
    <2>3. \A a \in DOMAIN content : content[a].exchangeID # e
      BY <1>1 DEF Profits, StoreOf
    <2>4. Same(o, known[e]) /\ e \in DOMAIN known
      BY <1>2 DEF Same
    <2> HIDE DEF orders, known
    <2>. QED
      BY <1>5, <2>1, <2>2, <2>3, <2>4 DEF StoreOf
  <1>7. NewID \in DOMAIN orders
    BY DEF With
  <1> HIDE DEF known, executions, orders
  <1>8. BookedOf(booked, known, executions)
    BY <1>4, BookedStays DEF Profits, Traded
  <1>9. BookedOf(booked', known, executions)
    <2>1. {NewID} \in SUBSET DOMAIN orders
      BY <1>7
    <2>. QED
      BY <1>1, <1>3, <1>4, <1>6, <1>8, <2>1, ProcessBooked
  <1>. QED
    BY <1>1, <1>3, <1>4, <1>5, <1>6, <1>9 DEF Profits, Traded

LEMMA ProfitsPoll ==
  ASSUME Profits, UpdateOrdersOfPoll
  PROVE  Profits'
  <1> DEFINE changed == {id \in DOMAIN content :
                           /\ content[id].status = "new"
                           /\ book[content[id].exchangeID].status # "new"}
             reported == [id \in changed |-> Reports(content[id].exchangeID, TRUE)]
             orders == [id \in DOMAIN content |-> IF id \in changed THEN reported[id]
                                                  ELSE content[id]]
  <1>1. /\ UpdateOrders(reported) /\ UNCHANGED <<setup, clock, book, ledger>>
        /\ Process(content', changed, ledger)
    BY DEF UpdateOrdersOfPoll, trades
  <1>2. content' = orders /\ UNCHANGED <<kind, lastID>>
    BY <1>1 DEF UpdateOrders
  <1>3. ASSUME NEW a \in DOMAIN content
        PROVE  /\ orders[a] \in Order /\ orders[a].exchangeID = content[a].exchangeID
               /\ a \in changed => Same(orders[a], book[content[a].exchangeID])
               /\ a \notin changed => orders[a] = content[a]
    <2>1. /\ content[a] \in Order /\ content[a].exchangeID \in DOMAIN book
      BY DEF Profits, StoreOf
    <2>2. /\ book[content[a].exchangeID] \in Order
          /\ book[content[a].exchangeID].exchangeID = content[a].exchangeID
      BY <2>1 DEF Profits, Traded, BookOf, AllOrders
    <2>3. CASE a \in changed
      <3>1. orders[a] = Reports(content[a].exchangeID, TRUE)
        BY <2>3
      <3>2. Same(orders[a], book[content[a].exchangeID])
        BY <1>1, <3>1 DEF Reports, Same
      <3> HIDE DEF orders
      <3>. QED
        BY <2>2, <2>3, <3>2, SameIs
    <2>4. CASE a \notin changed
      BY <2>1, <2>4
    <2>. QED
      BY <2>3, <2>4
  <1>4. DOMAIN orders = DOMAIN content /\ changed \in SUBSET DOMAIN orders
    OBVIOUS
  <1> HIDE DEF changed, orders
  <1>5. StoreOf(orders, book)
    BY <1>3, <1>4 DEF Profits, StoreOf
  <1>6. BookedOf(booked', book, ledger)
    BY <1>1, <1>2, <1>4, <1>5, ProcessBooked DEF Profits, Traded
  <1>7. Counted'
    BY <1>2, <1>4 DEF Profits, Counted
  <1>. QED
    BY <1>1, <1>2, <1>5, <1>6, <1>7 DEF Profits, Traded

LEMMA ProfitsSettle ==
  ASSUME Profits, NEW e, NEW status \in {"filled", "canceled"}, Settle(e, status)
  PROVE  Profits'
  <1> DEFINE o == [book[e] EXCEPT !.status = status, !.updated = clock]
             known == With(book, e, o)
             executions == IF o.status = "filled" THEN Append(ledger, e) ELSE ledger
  <1>1. /\ e \in DOMAIN book /\ book[e].status = "new" /\ book[e] \in Order
        /\ book[e].exchangeID = e /\ clock \in Nat
    BY DEF Settle, Profits, Traded, BookOf, AllOrders
  <1>2. o \in Order /\ o.exchangeID = e /\ o.status = status
    BY <1>1 DEF Order
  <1>3. /\ book' = [book EXCEPT ![e] = o]
        /\ ledger' = executions /\ UNCHANGED <<setup, clock, storage, booked>>
    BY <1>2 DEF Settle, results
  <1>4. book' = known
    <2> HIDE DEF o
    <2>1. [book EXCEPT ![e] = o] = [x \in DOMAIN book |-> IF x = e THEN o ELSE book[x]]
      OBVIOUS
    <2>2. DOMAIN book \cup {e} = DOMAIN book
      BY <1>1
    <2>. QED
      BY <1>3, <2>1, <2>2 DEF With
  <1> HIDE DEF o
  <1>5. /\ DOMAIN known = DOMAIN book /\ \A x \in DOMAIN book : x # e => known[x] = book[x]
    BY <1>1 DEF With
  <1> HIDE DEF known, executions
  <1>6. BookOf(known, executions) /\ Grows(book, ledger, known, executions)
    <2>1. BookOf(book, ledger)
      BY DEF Profits, Traded
    <2>2. known = With(book, e, o)
          /\ executions = IF o.status = "filled" THEN Append(ledger, e) ELSE ledger
      BY DEF known, executions
    <2>. QED
      BY <1>1, <1>2, <2>1, <2>2, BookGrows
  <1>7. StoreOf(content, known)
    <2>1. StoreOf(content, book) /\ AllOrders(book)
      BY DEF Profits, Traded, BookOf
    <2>. QED
      BY <1>1, <1>5, <2>1, StoreStays
  <1>8. BookedOf(booked, known, executions)
    BY <1>6, BookedStays DEF Profits, Traded
  <1>. QED
    BY <1>3, <1>4, <1>6, <1>7, <1>8 DEF Profits, Traded, storage, Counted

LEMMA ProfitsStep == Profits /\ [Next]_vars => Profits'
  <1> SUFFICES ASSUME Profits, [Next]_vars PROVE Profits'
    OBVIOUS
  <1>1. ASSUME UNCHANGED <<storage, trades, booked>> PROVE Profits'
    BY <1>1 DEF storage, trades, Profits, Traded, Counted
  <1>2. ASSUME NEW e \in setup.orders, NewOrder(e) PROVE Profits'
    <2>1. PICK pair \in setup.pairs, side \in setup.sides, type \in setup.types,
               price \in setup.prices, quantity \in setup.quantities :
            Create(e, [exchangeID |-> e, pair |-> pair, side |-> side, type |-> type,
                       price |-> price, quantity |-> quantity, updated |-> clock,
                       status |-> IF type = "market" THEN "filled" ELSE "new",
                       stop |-> IF type = "stop" THEN price + price \div 2 ELSE NoStop])
      BY <1>2 DEF NewOrder
    <2>2. /\ e \in Nat /\ pair \in Pair /\ side \in {"buy", "sell"}
          /\ type \in {"market", "limit", "stop"} /\ price \in Nat /\ quantity \in Nat \ {0}
          /\ clock \in Nat
      BY SetupAssumption DEF Profits, Traded
    <2>3. price + price \div 2 \in Nat
      BY <2>2
    <2>4. [exchangeID |-> e, pair |-> pair, side |-> side, type |-> type,
           price |-> price, quantity |-> quantity, updated |-> clock,
           status |-> IF type = "market" THEN "filled" ELSE "new",
           stop |-> IF type = "stop" THEN price + price \div 2 ELSE NoStop] \in Order
      BY <2>2, <2>3 DEF Order
    <2>. QED
      BY <2>1, <2>4, ProfitsCreate
  <1>3. ASSUME NEW e \in setup.orders, NEW status \in setup.ends, Settle(e, status)
        PROVE  Profits'
    <2>1. status \in {"filled", "canceled"}
      BY SetupAssumption DEF Profits, Traded
    <2>. QED
      BY <1>3, <2>1, ProfitsSettle
  <1>4. CASE Tick
    <2>1. UNCHANGED <<setup, book, ledger, storage, booked>> /\ clock' \in Nat
      BY <1>4, SetupAssumption DEF Tick, results, Profits, Traded
    <2>. QED
      BY <2>1 DEF storage, Profits, Traded, Counted
  <1>5. CASE UpdateOrdersOfPoll
    BY <1>5, ProfitsPoll
  <1>6. CASE Again
    <2>1. /\ UNCHANGED <<setup, clock, book, ledger>> /\ lastID' = 0 /\ booked' = Empty
          /\ content' = content \/ content' = Empty
      BY <1>6 DEF Again, Restart, trades
    <2>2. BookedOf(Empty, book, ledger) /\ StoreOf(Empty, book)
      BY DEF Empty, BookedOf, StoreOf
    <2>3. Counted'
      <3>1. DOMAIN Empty = 1..0
        BY DEF Empty
      <3>2. \A n \in Nat : 0 \in 0..n
        OBVIOUS
      <3>3. 0 \in Nat
        OBVIOUS
      <3>. QED
        BY <2>1, <3>1, <3>2, <3>3 DEF Profits, Counted
    <2>. QED
      BY <2>1, <2>2, <2>3 DEF Profits, Traded
  <1>7. ASSUME NEW o \in outbox, OnOrder(o) PROVE Profits'
    BY <1>7, <1>1 DEF OnOrder, trades, results
  <1>8. ASSUME NEW p, NEW time, OnCandle(p, time) PROVE Profits'
    BY <1>8, <1>1 DEF OnCandle, trades, results
  <1>9. ASSUME NEW p, Request(p) PROVE Profits'
    BY <1>9, <1>1 DEF Request, trades, results
  <1>10. CASE UNCHANGED vars
    BY <1>10, <1>1 DEF vars, trades, results
  <1>. QED
    BY <1>2, <1>3, <1>4, <1>5, <1>6, <1>7, <1>8, <1>9, <1>10 DEF Next, Trades

LEMMA ProfitsInit == Init => Profits
  <1> SUFFICES ASSUME Init PROVE Profits
    OBVIOUS
  <1>1. /\ setup \in Setups /\ clock = 0 /\ book = Empty /\ ledger = <<>> /\ booked = Empty
        /\ content = Empty /\ lastID = 0
    BY DEF Init, ResultsInit, StoreInit
  <1>2. BookOf(Empty, <<>>)
    BY DEF BookOf, AllOrders, Empty
  <1>3. StoreOf(Empty, Empty) /\ BookedOf(Empty, Empty, <<>>)
    BY DEF StoreOf, BookedOf, Empty
  <1>4. Counted
    <2>1. DOMAIN Empty = 1..0 /\ 0 \in 0..0
      BY DEF Empty
    <2>. QED
      BY <1>1, <2>1 DEF Counted
  <1>. QED
    BY <1>1, <1>2, <1>3, <1>4 DEF Profits, Traded

(* The profit of each order is what it gained over the average cost of     *)
(* what it closed, however executions, polls and restarts follow each      *)
(* other, when the average costs are whole numbers.                        *)
THEOREM EveryProfitIsGain == Spec => [](AveragesAreWhole => ProfitIsGain)
  <1>1. Profits => (AveragesAreWhole => ProfitIsGain)
    <2> SUFFICES ASSUME Profits, AveragesAreWhole, NEW e \in DOMAIN booked,
                        booked[e].regular,
                        ~Held(book, ledger, book[e].pair)[Place(ledger, e)].reversed
                 PROVE  booked[e].profit = Gain(book, ledger, e)
      BY DEF ProfitIsGain
    <2>1. PICK i \in DOMAIN ledger : ledger[i] = e
      BY DEF Profits, BookedOf
    <2>2. Place(ledger, e) = i
      BY <2>1, PlaceIs DEF Profits, Traded, BookOf
    <2>3. /\ ledger \in Seq(DOMAIN book) /\ i \in 1..Len(ledger) /\ Len(ledger) \in Nat
      BY DEF Profits, Traded, BookOf
    <2>4. book[e].pair \in Pair
      <3>1. e \in DOMAIN book
        BY <2>1, <2>3
      <3>. QED
        BY <3>1 DEF Profits, Traded, BookOf, AllOrders, Order
    <2>5. \A j \in 0..(i - 1) : j \in 0..(Len(ledger) - 1)
      BY <2>3
    <2>6. Comparable(book, ledger, e)
      BY <2>2, <2>4, <2>5 DEF AveragesAreWhole, Comparable
    <2>. QED
      BY <2>6 DEF Profits, BookedOf
  <1>. QED
    BY <1>1, ProfitsInit, ProfitsStep, PTL DEF Spec

=============================================================================
