----------------------- MODULE OrderControllerProofs -----------------------
(***************************************************************************)
(* What holds of the order controller for any number of orders, clients,   *)
(* commanders and pollers, whatever fails and however often the process    *)
(* dies: its types, that it books a trade once and only if the exchange    *)
(* executed it, that the results agree with the storage, that nobody hears *)
(* of a trade before it is booked, that a recorded end is final, that one  *)
(* poller runs, and that only a crash leaves orders behind.                *)
(*                                                                         *)
(* They follow from one inductive invariant, IInv: who holds the mutex,    *)
(* how the exchange, the storage and the results relate for each order     *)
(* (History), and what the thread that holds the mutex may rely on about   *)
(* the orders it works on (Working).                                       *)
(***************************************************************************)
EXTENDS OrderController, FiniteSetTheorems, TLAPS

Creates == {"store", "announce"}
Polls == {"compare", "book", "publish"}
Critical == Creates \cup Polls \cup {"cancel"}

(* Only the thread that holds the mutex is in the middle of an operation.  *)
Mutex ==
  /\ \A t \in Thread : pc[t] \in Critical => mtx = t
  /\ mtx = Free => work = <<>> /\ batch = {}

Ended == {"FILLED", "CANCELED"}

(* No poll can find an order executed again: the storage knows, or it was  *)
(* cancelled afterwards.                                                   *)
Settled(i) == stored[i] = "FILLED" \/ exch[i] = "CANCELED"

History ==
  \A i \in Id :
    /\ stored[i] # "NONE" => exch[i] # "NONE"
    /\ exch[i] = "FILLED" => i \in executed
    /\ i \in executed => exch[i] \in Ended /\ (~CancelsFilled => exch[i] = "FILLED")
    /\ stored[i] \in Ended => exch[i] \in Ended /\ (~CancelsFilled => exch[i] = stored[i])
    /\ booked[i] \in {0, 1}
    /\ booked[i] = 1 => i \in executed /\ Settled(i)

OnlyMarketAtOnce == FilledAtOnce \subseteq {"market"}

(* An executed order that is recorded is booked, or about to be.           *)
NoneForgotten ==
  crashes = 0 /\ OnlyMarketAtOnce =>
    \A i \in Id : stored[i] = "FILLED" /\ booked[i] = 0
                    => \E n \in DOMAIN work : work[n].id = i /\ Books(work[n])

(* The orders of one operation are different ones, which the exchange has. *)
Working ==
  /\ \A i \in batch : exch[i] # "NONE"
  /\ \A n \in DOMAIN work :
       /\ work[n].id \notin batch
       /\ exch[work[n].id] # "NONE"
       /\ OnlyMarketAtOnce /\ work[n].status = "FILLED" => work[n].books
       /\ \A m \in DOMAIN work : m # n => work[m].id # work[n].id

(* A creation: the legs to come are not recorded, and none is booked.      *)
Creating(t) ==
  pc[t] \in Creates =>
    /\ work # <<>>
    /\ \A n \in DOMAIN work :
         /\ booked[work[n].id] = 0
         /\ work[n].status \in {"NEW", "FILLED"}
         /\ work[n].status = "FILLED" => exch[work[n].id] = "FILLED"
         /\ n > 1 \/ pc[t] = "store" => stored[work[n].id] = "NONE"
    /\ pc[t] = "announce" => stored[work[1].id] = work[1].status

(* A poll: an executed order is recorded and waits to be booked, except    *)
(* the one that was booked and is about to be published.                   *)
Polling(t) ==
  pc[t] \in Polls =>
    /\ \A n \in DOMAIN work :
         /\ work[n].books
         /\ work[n].status = "FILLED" =>
              /\ work[n].id \in executed /\ Settled(work[n].id)
              /\ booked[work[n].id] = IF n = 1 /\ pc[t] = "publish" THEN 1 ELSE 0
    /\ pc[t] = "publish" => work # <<>>

(* A cancellation, which the exchange accepted.                            *)
Cancelling(t) ==
  pc[t] = "cancel" =>
    /\ Len(work) = 1 /\ work[1].status = "PENDING_CANCEL"
    /\ exch[work[1].id] = "CANCELED"
    /\ ~CancelsFilled => stored[work[1].id] \notin Ended

(* A report of an execution is behind the results.                         *)
Reports ==
  OnlyMarketAtOnce =>
    /\ \A w \in sending : w.status = "FILLED" => booked[w.id] = 1
    /\ feed # Nobody /\ feed.status = "FILLED" => booked[feed.id] = 1
    /\ \A i \in Id : "FILLED" \in heard[i] => booked[i] = 1

Operations == \A t \in Thread : Creating(t) /\ Polling(t) /\ Cancelling(t)

IInv == TypeOK /\ Mutex /\ History /\ NoneForgotten /\ Working /\ Operations /\ Reports

-----------------------------------------------------------------------------
(* Lemmas about the mutex and the steps that leave the orders alone.       *)

(* While a thread holds the mutex, or nobody does, no other is critical.   *)
LEMMA Alone ==
  ASSUME Mutex, NEW t \in Thread, mtx \in {Free, t}, NEW u \in Thread, u # t
  PROVE  pc[u] \notin Critical
  BY ThreadAssumption DEF Mutex, Thread

(* The orders of an operation are orders.                                  *)
LEMMA Items ==
  ASSUME TypeOK
  PROVE  /\ Len(work) \in Nat /\ DOMAIN work = 1..Len(work)
         /\ \A n \in DOMAIN work : /\ work[n] \in Item /\ work[n].id \in Id
                                   /\ work[n].status \in Status /\ work[n].books \in BOOLEAN
  <1>1. work \in Seq(Item)
    BY DEF TypeOK
  <1>2. /\ Len(work) \in Nat /\ DOMAIN work = 1..Len(work)
        /\ \A n \in DOMAIN work : work[n] \in Item
    BY <1>1
  <1>. QED
    BY <1>2 DEF Item

(* A thread that moves between operations changes no part of the invariant.*)
LEMMA QuietStep ==
  ASSUME IInv, pc' \in [Thread -> Label], status' \in {"", "running", "stopped"},
         \A t \in Thread : pc'[t] \in Critical => pc'[t] = pc[t],
         UNCHANGED <<outside, mtx, batch, work, sending, feed, crashes>>
  PROVE  IInv'
  <1>1. TypeOK'
    BY DEF IInv, TypeOK, outside
  <1>2. Mutex'
    BY DEF IInv, Mutex
  <1>3. History' /\ NoneForgotten' /\ Working' /\ Reports'
    BY DEF IInv, History, NoneForgotten, Working, Reports, Settled, Books, outside
  <1>4. Operations'
    <2> SUFFICES ASSUME NEW t \in Thread PROVE (Creating(t) /\ Polling(t) /\ Cancelling(t))'
      BY DEF Operations
    <2>1. Creating(t) /\ Polling(t) /\ Cancelling(t)
      BY DEF IInv, Operations
    <2>2. Creating(t)'
      BY <2>1 DEF Creating, Creates, Critical, outside
    <2>3. Polling(t)'
      BY <2>1 DEF Polling, Polls, Critical, Settled, outside
    <2>4. Cancelling(t)'
      BY <2>1 DEF Cancelling, Critical, outside
    <2>. QED
      BY <2>2, <2>3, <2>4
  <1>. QED
    BY <1>1, <1>2, <1>3, <1>4 DEF IInv

(* Starting and stopping, up to the last poll and after it, and the ticks. *)
LEMMA CommandStep ==
  ASSUME IInv,
         \/ \E k \in Commander : StartBegin(k) \/ StopBegin(k) \/ StopMarks(k)
         \/ \E k \in Commander, p \in Poller : StartEnd(k, p) \/ StopEnd(k, p)
         \/ \E p \in Poller : Tick(p)
  PROVE  IInv'
  <1> DEFINE Quiet == /\ pc' \in [Thread -> Label] /\ status' \in {"", "running", "stopped"}
                      /\ \A t \in Thread : pc'[t] \in Critical => pc'[t] = pc[t]
                      /\ UNCHANGED <<outside, mtx, batch, work, sending, feed, crashes>>
  <1>1. pc \in [Thread -> Label] /\ status \in {"", "running", "stopped"}
    BY DEF IInv, TypeOK
  <1>2. ASSUME NEW k \in Commander, StartBegin(k) \/ StopBegin(k) \/ StopMarks(k)
        PROVE  Quiet
    BY <1>1, <1>2 DEF StartBegin, StopBegin, StopMarks, Goto, Label, Critical, Creates, Polls,
                      Thread
  <1>3. ASSUME NEW k \in Commander, NEW p \in Poller, StartEnd(k, p) \/ StopEnd(k, p)
        PROVE  Quiet
    <2>1. k \in Thread /\ p \in Thread /\ k # p
      BY ThreadAssumption DEF Thread
    <2>. QED
      BY <1>1, <1>3, <2>1 DEF StartEnd, StopEnd, Label, Critical, Creates, Polls
  <1>4. ASSUME NEW p \in Poller, Tick(p) PROVE Quiet
    BY <1>1, <1>4 DEF Tick, Goto, Label, Critical, Creates, Polls, Thread
  <1>5. Quiet
    BY <1>2, <1>3, <1>4
  <1>. QED
    BY <1>5, QuietStep

(* A process that just began is between two operations.                    *)
LEMMA FreshProcess == Fresh \in [Thread -> Label] /\ \A t \in Thread : Fresh[t] \notin Critical
  <1>1. \A t \in Thread : Fresh[t] \in {"none", "idle"}
    BY DEF Fresh
  <1>2. Fresh \in [Thread -> {"none", "idle"}]
    BY DEF Fresh
  <1>3. {"none", "idle"} \subseteq Label /\ {"none", "idle"} \cap Critical = {}
    BY DEF Label, Critical, Creates, Polls
  <1>. QED
    BY <1>1, <1>2, <1>3

(* A process that dies leaves the exchange and the storage behind.         *)
LEMMA CrashStep == ASSUME IInv, Crash PROVE IInv'
  <1>1. Fresh \in [Thread -> Label] /\ \A t \in Thread : Fresh[t] \notin Critical
    BY FreshProcess
  <1>2. crashes' \in Nat /\ crashes' # 0
    <2>1. crashes \in Nat
      BY DEF IInv, TypeOK
    <2>2. crashes' = crashes + 1
      BY Zenon DEF Crash
    <2>. QED
      BY <2>1, <2>2
  <1>3. TypeOK'
    <2>1. pc' \in [Thread -> Label] /\ mtx' \in Thread \cup {Free}
      BY <1>1 DEF Crash, outside
    <2>2. work' = <<>> /\ feed' = Nobody
      BY DEF Crash, outside
    <2>3. work' \in Seq(Item) /\ feed' \in Item \cup {Nobody}
      BY <2>2
    <2>4. /\ exch' \in [Id -> ExchangeStatus \cup {"NONE"}]
          /\ stored' \in [Id -> Status \cup {"NONE"}]
          /\ booked' \in [Id -> Nat] /\ executed' \subseteq Id
          /\ heard' \in [Id -> SUBSET Status]
      BY DEF IInv, TypeOK, Crash, outside
    <2>5. /\ status' \in {"", "running", "stopped"}
          /\ batch' \subseteq Id /\ sending' \subseteq Item
      BY DEF Crash, outside
    <2>. QED
      BY <2>1, <2>3, <2>4, <2>5, <1>2 DEF TypeOK
  <1>4. Mutex'
    BY <1>1 DEF Mutex, Crash, outside
  <1>5. History' /\ Reports'
    BY DEF IInv, History, Reports, Settled, Crash, outside
  <1>6. NoneForgotten' /\ Working'
    <2>1. batch' = {} /\ work' = <<>>
      BY DEF Crash, outside
    <2>. QED
      BY <1>2, <2>1 DEF NoneForgotten, Working
  <1>7. Operations'
    BY <1>1 DEF Operations, Creating, Polling, Cancelling, Critical, Creates, Polls, Crash, outside
  <1>. QED
    BY <1>3, <1>4, <1>5, <1>6, <1>7 DEF IInv

-----------------------------------------------------------------------------
(* Publication, and the exchange.                                          *)

(* What publishing changes is in TypeOK and Reports only.                  *)
LEMMA PublicationKeeps ==
  ASSUME IInv, UNCHANGED <<exch, stored, booked, executed, mtx, pc, batch, work, crashes>>
  PROVE  Mutex' /\ History' /\ NoneForgotten' /\ Working' /\ Operations'
  <1>1. Mutex' /\ History' /\ NoneForgotten' /\ Working'
    BY DEF IInv, Mutex, History, NoneForgotten, Working, Settled, Books
  <1>2. Operations'
    BY DEF IInv, Operations, Creating, Polling, Cancelling, Settled
  <1>. QED
    BY <1>1, <1>2

(* A goroutine hands a new order to the feed.                              *)
LEMMA PublishStep == ASSUME IInv, NEW w \in sending, Publish(w) PROVE IInv'
  <1>1. w \in Item /\ w # Nobody
    BY NobodyAssumption DEF IInv, TypeOK
  <1>2. TypeOK'
    BY <1>1 DEF IInv, TypeOK, Publish, outside
  <1>3. Reports'
    BY <1>1 DEF IInv, Reports, Publish, outside
  <1>4. Mutex' /\ History' /\ NoneForgotten' /\ Working' /\ Operations'
    BY PublicationKeeps DEF Publish, outside
  <1>. QED
    BY <1>2, <1>3, <1>4 DEF IInv

(* The feed's goroutine tells the subscribers.                             *)
LEMMA DeliverStep == ASSUME IInv, Deliver PROVE IInv'
  <1>1. feed \in Item /\ feed.id \in Id /\ feed.status \in Status
    BY DEF IInv, TypeOK, Deliver, Item
  <1>2. TypeOK'
    BY <1>1 DEF IInv, TypeOK, Deliver
  <1>3. Reports'
    <2> SUFFICES ASSUME OnlyMarketAtOnce, NEW i \in Id, "FILLED" \in heard'[i]
                 PROVE  booked[i] = 1
      BY DEF Reports, IInv, Deliver
    <2>1. heard \in [Id -> SUBSET Status]
      BY DEF IInv, TypeOK
    <2>2. "FILLED" \in heard[i] \/ (i = feed.id /\ feed.status = "FILLED")
      BY <1>1, <2>1 DEF Deliver
    <2>. QED
      BY <2>2 DEF IInv, Reports, Deliver
  <1>4. Mutex' /\ History' /\ NoneForgotten' /\ Working' /\ Operations'
    BY PublicationKeeps DEF Deliver
  <1>. QED
    BY <1>2, <1>3, <1>4 DEF IInv

(* What the exchange does to an open order was not booked, recorded as an  *)
(* end or accepted for cancellation, so nothing that was known is undone.  *)
LEMMA ProgressStep ==
  ASSUME IInv, NEW i \in Id, NEW s \in ExchangeStatus, Progress(i, s)
  PROVE  IInv'
  <1>1. /\ exch \in [Id -> ExchangeStatus \cup {"NONE"}]
        /\ exch[i] \in Open /\ exch' = [exch EXCEPT ![i] = s] /\ s # "NONE"
        /\ executed' = IF s = "FILLED" THEN executed \cup {i} ELSE executed
        /\ UNCHANGED <<stored, booked, heard, status, mtx, pc, batch, work, sending, feed, crashes>>
    BY DEF IInv, TypeOK, Progress, ExchangeStatus, Open
  <1>2. /\ exch'[i] = s /\ exch[i] \notin {"NONE", "FILLED", "CANCELED"}
        /\ \A j \in Id : j # i => exch'[j] = exch[j]
    BY <1>1 DEF Open
  <1>3. TypeOK'
    BY <1>1 DEF IInv, TypeOK
  <1>4. Mutex' /\ Reports' /\ NoneForgotten'
    BY <1>1 DEF IInv, Mutex, Reports, NoneForgotten, Books
  <1>5. History'
    BY <1>1, <1>2 DEF IInv, History, Settled, Ended, ExchangeStatus, Open
  <1>6. Working'
    BY <1>1, <1>2, Items DEF IInv, Working
  <1>7. ASSUME NEW t \in Thread PROVE (Creating(t) /\ Polling(t) /\ Cancelling(t))'
    <2>1. Creating(t) /\ Polling(t) /\ Cancelling(t) /\ \A n \in DOMAIN work : work[n].id \in Id
      BY Items DEF IInv, Operations
    <2>2. Creating(t)'
      BY <1>1, <1>2, <2>1 DEF Creating
    <2>3. Polling(t)'
      BY <1>1, <1>2, <2>1 DEF Polling, Settled
    <2>4. Cancelling(t)'
      BY <1>1, <1>2, <2>1 DEF Cancelling
    <2>. QED
      BY <2>2, <2>3, <2>4
  <1>. QED
    BY <1>3, <1>4, <1>5, <1>6, <1>7 DEF IInv, Operations

-----------------------------------------------------------------------------
(* The steps of the thread that holds the mutex.                           *)

(* What follows from the mutex when t makes a step: only what t does next  *)
(* is to be shown.                                                         *)
LEMMA HolderStep ==
  ASSUME IInv, NEW t \in Thread, NEW label \in Label, mtx \in {Free, t},
         pc' = [pc EXCEPT ![t] = label], mtx' \in {Free, t},
         mtx' = Free => label \notin Critical /\ work' = <<>> /\ batch' = {}
  PROVE  /\ pc' \in [Thread -> Label] /\ pc'[t] = label
         /\ Mutex'
         /\ Creating(t)' /\ Polling(t)' /\ Cancelling(t)' => Operations'
  <1>1. pc \in [Thread -> Label]
    BY DEF IInv, TypeOK
  <1>2. pc' \in [Thread -> Label] /\ pc'[t] = label /\ \A u \in Thread : u # t => pc'[u] = pc[u]
    BY <1>1
  <1>3. \A u \in Thread : u # t => pc'[u] \notin Critical
    BY <1>2, Alone DEF IInv
  <1>4. Mutex'
    BY <1>2, <1>3, ThreadAssumption DEF Mutex, Thread
  <1>5. ASSUME NEW u \in Thread, u # t PROVE Creating(u)' /\ Polling(u)' /\ Cancelling(u)'
    BY <1>3, <1>5 DEF Creating, Polling, Cancelling, Critical
  <1>. QED
    BY <1>2, <1>4, <1>5 DEF Operations

(* The end of an operation: what it worked on is forgotten.                *)
LEMMA ReturnStep ==
  ASSUME IInv, NEW t \in Thread, NEW label \in {"idle", "select", "finish"},
         mtx = t, Return(t, label)
  PROVE  /\ pc' \in [Thread -> Label] /\ mtx' = Free /\ work' = <<>> /\ batch' = {}
         /\ work' \in Seq(Item)
         /\ Mutex' /\ Working' /\ Operations'
  <1>1. /\ mtx' = Free /\ batch' = {} /\ work' = <<>>
        /\ pc' = [pc EXCEPT ![t] = label]
    BY DEF Return, Goto
  <1>2. label \in Label /\ label \notin Critical
    BY DEF Label, Critical, Creates, Polls
  <1>3. /\ pc' \in [Thread -> Label] /\ pc'[t] = label
        /\ Mutex'
        /\ Creating(t)' /\ Polling(t)' /\ Cancelling(t)' => Operations'
    BY <1>1, <1>2, HolderStep
  <1>4. Creating(t)' /\ Polling(t)' /\ Cancelling(t)'
    BY <1>2, <1>3 DEF Creating, Polling, Cancelling, Critical
  <1>5. Working'
    BY <1>1 DEF Working
  <1>6. work' \in Seq(Item)
    BY <1>1
  <1>. QED
    BY <1>1, <1>3, <1>4, <1>5, <1>6

(* What is left of the work when its first order was dealt with.           *)
LEMMA Remaining ==
  ASSUME TypeOK, work # <<>>
  PROVE  /\ 1 \in DOMAIN work /\ Head(work) = work[1] /\ Tail(work) \in Seq(Item)
         /\ \A n \in DOMAIN Tail(work) : /\ n + 1 \in DOMAIN work /\ n + 1 # 1
                                         /\ Tail(work)[n] = work[n + 1]
         /\ \A n \in DOMAIN work : n # 1 =>
              \E m \in DOMAIN Tail(work) : n = m + 1 /\ Tail(work)[m] = work[n]
  <1>1. work \in Seq(Item)
    BY DEF TypeOK
  <1>2. /\ Len(work) \in Nat \ {0} /\ DOMAIN work = 1..Len(work)
        /\ Head(work) = work[1] /\ Tail(work) \in Seq(Item)
        /\ DOMAIN Tail(work) = 1..(Len(work) - 1)
        /\ \A n \in 1..(Len(work) - 1) : Tail(work)[n] = work[n + 1]
    BY <1>1
  <1>3. ASSUME NEW n \in DOMAIN work, n # 1
        PROVE  \E m \in DOMAIN Tail(work) : n = m + 1 /\ Tail(work)[m] = work[n]
    <2>1. n - 1 \in DOMAIN Tail(work) /\ n = (n - 1) + 1
      BY <1>2, <1>3
    <2>. QED
      BY <1>2, <2>1
  <1>. QED
    BY <1>2, <1>3

(* Only what processTrade books changes the results.                       *)
LEMMA Booking ==
  ASSUME TypeOK, NEW w \in Item, ProcessTrade(w), booked[w.id] = 0
  PROVE  /\ booked' \in [Id -> Nat]
         /\ \A i \in Id : booked'[i] = IF i = w.id /\ Books(w) THEN 1 ELSE booked[i]
  <1>1. booked \in [Id -> Nat] /\ w.id \in Id
    BY DEF TypeOK, Item
  <1>. QED
    BY <1>1 DEF ProcessTrade

(* The thread that begins a poll reads which orders to compare.            *)
LEMMA PollBeginStep ==
  ASSUME IInv, NEW t \in Commander \cup Poller, PollBegin(t) PROVE IInv'
  <1>1. /\ t \in Thread /\ mtx = Free /\ mtx' = t /\ work = <<>> /\ work' = <<>>
        /\ pc' = [pc EXCEPT ![t] = "compare"]
        /\ batch' = {i \in Id : Pollable(i)}
        /\ UNCHANGED <<exch, stored, booked, executed, heard, status, sending, feed, crashes>>
    BY DEF PollBegin, Acquire, Goto, outside, Thread, IInv, Mutex
  <1>2. /\ pc' \in [Thread -> Label] /\ pc'[t] = "compare" /\ Mutex'
        /\ Creating(t)' /\ Polling(t)' /\ Cancelling(t)' => Operations'
    <2>1. t # Free /\ "compare" \in Label
      BY <1>1, ThreadAssumption DEF Thread, Label
    <2>. QED
      BY <1>1, <2>1, HolderStep
  <1>3. TypeOK'
    BY <1>1, <1>2 DEF IInv, TypeOK
  <1>4. History' /\ NoneForgotten' /\ Reports'
    BY <1>1 DEF IInv, History, NoneForgotten, Reports, Settled
  <1>5. Working'
    BY <1>1 DEF IInv, History, Working, Pollable, Open
  <1>6. Creating(t)' /\ Polling(t)' /\ Cancelling(t)'
    BY <1>1, <1>2 DEF Creating, Polling, Cancelling, Creates
  <1>. QED
    BY <1>2, <1>3, <1>4, <1>5, <1>6 DEF IInv

(* An order that is not compared, for whatever reason, is dropped.         *)
LEMMA PollSkipsStep ==
  ASSUME IInv, NEW t \in Commander \cup Poller, NEW i \in Id, PollSkips(t, i) PROVE IInv'
  <1>1. /\ t \in Thread /\ pc[t] = "compare" /\ batch' = batch \ {i}
        /\ UNCHANGED <<exch, stored, booked, executed, heard, status, mtx, pc, work,
                       sending, feed, crashes>>
    BY DEF PollSkips, outside, Thread
  <1>2. mtx = t /\ t # Free
    BY <1>1, ThreadAssumption DEF IInv, Mutex, Critical, Polls, Thread
  <1>3. TypeOK' /\ Mutex'
    BY <1>1, <1>2 DEF IInv, TypeOK, Mutex
  <1>4. History' /\ NoneForgotten' /\ Working' /\ Reports'
    BY <1>1 DEF IInv, History, NoneForgotten, Working, Reports, Settled, Books
  <1>5. Operations'
    BY <1>1 DEF IInv, Operations, Creating, Polling, Cancelling, Settled
  <1>. QED
    BY <1>3, <1>4, <1>5 DEF IInv

(* An order that changed is recorded.  If the exchange executed it, it     *)
(* cannot have been booked: the storage knew it as open.                   *)
LEMMA PollUpdatesStep ==
  ASSUME IInv, NEW t \in Commander \cup Poller, NEW i \in Id, PollUpdates(t, i) PROVE IInv'
  <1> DEFINE new == [id |-> i, status |-> exch[i], books |-> TRUE]
  <1>1. /\ t \in Thread /\ pc[t] = "compare" /\ i \in batch /\ exch[i] # stored[i]
        /\ stored' = [stored EXCEPT ![i] = exch[i]]
        /\ work' = Append(work, new) /\ batch' = batch \ {i}
        /\ UNCHANGED <<exch, booked, executed, heard, status, mtx, pc, sending, feed, crashes>>
    BY DEF PollUpdates, Thread
  <1>2. /\ mtx = t /\ t # Free /\ mtx # Free
        /\ \A u \in Thread : u # t => pc[u] \notin Critical
    BY <1>1, ThreadAssumption, Alone DEF IInv, Mutex, Critical, Polls, Thread
  <1>3. exch[i] \in Status /\ new \in Item /\ new.id = i /\ new.status = exch[i] /\ new.books
    BY <1>1 DEF IInv, TypeOK, Working, Item, Status
  <1> HIDE DEF new
  <1>4. /\ work' \in Seq(Item) /\ DOMAIN work' = DOMAIN work \cup {Len(work) + 1}
        /\ Len(work) + 1 \notin DOMAIN work
        /\ work'[Len(work) + 1] = new /\ \A n \in DOMAIN work : work'[n] = work[n]
    <2>1. work \in Seq(Item)
      BY DEF IInv, TypeOK
    <2>. QED
      BY <1>1, <1>3, <2>1
  <1>5. /\ stored'[i] = exch[i] /\ \A j \in Id : j # i => stored'[j] = stored[j]
        /\ stored' \in [Id -> Status \cup {"NONE"}]
    BY <1>1, <1>3 DEF IInv, TypeOK
  <1>6. TypeOK' /\ Mutex'
    BY <1>1, <1>2, <1>4, <1>5 DEF IInv, TypeOK, Mutex
  <1>7. exch[i] = "FILLED" => booked[i] = 0 /\ i \in executed
    BY <1>1 DEF IInv, History, Settled, TypeOK
  <1>8. History'
    <2>1. exch[i] # "NONE"
      BY <1>1 DEF IInv, Working
    <2>. QED
      BY <1>1, <1>5, <2>1 DEF IInv, History, Settled, Ended
  <1>9. NoneForgotten'
    BY <1>1, <1>3, <1>4, <1>5 DEF IInv, NoneForgotten, Books
  <1>10. Working'
    BY <1>1, <1>3, <1>4, Items DEF IInv, Working
  <1>11. Polling(t)'
    <2>1. \A n \in DOMAIN work : work[n].books /\ work[n].id # i /\ work[n].id \in Id
      BY <1>1, Items DEF IInv, Operations, Polling, Polls, Working
    <2>2. \A n \in DOMAIN work : work[n].status = "FILLED" =>
            work[n].id \in executed /\ Settled(work[n].id) /\ booked[work[n].id] = 0
      BY <1>1 DEF IInv, Operations, Polling, Polls
    <2>. QED
      BY <1>1, <1>3, <1>4, <1>5, <1>7, <2>1, <2>2 DEF Polling, Settled
  <1>12. Operations'
    <2>1. ASSUME NEW u \in Thread, u # t PROVE Creating(u)' /\ Polling(u)' /\ Cancelling(u)'
      BY <1>1, <1>2, <2>1 DEF Creating, Polling, Cancelling, Critical
    <2>2. Creating(t)' /\ Cancelling(t)'
      BY <1>1 DEF Creating, Cancelling, Creates
    <2>. QED
      BY <1>11, <2>1, <2>2 DEF Operations
  <1>13. Reports'
    BY <1>1 DEF IInv, Reports
  <1>. QED
    BY <1>6, <1>8, <1>9, <1>10, <1>12, <1>13 DEF IInv

(* All orders were compared.                                               *)
LEMMA PollComparedStep ==
  ASSUME IInv, NEW t \in Commander \cup Poller, PollCompared(t) PROVE IInv'
  <1>1. /\ t \in Thread /\ pc[t] = "compare" /\ pc' = [pc EXCEPT ![t] = "book"]
        /\ UNCHANGED <<exch, stored, booked, executed, heard, status, mtx, batch, work,
                       sending, feed, crashes>>
    BY DEF PollCompared, Goto, outside, Thread
  <1>2. mtx = t /\ t # Free
    BY <1>1, ThreadAssumption DEF IInv, Mutex, Critical, Polls, Thread
  <1>3. /\ pc' \in [Thread -> Label] /\ pc'[t] = "book" /\ Mutex'
        /\ Creating(t)' /\ Polling(t)' /\ Cancelling(t)' => Operations'
    BY <1>1, <1>2, HolderStep DEF Label
  <1>4. History' /\ NoneForgotten' /\ Working' /\ Reports'
    BY <1>1 DEF IInv, History, NoneForgotten, Working, Reports, Settled, Books
  <1>6. TypeOK'
    BY <1>1, <1>3 DEF IInv, TypeOK
  <1>5. Creating(t)' /\ Polling(t)' /\ Cancelling(t)'
    BY <1>1, <1>3 DEF IInv, Operations, Creating, Polling, Cancelling, Creates, Polls, Settled
  <1>. QED
    BY <1>3, <1>4, <1>5, <1>6 DEF IInv

(* processTrade books the next order, which was not booked before.         *)
LEMMA PollBooksStep ==
  ASSUME IInv, NEW t \in Commander \cup Poller, PollBooks(t) PROVE IInv'
  <1> DEFINE w == Head(work)
  <1>1. /\ t \in Thread /\ pc[t] = "book" /\ work # <<>> /\ pc' = [pc EXCEPT ![t] = "publish"]
        /\ ProcessTrade(w)
        /\ UNCHANGED <<exch, stored, executed, heard, status, mtx, batch, work,
                       sending, feed, crashes>>
    BY DEF PollBooks, Goto, Thread
  <1>2. mtx = t /\ t # Free
    BY <1>1, ThreadAssumption DEF IInv, Mutex, Critical, Polls, Thread
  <1>3. /\ pc' \in [Thread -> Label] /\ pc'[t] = "publish" /\ Mutex'
        /\ Creating(t)' /\ Polling(t)' /\ Cancelling(t)' => Operations'
    BY <1>1, <1>2, HolderStep DEF Label
  <1>4. 1 \in DOMAIN work /\ w = work[1] /\ w \in Item /\ w.id \in Id /\ w.books
    BY <1>1, Remaining, Items DEF IInv, Operations, Polling, Polls
  <1>5. \A n \in DOMAIN work : work[n].status = "FILLED" =>
          work[n].id \in executed /\ Settled(work[n].id) /\ booked[work[n].id] = 0
    BY <1>1 DEF IInv, Operations, Polling, Polls
  <1> HIDE DEF w
  <1>6. /\ booked' \in [Id -> Nat]
        /\ \A i \in Id : booked'[i] = IF i = w.id /\ Books(w) THEN 1 ELSE booked[i]
    <2>1. CASE Books(w)
      BY <1>1, <1>4, <1>5, <2>1, Booking DEF IInv, Books
    <2>2. CASE ~Books(w)
      BY <1>1, <2>2 DEF IInv, TypeOK, ProcessTrade
    <2>. QED
      BY <2>1, <2>2
  <1>7. TypeOK'
    BY <1>1, <1>3, <1>6 DEF IInv, TypeOK
  <1>8. Books(w) => w.id \in executed /\ Settled(w.id)
    BY <1>4, <1>5 DEF Books
  <1>9. History'
    BY <1>1, <1>4, <1>6, <1>8 DEF IInv, History, Settled
  <1>10. NoneForgotten'
    BY <1>1, <1>6 DEF IInv, NoneForgotten, Books
  <1>11. Working'
    BY <1>1 DEF IInv, Working
  <1>12. Reports'
    <2>1. \A i \in Id : booked[i] = 1 => booked'[i] = 1
      BY <1>6
    <2>2. /\ \A x \in sending : x.id \in Id
          /\ feed # Nobody => feed.id \in Id
      BY DEF IInv, TypeOK, Item
    <2>. QED
      BY <1>1, <2>1, <2>2 DEF IInv, Reports
  <1>13. Polling(t)'
    <2>1. ASSUME NEW n \in DOMAIN work
          PROVE  work[n].books /\ work[n].id \in Id /\ (n # 1 => work[n].id # w.id)
      BY <1>1, <1>4, <2>1, Items DEF IInv, Operations, Polling, Polls, Working
    <2>2. work[1].status = "FILLED" => Books(w)
      BY <1>4 DEF Books
    <2>. QED
      BY <1>1, <1>3, <1>4, <1>5, <1>6, <2>1, <2>2 DEF Polling, Settled
  <1>14. Creating(t)' /\ Cancelling(t)'
    BY <1>3 DEF Creating, Cancelling, Creates
  <1>. QED
    BY <1>3, <1>7, <1>9, <1>10, <1>11, <1>12, <1>13, <1>14 DEF IInv

(* The feed takes the order that was booked last.                          *)
LEMMA PollPublishesStep ==
  ASSUME IInv, NEW t \in Commander \cup Poller, PollPublishes(t) PROVE IInv'
  <1> DEFINE w == Head(work)
  <1>1. /\ t \in Thread /\ pc[t] = "publish" /\ pc' = [pc EXCEPT ![t] = "book"]
        /\ feed' = w /\ work' = Tail(work)
        /\ UNCHANGED <<exch, stored, booked, executed, heard, status, mtx, batch,
                       sending, crashes>>
    BY DEF PollPublishes, Goto, outside, Thread
  <1>2. mtx = t /\ t # Free /\ mtx # Free
    BY <1>1, ThreadAssumption DEF IInv, Mutex, Critical, Polls, Thread
  <1>3. /\ pc' \in [Thread -> Label] /\ pc'[t] = "book" /\ Mutex'
        /\ Creating(t)' /\ Polling(t)' /\ Cancelling(t)' => Operations'
    BY <1>1, <1>2, HolderStep DEF Label
  <1>4. /\ work # <<>> /\ w = work[1] /\ 1 \in DOMAIN work
        /\ w \in Item /\ w # Nobody /\ w.books /\ w.id \in Id
        /\ w.status = "FILLED" => booked[w.id] = 1
    <2>1. work # <<>>
      BY <1>1 DEF IInv, Operations, Polling, Polls
    <2>2. w = work[1] /\ 1 \in DOMAIN work
      BY <2>1, Remaining DEF IInv
    <2>3. w \in Item /\ w.id \in Id
      BY <2>2, Items DEF IInv
    <2>4. w.books /\ (w.status = "FILLED" => booked[w.id] = 1)
      BY <1>1, <2>2 DEF IInv, Operations, Polling, Polls
    <2>. QED
      BY <2>1, <2>2, <2>3, <2>4, NobodyAssumption
  <1> HIDE DEF w
  <1>5. /\ work' \in Seq(Item)
        /\ \A n \in DOMAIN work' : n + 1 \in DOMAIN work /\ n + 1 # 1 /\ work'[n] = work[n + 1]
        /\ \A n \in DOMAIN work : n # 1 => \E m \in DOMAIN work' : n = m + 1 /\ work'[m] = work[n]
    BY <1>1, <1>4, Remaining DEF IInv
  <1>6. TypeOK'
    BY <1>1, <1>3, <1>4, <1>5 DEF IInv, TypeOK
  <1>7. History'
    BY <1>1 DEF IInv, History, Settled
  <1>8. NoneForgotten'
    <2> SUFFICES ASSUME crashes = 0, OnlyMarketAtOnce, NEW i \in Id,
                        stored[i] = "FILLED", booked[i] = 0
                 PROVE  \E n \in DOMAIN work' : work'[n].id = i /\ Books(work'[n])
      BY <1>1 DEF NoneForgotten, Books
    <2>1. PICK n \in DOMAIN work : work[n].id = i /\ Books(work[n])
      BY DEF IInv, NoneForgotten
    <2>2. n # 1
      BY <1>4, <2>1 DEF Books
    <2>. QED
      BY <1>5, <2>1, <2>2
  <1>9. Working'
    <2>1. DOMAIN work' = 1..Len(work') /\ Len(work') \in Nat
      BY <1>5
    <2>2. \A n, m \in DOMAIN work' : n # m => n + 1 # m + 1
      BY <2>1
    <2>. QED
      BY <1>1, <1>5, <2>2 DEF IInv, Working
  <1>10. Polling(t)'
    BY <1>1, <1>3, <1>5 DEF IInv, Operations, Polling, Polls, Settled
  <1>11. Creating(t)' /\ Cancelling(t)'
    BY <1>3 DEF Creating, Cancelling, Creates
  <1>12. Reports'
    BY <1>1, <1>4 DEF IInv, Reports
  <1>. QED
    BY <1>3, <1>6, <1>7, <1>8, <1>9, <1>10, <1>11, <1>12 DEF IInv

(* All changes were booked and published.                                  *)
LEMMA PollEndStep ==
  ASSUME IInv, NEW t \in Commander \cup Poller, PollEnd(t) PROVE IInv'
  <1>1. /\ t \in Thread /\ pc[t] = "book" /\ work = <<>>
        /\ UNCHANGED <<exch, stored, booked, executed, heard, status, sending, feed, crashes>>
    BY DEF PollEnd, outside, Thread
  <1>2. mtx = t
    BY <1>1 DEF IInv, Mutex, Critical, Polls
  <1>3. /\ pc' \in [Thread -> Label] /\ mtx' = Free /\ work' = <<>> /\ batch' = {}
        /\ work' \in Seq(Item) /\ Mutex' /\ Working' /\ Operations'
    <2>1. CASE t \in Poller
      BY <1>1, <1>2, <2>1, ReturnStep DEF PollEnd
    <2>2. CASE t \notin Poller
      BY <1>1, <1>2, <2>2, ReturnStep DEF PollEnd
    <2>. QED
      BY <2>1, <2>2
  <1>4. TypeOK'
    BY <1>1, <1>3 DEF IInv, TypeOK
  <1>5. History' /\ NoneForgotten' /\ Reports'
    BY <1>1, <1>3 DEF IInv, History, NoneForgotten, Reports, Settled, Books
  <1>. QED
    BY <1>3, <1>4, <1>5 DEF IInv

-----------------------------------------------------------------------------
(* The steps of clients.                                                   *)

(* The exchange accepts orders it did not have before, so nothing is known *)
(* of them yet.                                                            *)
LEMMA CreateOrderStep ==
  ASSUME IInv, NEW c \in Client, NEW method \in Method, NEW s \in {"NEW", "FILLED"},
         NEW ids \in Seq(Id), \A m, n \in DOMAIN ids : m # n => ids[m] # ids[n],
         CreateOrder(c, method, ids, s)
  PROVE  IInv'
  <1> DEFINE Ids == {ids[k] : k \in DOMAIN ids}
  <1>1. /\ c \in Thread /\ mtx = Free /\ mtx' = c /\ work = <<>> /\ batch = {} /\ batch' = {}
        /\ Len(ids) = Legs(method) /\ \A k \in DOMAIN ids : exch[ids[k]] = "NONE"
        /\ s = "NEW" \/ method \in FilledAtOnce
        /\ exch' = [i \in Id |-> IF i \in Ids THEN s ELSE exch[i]]
        /\ executed' = IF s = "FILLED" THEN executed \cup Ids ELSE executed
        /\ work' = [k \in DOMAIN ids |->
                      [id |-> ids[k], status |-> s, books |-> method = "market"]]
        /\ pc' = [pc EXCEPT ![c] = "store"]
        /\ UNCHANGED <<stored, booked, heard, status, sending, feed, crashes>>
    BY DEF CreateOrder, Acquire, Goto, Thread, IInv, Mutex
  <1>2. /\ pc' \in [Thread -> Label] /\ pc'[c] = "store" /\ Mutex'
        /\ Creating(c)' /\ Polling(c)' /\ Cancelling(c)' => Operations'
    <2>1. c # Free /\ "store" \in Label
      BY <1>1, ThreadAssumption DEF Thread, Label
    <2>. QED
      BY <1>1, <2>1, HolderStep
  <1>3. /\ Len(ids) \in {1, 2} /\ DOMAIN ids = 1..Len(ids)
        /\ \A k \in DOMAIN ids : ids[k] \in Id
    <2>1. Len(ids) \in {1, 2}
      BY <1>1 DEF Legs
    <2>. QED
      BY <2>1
  <1>4. /\ DOMAIN work' = DOMAIN ids /\ work' # <<>>
        /\ \A n \in DOMAIN work' : /\ work'[n].id = ids[n] /\ work'[n].status = s
                                  /\ work'[n].books = (method = "market")
        /\ \A n \in DOMAIN work' : work'[n] \in Item
    BY <1>1, <1>3 DEF Item, Status, ExchangeStatus, Open
  <1>5. work' \in Seq(Item)
    <2>1. work' \in [1..Len(ids) -> Item] /\ Len(ids) \in Nat
      BY <1>1, <1>3, <1>4
    <2>. QED
      BY <2>1
  <1>6. /\ Ids \subseteq Id /\ \A i \in Ids : exch[i] = "NONE" /\ exch'[i] = s
        /\ \A i \in Id \ Ids : exch'[i] = exch[i]
        /\ \A n \in DOMAIN ids : ids[n] \in Ids
    BY <1>1, <1>3
  <1> HIDE DEF Ids
  <1>7. \A i \in Ids : stored[i] = "NONE" /\ booked[i] = 0 /\ i \notin executed
    BY <1>6 DEF IInv, History, Ended
  <1>8. TypeOK'
    <2>1. s \in ExchangeStatus
      BY DEF ExchangeStatus, Open
    <2>. QED
      BY <1>1, <1>2, <1>5, <1>6, <2>1 DEF IInv, TypeOK
  <1>9. History'
    BY <1>1, <1>6, <1>7 DEF IInv, History, Settled, Ended
  <1>10. NoneForgotten'
    BY <1>1 DEF IInv, NoneForgotten
  <1>11. Working'
    <2>1. OnlyMarketAtOnce /\ s = "FILLED" => method = "market"
      BY <1>1 DEF OnlyMarketAtOnce
    <2>2. \A n \in DOMAIN work' : exch'[work'[n].id] # "NONE"
      BY <1>4, <1>6
    <2>3. \A n \in DOMAIN work' :
            OnlyMarketAtOnce /\ work'[n].status = "FILLED" => work'[n].books
      BY <1>4, <2>1
    <2>4. \A n, m \in DOMAIN work' : m # n => work'[m].id # work'[n].id
      BY <1>4
    <2>. QED
      BY <1>1, <2>2, <2>3, <2>4 DEF Working, OnlyMarketAtOnce
  <1>12. Creating(c)'
    BY <1>1, <1>2, <1>4, <1>6, <1>7 DEF Creating
  <1>13. Polling(c)' /\ Cancelling(c)'
    BY <1>2 DEF Polling, Cancelling, Polls
  <1>14. Reports'
    BY <1>1 DEF IInv, Reports
  <1>. QED
    BY <1>2, <1>8, <1>9, <1>10, <1>11, <1>12, <1>13, <1>14 DEF IInv

(* The next leg is recorded with the status the exchange answered.         *)
LEMMA StoreOrderStep == ASSUME IInv, NEW c \in Client, StoreOrder(c) PROVE IInv'
  <1> DEFINE w == Head(work)
  <1>1. /\ c \in Thread /\ pc[c] = "store" /\ pc' = [pc EXCEPT ![c] = "announce"]
        /\ stored' = [stored EXCEPT ![w.id] = w.status]
        /\ UNCHANGED <<exch, booked, executed, heard, status, mtx, batch, work,
                       sending, feed, crashes>>
    BY DEF StoreOrder, Goto, Thread
  <1>2. mtx = c /\ c # Free
    BY <1>1, ThreadAssumption DEF IInv, Mutex, Critical, Creates, Thread
  <1>3. /\ pc' \in [Thread -> Label] /\ pc'[c] = "announce" /\ Mutex'
        /\ Creating(c)' /\ Polling(c)' /\ Cancelling(c)' => Operations'
    BY <1>1, <1>2, HolderStep DEF Label
  <1>4. /\ work # <<>>
        /\ \A n \in DOMAIN work :
             /\ booked[work[n].id] = 0 /\ work[n].status \in {"NEW", "FILLED"}
             /\ work[n].status = "FILLED" => exch[work[n].id] = "FILLED"
             /\ stored[work[n].id] = "NONE"
    BY <1>1 DEF IInv, Operations, Creating, Creates
  <1>5. w = work[1] /\ 1 \in DOMAIN work /\ w \in Item /\ w.id \in Id /\ w.status \in Status
    BY <1>4, Remaining, Items DEF IInv
  <1>6. exch[w.id] # "NONE"
    BY <1>5 DEF IInv, Working
  <1> HIDE DEF w
  <1>7. /\ stored' \in [Id -> Status \cup {"NONE"}] /\ stored'[w.id] = w.status
        /\ \A i \in Id : i # w.id => stored'[i] = stored[i]
    BY <1>1, <1>5 DEF IInv, TypeOK
  <1>8. TypeOK'
    BY <1>1, <1>3, <1>7 DEF IInv, TypeOK
  <1>9. History'
    BY <1>1, <1>4, <1>5, <1>6, <1>7 DEF IInv, History, Settled, Ended
  <1>10. NoneForgotten'
    BY <1>1, <1>5, <1>7 DEF IInv, NoneForgotten, Working, Books
  <1>11. Working' /\ Reports'
    BY <1>1 DEF IInv, Working, Reports
  <1>12. Creating(c)'
    <2>1. \A n \in DOMAIN work : work[n].id \in Id /\ (n # 1 => work[n].id # w.id)
      BY <1>5, Items DEF IInv, Working
    <2>. QED
      BY <1>1, <1>3, <1>4, <1>5, <1>7, <2>1, Items DEF IInv, Creating
  <1>13. Polling(c)' /\ Cancelling(c)'
    BY <1>3 DEF Polling, Cancelling, Polls
  <1>. QED
    BY <1>3, <1>8, <1>9, <1>10, <1>11, <1>12, <1>13 DEF IInv

(* A leg that cannot be recorded ends the creation.                        *)
LEMMA StoreOrderFailsStep == ASSUME IInv, NEW c \in Client, StoreOrderFails(c) PROVE IInv'
  <1>1. /\ c \in Thread /\ pc[c] = "store" /\ Return(c, "idle")
        /\ UNCHANGED <<exch, stored, booked, executed, heard, status, sending, feed, crashes>>
    BY DEF StoreOrderFails, outside, Thread
  <1>2. mtx = c
    BY <1>1 DEF IInv, Mutex, Critical, Creates
  <1>3. /\ pc' \in [Thread -> Label] /\ mtx' = Free /\ work' = <<>> /\ batch' = {}
        /\ work' \in Seq(Item) /\ Mutex' /\ Working' /\ Operations'
    BY <1>1, <1>2, ReturnStep
  <1>4. TypeOK'
    BY <1>1, <1>3 DEF IInv, TypeOK
  <1>5. NoneForgotten'
    <2>1. \A n \in DOMAIN work : stored[work[n].id] = "NONE"
      BY <1>1 DEF IInv, Operations, Creating, Creates
    <2>. QED
      BY <1>1, <2>1 DEF IInv, NoneForgotten
  <1>6. History' /\ Reports'
    BY <1>1 DEF IInv, History, Reports, Settled
  <1>. QED
    BY <1>3, <1>4, <1>5, <1>6 DEF IInv

(* A leg is booked if it is executed already, before anybody hears of it.  *)
LEMMA AnnounceStep == ASSUME IInv, NEW c \in Client, Announce(c) PROVE IInv'
  <1> DEFINE w == Head(work)
  <1>1. /\ c \in Thread /\ pc[c] = "announce" /\ ProcessTrade(w)
        /\ sending' = sending \cup {w}
        /\ UNCHANGED <<exch, stored, executed, heard, status, feed, crashes>>
    BY DEF Announce, Publishes, Thread
  <1>2. mtx = c /\ c # Free
    BY <1>1, ThreadAssumption DEF IInv, Mutex, Critical, Creates, Thread
  <1>3. /\ work # <<>>
        /\ \A n \in DOMAIN work :
             /\ booked[work[n].id] = 0 /\ work[n].status \in {"NEW", "FILLED"}
             /\ work[n].status = "FILLED" => exch[work[n].id] = "FILLED"
             /\ n > 1 => stored[work[n].id] = "NONE"
        /\ stored[work[1].id] = work[1].status
    BY <1>1 DEF IInv, Operations, Creating, Creates
  <1>4. w = work[1] /\ 1 \in DOMAIN work /\ w \in Item /\ w.id \in Id
    BY <1>3, Remaining, Items DEF IInv
  <1>5. LastLeg => Return(c, "idle")
    BY DEF Announce
  <1>6. ~LastLeg => /\ work' = Tail(work) /\ pc' = [pc EXCEPT ![c] = "store"]
                    /\ UNCHANGED <<mtx, batch>>
    BY DEF Announce, Goto
  <1> HIDE DEF w
  <1>7. /\ booked' \in [Id -> Nat]
        /\ \A i \in Id : booked'[i] = IF i = w.id /\ Books(w) THEN 1 ELSE booked[i]
    BY <1>1, <1>3, <1>4, Booking DEF IInv
  <1>8. Books(w) => w.id \in executed /\ stored[w.id] = "FILLED"
    BY <1>3, <1>4 DEF IInv, History, Books
  <1>9. History'
    BY <1>1, <1>4, <1>7, <1>8 DEF IInv, History, Settled
  <1>10. NoneForgotten'
    <2> SUFFICES ASSUME crashes = 0, OnlyMarketAtOnce, NEW i \in Id,
                        stored[i] = "FILLED", booked'[i] = 0
                 PROVE  FALSE
      BY <1>1 DEF NoneForgotten
    <2>1. booked[i] = 0
      BY <1>7
    <2>2. PICK n \in DOMAIN work : work[n].id = i /\ Books(work[n])
      BY <2>1 DEF IInv, NoneForgotten
    <2>3. CASE n = 1
      BY <1>4, <1>7, <2>2, <2>3
    <2>4. CASE n # 1
      <3>1. n > 1
        BY <2>4, Items DEF IInv
      <3>. QED
        BY <1>3, <2>2, <3>1
    <2>. QED
      BY <2>3, <2>4
  <1>11. Reports'
    <2>1. /\ \A i \in Id : booked[i] = 1 => booked'[i] = 1
          /\ \A x \in sending : x.id \in Id
          /\ feed # Nobody => feed.id \in Id
      BY <1>7 DEF IInv, TypeOK, Item
    <2>2. OnlyMarketAtOnce /\ w.status = "FILLED" => booked'[w.id] = 1
      BY <1>4, <1>7 DEF IInv, Working, Books
    <2>. QED
      BY <1>1, <2>1, <2>2 DEF IInv, Reports
  <1>12. CASE LastLeg
    <2>1. /\ pc' \in [Thread -> Label] /\ mtx' = Free /\ work' = <<>> /\ batch' = {}
          /\ work' \in Seq(Item) /\ Mutex' /\ Working' /\ Operations'
      BY <1>1, <1>2, <1>5, <1>12, ReturnStep
    <2>2. TypeOK'
      BY <1>1, <1>4, <1>7, <2>1 DEF IInv, TypeOK
    <2>. QED
      BY <1>9, <1>10, <1>11, <2>1, <2>2 DEF IInv
  <1>13. CASE ~LastLeg
    <2>1. /\ pc' \in [Thread -> Label] /\ pc'[c] = "store" /\ Mutex'
          /\ Creating(c)' /\ Polling(c)' /\ Cancelling(c)' => Operations'
      <3>1. mtx' = c /\ mtx' # Free /\ "store" \in Label
        BY <1>2, <1>6, <1>13 DEF Label
      <3>. QED
        BY <1>1, <1>2, <1>6, <1>13, <3>1, HolderStep
    <2>2. /\ work' \in Seq(Item) /\ work' # <<>>
          /\ \A n \in DOMAIN work' : n + 1 \in DOMAIN work /\ n + 1 # 1 /\ work'[n] = work[n + 1]
      <3>1. work \in Seq(Item) /\ work # <<>>
        BY <1>3 DEF IInv, TypeOK
      <3>2. Len(work) # 1
        BY <1>13 DEF LastLeg
      <3>3. Tail(work) # <<>>
        <4>1. Len(Tail(work)) # 0 /\ Len(<<>>) = 0
          BY <3>1, <3>2
        <4>. QED
          BY <4>1, Zenon
      <3>4. work' = Tail(work)
        BY <1>6, <1>13
      <3>5. work' # <<>>
        BY <3>3, <3>4, Zenon
      <3>6. /\ Tail(work) \in Seq(Item)
            /\ \A n \in DOMAIN Tail(work) :
                 n + 1 \in DOMAIN work /\ n + 1 # 1 /\ Tail(work)[n] = work[n + 1]
        BY <1>3, Remaining DEF IInv
      <3>7. work' \in Seq(Item)
        BY <3>4, <3>6
      <3>8. \A n \in DOMAIN work' : n + 1 \in DOMAIN work /\ n + 1 # 1 /\ work'[n] = work[n + 1]
        BY <3>4, <3>6
      <3>. QED
        BY <3>5, <3>7, <3>8
    <2>3. TypeOK'
      BY <1>1, <1>4, <1>6, <1>7, <1>13, <2>1, <2>2 DEF IInv, TypeOK
    <2>4. Working'
      <3>1. DOMAIN work' = 1..Len(work') /\ Len(work') \in Nat
        BY <2>2
      <3>2. \A n, m \in DOMAIN work' : n # m => n + 1 # m + 1
        BY <3>1
      <3>. QED
        BY <1>1, <1>6, <1>13, <2>2, <3>2 DEF IInv, Working
    <2>5. Creating(c)'
      <3>1. ASSUME NEW n \in DOMAIN work'
            PROVE  /\ n + 1 > 1 /\ n + 1 \in DOMAIN work /\ work'[n] = work[n + 1]
                   /\ work[n + 1].id # w.id /\ work[n + 1].id \in Id
        <4>1. n + 1 \in DOMAIN work /\ n + 1 # 1 /\ work'[n] = work[n + 1]
          BY <2>2
        <4>2. n + 1 > 1
          BY <4>1, Items DEF IInv
        <4>. QED
          BY <1>4, <4>1, <4>2, Items DEF IInv, Working
      <3>. QED
        BY <1>1, <1>3, <1>7, <2>1, <2>2, <3>1 DEF Creating
    <2>6. Polling(c)' /\ Cancelling(c)'
      BY <2>1 DEF Polling, Cancelling, Polls
    <2>. QED
      BY <1>9, <1>10, <1>11, <2>1, <2>3, <2>4, <2>5, <2>6 DEF IInv
  <1>. QED
    BY <1>12, <1>13

(* The exchange accepts a cancellation: the order had not ended, or the    *)
(* exchange is the paper wallet.                                           *)
LEMMA CancelStep == ASSUME IInv, NEW c \in Client, NEW i \in Id, Cancel(c, i) PROVE IInv'
  <1>1. /\ c \in Thread /\ mtx = Free /\ mtx' = c /\ batch = {} /\ batch' = {}
        /\ stored[i] # "NONE" /\ (exch[i] \in Open \/ CancelsFilled)
        /\ exch' = [exch EXCEPT ![i] = "CANCELED"]
        /\ work' = <<CancelItem(i)>> /\ pc' = [pc EXCEPT ![c] = "cancel"]
        /\ UNCHANGED <<stored, booked, executed, heard, status, sending, feed, crashes>>
    BY DEF Cancel, CancelAccepted, Acquire, Goto, Thread, IInv, Mutex
  <1>2. /\ pc' \in [Thread -> Label] /\ pc'[c] = "cancel" /\ Mutex'
        /\ Creating(c)' /\ Polling(c)' /\ Cancelling(c)' => Operations'
    <2>1. c # Free /\ "cancel" \in Label
      BY <1>1, ThreadAssumption DEF Thread, Label
    <2>. QED
      BY <1>1, <2>1, HolderStep
  <1>3. /\ CancelItem(i) \in Item /\ CancelItem(i).id = i
        /\ CancelItem(i).status = "PENDING_CANCEL"
    BY DEF CancelItem, Item, Status
  <1>4. work' \in Seq(Item) /\ DOMAIN work' = {1} /\ work'[1] = CancelItem(i) /\ Len(work') = 1
    BY <1>1, <1>3
  <1>5. /\ exch' \in [Id -> ExchangeStatus \cup {"NONE"}] /\ exch'[i] = "CANCELED"
        /\ \A j \in Id : j # i => exch'[j] = exch[j]
    BY <1>1 DEF IInv, TypeOK, ExchangeStatus
  <1>6. TypeOK'
    BY <1>1, <1>2, <1>4, <1>5 DEF IInv, TypeOK
  <1>7. ~CancelsFilled => stored[i] \notin Ended /\ i \notin executed
    BY <1>1 DEF IInv, History, Ended, Open
  <1>8. History'
    BY <1>1, <1>5, <1>7 DEF IInv, History, Settled, Ended
  <1>9. NoneForgotten'
    BY <1>1 DEF IInv, NoneForgotten, Mutex
  <1>10. Working'
    BY <1>1, <1>3, <1>4, <1>5 DEF Working
  <1>11. Cancelling(c)'
    BY <1>1, <1>3, <1>4, <1>5, <1>7 DEF Cancelling
  <1>12. Creating(c)' /\ Polling(c)'
    BY <1>2 DEF Creating, Polling, Creates, Polls
  <1>13. Reports'
    BY <1>1 DEF IInv, Reports
  <1>. QED
    BY <1>2, <1>6, <1>8, <1>9, <1>10, <1>11, <1>12, <1>13 DEF IInv

(* What writing the status of a cancellation does to the storage.          *)
LEMMA Rewritten ==
  ASSUME NEW f \in [Id -> Status \cup {"NONE"}], NEW g, NEW i \in Id,
         g = f \/ g = [f EXCEPT ![i] = "PENDING_CANCEL"]
  PROVE  /\ g \in [Id -> Status \cup {"NONE"}]
         /\ \A j \in Id : g[j] = f[j] \/ (j = i /\ g[j] = "PENDING_CANCEL")
  BY DEF Status

(* The copy that is written back never replaces an end, except of an order *)
(* that was cancelled after it was executed.                               *)
LEMMA StoreCancelStep == ASSUME IInv, NEW c \in Client, StoreCancel(c) PROVE IInv'
  <1>1. /\ c \in Thread /\ pc[c] = "cancel" /\ Return(c, "idle")
        /\ \/ stored' = [stored EXCEPT ![work[1].id] = "PENDING_CANCEL"]
           \/ UNCHANGED stored
        /\ Len(work) = 1 /\ work[1].status = "PENDING_CANCEL"
        /\ exch[work[1].id] = "CANCELED"
        /\ UNCHANGED <<exch, booked, executed, heard, status, sending, feed, crashes>>
    <2>1. c \in Thread /\ pc[c] = "cancel"
      BY DEF StoreCancel, Thread
    <2>2. /\ Len(work) = 1 /\ work[1].status = "PENDING_CANCEL"
          /\ exch[work[1].id] = "CANCELED"
      BY <2>1 DEF IInv, Operations, Cancelling
    <2>3. work # <<>>
      BY <2>2
    <2>4. Head(work) = work[1]
      BY <2>3, Remaining DEF IInv
    <2>. QED
      BY <2>1, <2>2, <2>4 DEF StoreCancel
  <1>2. mtx = c
    BY <1>1 DEF IInv, Mutex, Critical
  <1>3. /\ pc' \in [Thread -> Label] /\ mtx' = Free /\ work' = <<>> /\ batch' = {}
        /\ work' \in Seq(Item) /\ Mutex' /\ Working' /\ Operations'
    BY <1>1, <1>2, ReturnStep
  <1>4. DOMAIN work = {1} /\ work[1].id \in Id
    BY <1>1, Items DEF IInv
  <1>5. /\ stored' \in [Id -> Status \cup {"NONE"}]
        /\ \A i \in Id : stored'[i] = stored[i]
                        \/ (i = work[1].id /\ stored'[i] = "PENDING_CANCEL")
    <2>1. stored \in [Id -> Status \cup {"NONE"}] /\ "PENDING_CANCEL" \in Status
      BY DEF IInv, TypeOK, Status
    <2>2. work[1].id \in Id
      BY <1>4
    <2>3. stored' = stored \/ stored' = [stored EXCEPT ![work[1].id] = "PENDING_CANCEL"]
      BY <1>1
    <2>. QED
      BY <2>1, <2>2, <2>3, Rewritten
  <1>6. TypeOK'
    BY <1>1, <1>3, <1>5 DEF IInv, TypeOK
  <1>7. History'
    BY <1>1, <1>5 DEF IInv, History, Settled, Ended
  <1>8. NoneForgotten'
    BY <1>1, <1>4, <1>5 DEF IInv, NoneForgotten, Books
  <1>9. Reports'
    BY <1>1 DEF IInv, Reports
  <1>. QED
    BY <1>3, <1>6, <1>7, <1>8, <1>9 DEF IInv

-----------------------------------------------------------------------------
(* The invariant.                                                          *)

LEMMA InitInvariant == ASSUME Init PROVE IInv
  <1>1. pc \in [Thread -> Label] /\ \A t \in Thread : pc[t] \notin Critical
    BY FreshProcess DEF Init
  <1>2. /\ work = <<>> /\ batch = {}
        /\ \A i \in Id : /\ exch[i] = "NONE" /\ stored[i] = "NONE" /\ booked[i] = 0
                         /\ i \notin executed
    BY Zenon DEF Init
  <1>3. TypeOK
    <2>1. <<>> \in Seq(Item)
      OBVIOUS
    <2>2. work \in Seq(Item)
      BY <1>2, <2>1, Zenon
    <2>. QED
      BY <1>1, <2>2 DEF Init, TypeOK
  <1>4. Mutex /\ Operations
    BY <1>1 DEF Init, Mutex, Operations, Creating, Polling, Cancelling, Critical
  <1>5. History
    BY <1>2 DEF History, Ended
  <1>6. NoneForgotten /\ Working
    <2>1. DOMAIN work = {} /\ batch = {}
      BY <1>2
    <2>2. \A i \in Id : stored[i] # "FILLED"
      BY <1>2
    <2>. QED
      BY <2>1, <2>2 DEF NoneForgotten, Working
  <1>7. Reports
    BY DEF Init, Reports
  <1>. QED
    BY <1>3, <1>4, <1>5, <1>6, <1>7 DEF IInv

LEMMA RequestStep == ASSUME IInv, NEW c \in Client, ClientRequest(c) PROVE IInv'
  <1>1. CASE \E i \in Id : Cancel(c, i)
    BY <1>1, CancelStep
  <1>2. ASSUME NEW method \in Method, NEW s \in {"NEW", "FILLED"}, NEW i \in Id,
               CreateOrder(c, method, <<i>>, s)
        PROVE  IInv'
    <2> DEFINE ids == <<i>>
    <2>1. ids \in Seq(Id) /\ \A k, n \in DOMAIN ids : k # n => ids[k] # ids[n]
      OBVIOUS
    <2> HIDE DEF ids
    <2>2. CreateOrder(c, method, ids, s)
      BY <1>2 DEF ids
    <2>. QED
      BY <2>1, <2>2, CreateOrderStep
  <1>3. ASSUME NEW method \in Method, NEW s \in {"NEW", "FILLED"}, NEW i \in Id, NEW j \in Id,
               i # j, CreateOrder(c, method, <<i, j>>, s)
        PROVE  IInv'
    <2> DEFINE ids == <<i, j>>
    <2>1. ids \in Seq(Id) /\ \A k, n \in DOMAIN ids : k # n => ids[k] # ids[n]
      BY <1>3
    <2> HIDE DEF ids
    <2>2. CreateOrder(c, method, ids, s)
      BY <1>3 DEF ids
    <2>. QED
      BY <2>1, <2>2, CreateOrderStep
  <1>. QED
    BY <1>1, <1>2, <1>3 DEF ClientRequest

LEMMA PollStepKeeps ==
  ASSUME IInv, NEW t \in Commander \cup Poller, PollStep(t)
  PROVE  IInv'
  BY PollBeginStep, PollSkipsStep, PollUpdatesStep, PollComparedStep, PollBooksStep,
     PollPublishesStep, PollEndStep DEF PollStep

LEMMA NextInvariant == ASSUME IInv, [Next]_vars PROVE IInv'
  <1>1. CASE \E i \in Id, s \in ExchangeStatus : Progress(i, s)
    BY <1>1, ProgressStep
  <1>2. CASE \E c \in Client : ClientRequest(c) \/ ClientStep(c)
    BY <1>2, RequestStep, StoreOrderStep, StoreOrderFailsStep, AnnounceStep, StoreCancelStep
       DEF ClientStep
  <1>3. CASE \/ \E k \in Commander : StartBegin(k) \/ StopBegin(k) \/ StopMarks(k)
             \/ \E k \in Commander, p \in Poller : StartEnd(k, p) \/ StopEnd(k, p)
             \/ \E p \in Poller : Tick(p)
    BY <1>3, CommandStep
  <1>4. CASE \E t \in Commander \cup Poller : PollStep(t) \/ PollFails(t)
    BY <1>4, PollStepKeeps, CrashStep DEF PollFails
  <1>5. CASE \E w \in sending : Publish(w)
    BY <1>5, PublishStep
  <1>6. CASE Deliver
    BY <1>6, DeliverStep
  <1>7. CASE Crash
    BY <1>7, CrashStep
  <1>8. CASE UNCHANGED vars
    <2>1. /\ pc' = pc /\ status' = status
          /\ UNCHANGED <<outside, mtx, batch, work, sending, feed, crashes>>
      BY <1>8 DEF vars, outside
    <2>2. pc' \in [Thread -> Label] /\ status' \in {"", "running", "stopped"}
      BY <2>1 DEF IInv, TypeOK
    <2>. QED
      BY <2>1, <2>2, QuietStep
  <1>. QED
    BY <1>1, <1>2, <1>3, <1>4, <1>5, <1>6, <1>7, <1>8 DEF Next

(* Every reachable state satisfies the invariant.                          *)
THEOREM Invariant == Spec => []IInv
  <1>1. Init => IInv
    BY InitInvariant
  <1>2. IInv /\ [Next]_vars => IInv'
    BY NextInvariant
  <1>. QED
    BY <1>1, <1>2, PTL DEF Spec

-----------------------------------------------------------------------------
(* What the invariant implies.                                             *)

(* The type invariant: whatever the threads do, the statuses, the orders   *)
(* the mutex's holder works on and the feed's are what the code takes them *)
(* for (order/controller.go, order/feed.go).                               *)
THEOREM ControllerTypes == Spec => []TypeOK
  BY Invariant, PTL DEF IInv

(* Between two operations exactly the orders recorded as executed are      *)
(* booked in Results, for any number of pollers and clients.               *)
THEOREM StorageAndResultsAgree == Spec => []ResultsAgree
  <1>1. IInv => ResultsAgree
    <2> SUFFICES ASSUME IInv, mtx = Free, crashes = 0, OnlyMarketAtOnce, ~CancelsFilled,
                        NEW i \in Id
                 PROVE  stored[i] = "FILLED" <=> booked[i] = 1
      BY DEF ResultsAgree, OnlyMarketAtOnce
    <2>1. work = <<>>
      BY DEF IInv, Mutex
    <2>2. stored[i] = "FILLED" => booked[i] # 0
      BY <2>1 DEF IInv, NoneForgotten
    <2>3. booked[i] = 1 => stored[i] = "FILLED"
      BY DEF IInv, History, Settled
    <2>. QED
      BY <2>2, <2>3 DEF IInv, History
  <1>. QED
    BY <1>1, Invariant, PTL

(* Who is told of an execution by the order feed finds the trade in        *)
(* Results and the execution in the storage.                               *)
THEOREM HeardTradesAreBooked == Spec => []HeardIsBooked
  <1>1. IInv => HeardIsBooked
    BY DEF IInv, HeardIsBooked, OnlyMarketAtOnce, Reports, History, Settled
  <1>. QED
    BY <1>1, Invariant, PTL

-----------------------------------------------------------------------------
(* What a step does to the ends and the trades.                            *)

(* The steps that change what the exchange, the storage or the results     *)
(* know of an order.                                                       *)
LEMMA Deeds ==
  ASSUME [Next]_vars
  PROVE  \/ \E i \in Id, s \in ExchangeStatus : Progress(i, s)
         \/ \E c \in Client : ClientRequest(c) \/ StoreOrder(c) \/ Announce(c) \/ StoreCancel(c)
         \/ \E t \in Commander \cup Poller : PollBooks(t) \/ \E i \in Id : PollUpdates(t, i)
         \/ UNCHANGED <<exch, stored, booked, executed>>
  <1> DEFINE Idle == UNCHANGED <<exch, stored, booked, executed>>
  <1>1. ASSUME NEW k \in Commander, StartBegin(k) \/ StopBegin(k) \/ StopMarks(k)
        PROVE  Idle
    BY <1>1 DEF StartBegin, StopBegin, StopMarks, outside
  <1>2. ASSUME NEW k \in Commander, NEW p \in Poller, StartEnd(k, p) \/ StopEnd(k, p)
        PROVE  Idle
    BY <1>2 DEF StartEnd, StopEnd, outside
  <1>3. ASSUME NEW p \in Poller, Tick(p) PROVE Idle
    BY <1>3 DEF Tick, outside
  <1>4. ASSUME NEW c \in Client, StoreOrderFails(c) PROVE Idle
    BY <1>4 DEF StoreOrderFails, outside
  <1>5. Crash \/ UNCHANGED vars => Idle
    BY DEF Crash, vars, outside
  <1>6. ASSUME NEW t \in Commander \cup Poller,
               PollBegin(t) \/ PollCompared(t) \/ PollPublishes(t) \/ PollEnd(t)
        PROVE  Idle
    BY <1>6 DEF PollBegin, PollCompared, PollPublishes, PollEnd, outside
  <1>7. ASSUME NEW t \in Commander \cup Poller, NEW i \in Id, PollSkips(t, i) PROVE Idle
    BY <1>7 DEF PollSkips, outside
  <1>8. ASSUME NEW w \in sending, Publish(w) PROVE Idle
    BY <1>8 DEF Publish, outside
  <1>9. Deliver => Idle
    BY DEF Deliver
  <1> HIDE DEF Idle
  <1>10. ASSUME NEW t \in Commander \cup Poller, PollStep(t) \/ PollFails(t)
         PROVE  PollBooks(t) \/ (\E i \in Id : PollUpdates(t, i)) \/ Idle
    BY <1>5, <1>6, <1>7, <1>10 DEF PollStep, PollFails
  <1>. QED
    BY <1>1, <1>2, <1>3, <1>4, <1>5, <1>8, <1>9, <1>10 DEF Next, ClientStep, Idle

(* An end the exchange and the storage agree on: no action changes either. *)
LEMMA EndStep ==
  ASSUME IInv, [Next]_vars, ~CancelsFilled, NEW i \in Id, stored[i] \in Ended
  PROVE  stored'[i] = stored[i] /\ exch'[i] = stored[i]
  <1>1. exch[i] = stored[i] /\ exch[i] \in Ended
    BY DEF IInv, History
  <1>2. ASSUME NEW j \in Id, NEW s \in ExchangeStatus, Progress(j, s)
        PROVE  stored' = stored /\ exch'[i] = exch[i]
    BY <1>1, <1>2 DEF Progress, Ended, Open, IInv, TypeOK
  <1>3. ASSUME NEW c \in Client, ClientRequest(c) PROVE stored' = stored /\ exch'[i] = exch[i]
    <2>1. ASSUME NEW j \in Id, Cancel(c, j) PROVE stored' = stored /\ exch'[i] = exch[i]
      BY <1>1, <2>1 DEF Cancel, CancelAccepted, Ended, Open, IInv, TypeOK
    <2>2. ASSUME NEW method, NEW s, NEW ids, CreateOrder(c, method, ids, s)
          PROVE  stored' = stored /\ exch'[i] = exch[i]
      BY <1>1, <2>2 DEF CreateOrder, Ended
    <2>. QED
      BY <1>3, <2>1, <2>2 DEF ClientRequest
  <1>4. ASSUME NEW c \in Client, StoreOrder(c) \/ Announce(c) \/ StoreCancel(c)
        PROVE  stored'[i] = stored[i] /\ exch' = exch
    <2>1. c \in Thread
      BY DEF Thread
    <2>2. CASE Announce(c)
      BY <2>2 DEF Announce
    <2>3. CASE StoreOrder(c)
      <3>1. work # <<>> /\ stored[work[1].id] = "NONE"
        BY <2>1, <2>3, Items DEF IInv, StoreOrder, Operations, Creating, Creates
      <3>2. Head(work) = work[1] /\ work[1].id # i
        BY <3>1, Remaining DEF IInv, Ended
      <3>. QED
        BY <2>3, <3>2 DEF StoreOrder, IInv, TypeOK
    <2>4. CASE StoreCancel(c)
      <3>1. Len(work) = 1 /\ work[1].id # i
        BY <2>1, <2>4 DEF IInv, StoreCancel, Operations, Cancelling
      <3>2. work # <<>>
        BY <3>1
      <3>3. Head(work) = work[1]
        BY <3>2, Remaining DEF IInv
      <3>. QED
        BY <2>4, <3>1, <3>3 DEF StoreCancel, IInv, TypeOK
    <2>. QED
      BY <1>4, <2>2, <2>3, <2>4
  <1>5. ASSUME NEW t \in Commander \cup Poller, PollBooks(t) \/ \E j \in Id : PollUpdates(t, j)
        PROVE  stored'[i] = stored[i] /\ exch' = exch
    BY <1>1, <1>5 DEF PollBooks, PollUpdates, IInv, TypeOK
  <1>. QED
    BY <1>1, <1>2, <1>3, <1>4, <1>5, Deeds

(* The end the storage records is final, if the exchange does not cancel   *)
(* what it executed: no stale copy that Cancel writes back, and no other   *)
(* poller, overwrites it (Cancel and updateOrders in order/controller.go). *)
THEOREM EndsAreFinal == Spec => EndIsFinal
  <1>1. IInv /\ [Next]_vars =>
          [\A i \in Id : stored[i] \in {"FILLED", "CANCELED"} /\ ~CancelsFilled
                           => stored'[i] = stored[i] /\ exch'[i] = stored[i]]_vars
    BY EndStep DEF Ended
  <1>. QED
    BY <1>1, Invariant, PTL DEF Spec, EndIsFinal

-----------------------------------------------------------------------------
(* The results implement the trade book.                                   *)

Trades == {i \in Id : booked[i] = 1}

(* processTrade is given an order that was not booked before, and, if it   *)
(* is executed, one the exchange executed.                                 *)
LEMMA TradeStep ==
  ASSUME IInv, NEW w \in Item, ProcessTrade(w), booked[w.id] = 0,
         Books(w) => w.id \in executed, executed' = executed
  PROVE  (\E i \in Id : Book!Book(i)) \/ UNCHANGED <<executed, Trades>>
  <1>1. w.id \in Id /\ \A i \in Id : booked'[i] = IF i = w.id /\ Books(w) THEN 1 ELSE booked[i]
    BY Booking DEF IInv, Item
  <1>2. CASE Books(w)
    BY <1>1, <1>2 DEF Book!Book, Trades
  <1>3. CASE ~Books(w)
    BY <1>1, <1>3 DEF Trades
  <1>. QED
    BY <1>2, <1>3

(* Each step books one executed order, executes orders or does neither.    *)
LEMMA BookStep ==
  ASSUME IInv, [Next]_vars
  PROVE  [Book!Next]_<<executed, Trades>>
  <1>1. ASSUME NEW i \in Id, NEW s \in ExchangeStatus, Progress(i, s)
        PROVE  Book!Next \/ UNCHANGED <<executed, Trades>>
    <2>1. i \notin executed
      BY <1>1 DEF Progress, IInv, History, Open, Ended
    <2>2. Trades' = Trades
      BY <1>1 DEF Progress, Trades
    <2>3. s = "FILLED" => Book!Fill({i})
      BY <1>1, <2>1, <2>2 DEF Progress, Book!Fill, Trades
    <2>4. s # "FILLED" => executed' = executed
      BY <1>1 DEF Progress
    <2>. QED
      BY <2>2, <2>3, <2>4 DEF Book!Next
  <1>2. ASSUME NEW c \in Client, ClientRequest(c)
        PROVE  Book!Next \/ UNCHANGED <<executed, Trades>>
    <2>1. ASSUME NEW j \in Id, Cancel(c, j) PROVE UNCHANGED <<executed, Trades>>
      BY <2>1 DEF Cancel, Trades
    <2>2. ASSUME NEW method, NEW s, NEW ids \in Seq(Id), CreateOrder(c, method, ids, s)
          PROVE  Book!Next \/ UNCHANGED <<executed, Trades>>
      <3> DEFINE Ids == {ids[k] : k \in DOMAIN ids}
      <3>1. Ids \in SUBSET Id
        BY <2>2
      <3>2. /\ \A i \in Ids : exch[i] = "NONE"
            /\ executed' = IF s = "FILLED" THEN executed \cup Ids ELSE executed
            /\ Trades' = Trades
        BY <2>2 DEF CreateOrder, Trades
      <3> HIDE DEF Ids
      <3>3. Ids \cap executed = {}
        BY <3>1, <3>2 DEF IInv, History, Ended
      <3>. QED
        BY <3>1, <3>2, <3>3 DEF Book!Next, Book!Fill, Trades
    <2>3. \A i, j \in Id : <<i>> \in Seq(Id) /\ <<i, j>> \in Seq(Id)
      OBVIOUS
    <2>. QED
      BY <1>2, <2>1, <2>2, <2>3 DEF ClientRequest
  <1>3. ASSUME NEW c \in Client, Announce(c)
        PROVE  Book!Next \/ UNCHANGED <<executed, Trades>>
    <2>1. work # <<>>
      BY <1>3 DEF IInv, Announce, Operations, Creating, Creates, Thread
    <2>2. Head(work) = work[1] /\ 1 \in DOMAIN work /\ work[1] \in Item /\ work[1].id \in Id
      BY <2>1, Remaining, Items DEF IInv
    <2>3. /\ booked[work[1].id] = 0
          /\ work[1].status = "FILLED" => exch[work[1].id] = "FILLED"
      BY <1>3, <2>2 DEF IInv, Announce, Operations, Creating, Creates, Thread
    <2>4. Books(work[1]) => work[1].id \in executed
      BY <2>2, <2>3 DEF IInv, History, Books
    <2>5. ProcessTrade(work[1]) /\ executed' = executed
      BY <1>3, <2>2 DEF Announce
    <2>. QED
      BY <2>2, <2>3, <2>4, <2>5, TradeStep DEF Book!Next
  <1>4. ASSUME NEW t \in Commander \cup Poller, PollBooks(t)
        PROVE  Book!Next \/ UNCHANGED <<executed, Trades>>
    <2>1. work # <<>> /\ pc[t] = "book" /\ t \in Thread
      BY <1>4 DEF PollBooks, Thread
    <2>2. Head(work) = work[1] /\ 1 \in DOMAIN work /\ work[1] \in Item /\ work[1].id \in Id
      BY <2>1, Remaining, Items DEF IInv
    <2>3. ProcessTrade(work[1]) /\ executed' = executed
      BY <1>4, <2>2 DEF PollBooks
    <2>4. CASE Books(work[1])
      <3>1. work[1].id \in executed /\ booked[work[1].id] = 0
        BY <2>1, <2>2, <2>4 DEF IInv, Operations, Polling, Polls, Books
      <3>. QED
        BY <2>2, <2>3, <3>1, TradeStep DEF Book!Next
    <2>5. CASE ~Books(work[1])
      BY <2>3, <2>5 DEF ProcessTrade, Trades
    <2>. QED
      BY <2>4, <2>5
  <1>5. ASSUME NEW c \in Client, StoreOrder(c) \/ StoreCancel(c)
        PROVE  UNCHANGED <<executed, Trades>>
    BY <1>5 DEF StoreOrder, StoreCancel, Trades
  <1>6. ASSUME NEW t \in Commander \cup Poller, NEW i \in Id, PollUpdates(t, i)
        PROVE  UNCHANGED <<executed, Trades>>
    BY <1>6 DEF PollUpdates, Trades
  <1>7. UNCHANGED <<exch, stored, booked, executed>> => UNCHANGED <<executed, Trades>>
    BY DEF Trades
  <1>. QED
    BY <1>1, <1>2, <1>3, <1>4, <1>5, <1>6, <1>7, Deeds

(* Results books a trade once, and only after the exchange executed the    *)
(* order: by whichever poller, by Stop or by the creation of a market      *)
(* order, whatever fails and however often the process dies.               *)
THEOREM ImplementsTradeBook == Spec => BookedOnce
  <1>1. Init => Book!Init
    <2> SUFFICES ASSUME Init PROVE Book!Init
      OBVIOUS
    <2>1. executed = {} /\ \A i \in Id : booked[i] = 0
      BY Zenon DEF Init
    <2>2. {i \in Id : booked[i] = 1} = {}
      BY <2>1
    <2>. QED
      BY <2>1, <2>2 DEF Book!Init
  <1>2. IInv /\ [Next]_vars => [Book!Next]_<<executed, {i \in Id : booked[i] = 1}>>
    BY BookStep DEF Trades
  <1>. QED
    BY <1>1, <1>2, Invariant, PTL DEF Spec, BookedOnce, Book!Spec

-----------------------------------------------------------------------------
(* One poller.                                                             *)

(* The commander is between its check of the status and the end of Stop.   *)
Stops == {"lock", "compare", "book", "publish", "finish"}

OneRuns == \E p \in Poller : Running = {p}

(* The only commander k decides alone: what it read of the status is true  *)
(* until it changes it, and there is a poller from Start to Stop's end.    *)
Commands(k) ==
  \/ pc[k] \in {"idle", "starting"} /\ status # "running" /\ Running = {}
  \/ pc[k] \in {"idle", "stopping"} /\ status = "running" /\ OneRuns
  \/ pc[k] \in Stops /\ status = "stopped" /\ OneRuns

CommandInv == \A k \in Commander : Commander = {k} => Commands(k)

LEMMA CommandInit == ASSUME Init PROVE CommandInv
  <1>1. \A k \in Commander : pc[k] = "idle"
    BY ThreadAssumption DEF Init, Fresh, Thread
  <1>2. Running = {}
    BY DEF Init, Fresh, Thread, Running
  <1>. QED
    BY <1>1, <1>2, Zenon DEF Init, CommandInv, Commands

(* What leaves the commander, the status and who runs as they are.         *)
LEMMA CommandsKept ==
  ASSUME CommandInv, status' = status, Running' = Running, \A k \in Commander : pc'[k] = pc[k]
  PROVE  CommandInv'
  BY DEF CommandInv, Commands, OneRuns

LEMMA CommandPolls ==
  ASSUME IInv, CommandInv, NEW t \in Commander \cup Poller, PollStep(t)
  PROVE  CommandInv'
  <1>1. /\ status' = status /\ pc' \in [Thread -> Label]
        /\ \A u \in Thread : u # t => pc'[u] = pc[u]
        /\ pc[t] \in {"lock", "compare", "book", "publish"}
        /\ pc'[t] \in {"compare", "book", "publish", IF t \in Poller THEN "select" ELSE "finish"}
    BY DEF IInv, TypeOK, Thread, Label, PollStep, PollBegin, PollSkips, PollUpdates,
           PollCompared, PollBooks, PollPublishes, PollEnd, Return, Goto, Acquire
  <1>2. Running' = Running
    BY <1>1 DEF Running, Thread
  <1>3. CASE t \in Poller
    <2>1. \A k \in Commander : pc'[k] = pc[k]
      BY <1>1, <1>3, ThreadAssumption DEF Thread
    <2>. QED
      BY <1>1, <1>2, <2>1, CommandsKept
  <1>4. CASE t \in Commander
    <2> SUFFICES ASSUME NEW k \in Commander, Commander = {k} PROVE Commands(k)'
      BY DEF CommandInv
    <2>1. t = k /\ t \notin Poller
      BY <1>4, ThreadAssumption
    <2>2. pc[k] \in Stops /\ status = "stopped" /\ OneRuns
      BY <1>1, <2>1 DEF CommandInv, Commands
    <2>. QED
      BY <1>1, <1>2, <2>1, <2>2 DEF Commands, Stops, OneRuns
  <1>. QED
    BY <1>3, <1>4

LEMMA CommandStarts ==
  ASSUME IInv, CommandInv, NEW k \in Commander,
         \/ StartBegin(k) \/ StopBegin(k) \/ StopMarks(k)
         \/ \E p \in Poller : StartEnd(k, p) \/ StopEnd(k, p)
  PROVE  CommandInv'
  <1> SUFFICES ASSUME Commander = {k} PROVE Commands(k)'
    BY DEF CommandInv
  <1>1. Commands(k) /\ k \in Thread /\ k \notin Poller /\ pc \in [Thread -> Label]
    BY ThreadAssumption DEF CommandInv, Thread, IInv, TypeOK
  <1>2. CASE StartBegin(k) \/ StopBegin(k) \/ StopMarks(k)
    <2>1. /\ pc' = [pc EXCEPT ![k] = pc'[k]]
          /\ \/ pc[k] = "idle" /\ status # "running" /\ pc'[k] = "starting" /\ status' = status
             \/ pc[k] = "idle" /\ status = "running" /\ pc'[k] = "stopping" /\ status' = status
             \/ pc[k] = "stopping" /\ pc'[k] = "lock" /\ status' = "stopped"
      BY <1>1, <1>2 DEF StartBegin, StopBegin, StopMarks, Goto, MayStart, MayStop
    <2>2. Running' = Running
      BY <1>1, <2>1 DEF Running, Thread
    <2>. QED
      BY <1>1, <2>1, <2>2 DEF Commands, Stops, OneRuns
  <1>3. ASSUME NEW p \in Poller, StartEnd(k, p) PROVE Commands(k)'
    <2>1. pc' = [pc EXCEPT ![k] = "idle", ![p] = "select"] /\ status' = "running"
          /\ pc[k] = "starting" /\ p \in Thread /\ p # k
      BY <1>1, <1>3 DEF StartEnd, Thread
    <2>2. Running = {}
      BY <1>1, <2>1 DEF Commands, Stops
    <2>3. Running' = {p}
      BY <1>1, <2>1, <2>2 DEF Running, Thread
    <2>. QED
      BY <1>1, <2>1, <2>3 DEF Commands, OneRuns
  <1>4. ASSUME NEW p \in Poller, StopEnd(k, p) PROVE Commands(k)'
    <2>1. pc' = [pc EXCEPT ![k] = "idle", ![p] = "done"] /\ status' = status
          /\ pc[k] = "finish" /\ pc[p] = "select" /\ p \in Thread /\ p # k
      BY <1>1, <1>4 DEF StopEnd, Thread
    <2>2. status = "stopped" /\ OneRuns
      BY <1>1, <2>1 DEF Commands
    <2>3. Running = {p}
      BY <2>1, <2>2 DEF OneRuns, Running
    <2>4. Running' = {}
      BY <1>1, <2>1, <2>3 DEF Running, Thread
    <2>. QED
      BY <1>1, <2>1, <2>2, <2>4 DEF Commands
  <1>. QED
    BY <1>2, <1>3, <1>4

LEMMA CommandNext == ASSUME IInv, CommandInv, [Next]_vars PROVE CommandInv'
  <1>0. pc \in [Thread -> Label]
    BY DEF IInv, TypeOK
  <1>1. CASE \E i \in Id, s \in ExchangeStatus : Progress(i, s)
    BY <1>1, CommandsKept DEF Progress, Running
  <1>2. CASE \E c \in Client : ClientRequest(c) \/ ClientStep(c)
    <2>1. PICK c \in Client : ClientRequest(c) \/ ClientStep(c)
      BY <1>2
    <2>2. status' = status /\ \A t \in Thread \ {c} : pc'[t] = pc[t]
      <3>1. ASSUME NEW m, NEW ids, NEW s, CreateOrder(c, m, ids, s)
            PROVE  status' = status /\ \A t \in Thread \ {c} : pc'[t] = pc[t]
        BY <1>0, <3>1 DEF CreateOrder, Goto
      <3>2. ASSUME NEW i, Cancel(c, i)
            PROVE  status' = status /\ \A t \in Thread \ {c} : pc'[t] = pc[t]
        BY <1>0, <3>2 DEF Cancel, Goto
      <3>3. CASE ClientStep(c)
        BY <1>0, <3>3 DEF ClientStep, StoreOrder, StoreOrderFails, Announce, StoreCancel,
                          Return, Goto
      <3>. QED
        BY <2>1, <3>1, <3>2, <3>3 DEF ClientRequest
    <2>3. c \notin Commander \cup Poller
      BY ThreadAssumption
    <2>4. \A t \in Commander \cup Poller : pc'[t] = pc[t]
      BY <2>2, <2>3 DEF Thread
    <2>5. Running' = Running
      BY <2>4 DEF Running
    <2>. QED
      BY <2>2, <2>4, <2>5, CommandsKept
  <1>3. CASE \/ \E k \in Commander : StartBegin(k) \/ StopBegin(k) \/ StopMarks(k)
             \/ \E k \in Commander, p \in Poller : StartEnd(k, p) \/ StopEnd(k, p)
    BY <1>3, CommandStarts
  <1>4. CASE \E p \in Poller : Tick(p)
    <2>1. PICK p \in Poller : Tick(p)
      BY <1>4
    <2>2. pc[p] = "select" /\ pc' = [pc EXCEPT ![p] = "lock"] /\ status' = status
      BY <2>1 DEF Tick, Goto
    <2>3. \A k \in Commander : pc'[k] = pc[k]
      BY <1>0, <2>2, ThreadAssumption DEF Thread
    <2>4. Running' = Running
      BY <1>0, <2>2 DEF Running, Thread
    <2>. QED
      BY <2>2, <2>3, <2>4, CommandsKept
  <1>5. CASE \E t \in Commander \cup Poller : PollStep(t)
    BY <1>5, CommandPolls
  <1>6. CASE Crash \/ \E t \in Commander \cup Poller : PollFails(t)
    <2>1. status' = "" /\ pc' = Fresh
      BY <1>6 DEF Crash, PollFails
    <2>2. \A k \in Commander : pc'[k] = "idle"
      BY <2>1, ThreadAssumption DEF Fresh, Thread
    <2>3. Running' = {}
      BY <2>1 DEF Fresh, Thread, Running
    <2>. QED
      BY <2>1, <2>2, <2>3 DEF CommandInv, Commands
  <1>7. CASE Deliver \/ (\E w \in sending : Publish(w)) \/ UNCHANGED vars
    <2>1. status' = status /\ pc' = pc
      BY <1>7 DEF Deliver, Publish, vars
    <2>. QED
      BY <2>1, CommandsKept DEF Running
  <1>. QED
    BY <1>1, <1>2, <1>3, <1>4, <1>5, <1>6, <1>7 DEF Next

(* OnePoller: with one thread that gives the commands, Start and Stop      *)
(* leave one poller while the controller runs and none when it stopped     *)
(* (controller.go:327-353), although neither holds the mutex.              *)
THEOREM OnePollerRuns == Spec => []OnePoller
  <1>1. Init => CommandInv
    BY CommandInit
  <1>2. IInv /\ CommandInv /\ [Next]_vars => CommandInv'
    BY CommandNext
  <1>3. CommandInv => OnePoller
    <2> SUFFICES ASSUME CommandInv, NEW k \in Commander, Commander = {k}, pc[k] = "idle"
                 PROVE  Cardinality(Running) = IF status = "running" THEN 1 ELSE 0
      BY DEF OnePoller
    <2>1. IF status = "running" THEN OneRuns ELSE Running = {}
      BY DEF CommandInv, Commands, Stops
    <2>. QED
      BY <2>1, FS_EmptySet, FS_Singleton DEF OneRuns
  <1>. QED
    BY <1>1, <1>2, <1>3, Invariant, PTL DEF Spec

-----------------------------------------------------------------------------
(* Orphans.                                                                *)

(* The orders of the operation under way are recorded.                     *)
AllRecorded == \A n \in DOMAIN work : stored[work[n].id] # "NONE"

Follows == Polls \cup {"cancel"}

(* Each crash so far orphaned at most two orders; the next one orphans     *)
(* those of the operation under way that are not recorded, of which only a *)
(* creation has some.                                                      *)
OrphanInv ==
  /\ IsFiniteSet(Orphans) /\ Cardinality(Orphans) <= 2 * crashes
  /\ AllRecorded \/ Len(work) <= 2
  /\ \A t \in Thread : pc[t] \in Follows => AllRecorded

LEMMA NoWork == work = <<>> => AllRecorded /\ Len(work) <= 2
  <1>1. work = <<>> => DOMAIN work = {} /\ Len(work) = 0
    OBVIOUS
  <1>. QED
    BY <1>1 DEF AllRecorded

LEMMA OrphanInit == ASSUME Init PROVE OrphanInv
  <1>1. work = <<>> /\ crashes = 0 /\ AllRecorded
    BY NoWork DEF Init
  <1>2. Orphans = {}
    BY DEF Init, Orphans
  <1>. QED
    BY <1>1, <1>2, FS_EmptySet DEF OrphanInv

(* While no order becomes an orphan the count stays.                       *)
LEMMA FewOrphans ==
  ASSUME OrphanInv, crashes' = crashes, crashes \in Nat, Orphans' \subseteq Orphans
  PROVE  IsFiniteSet(Orphans)' /\ (Cardinality(Orphans) <= 2 * crashes)'
  <1>1. IsFiniteSet(Orphans') /\ Cardinality(Orphans') <= Cardinality(Orphans)
    BY FS_Subset DEF OrphanInv
  <1>2. Cardinality(Orphans) \in Nat /\ Cardinality(Orphans') \in Nat
    BY <1>1, FS_CardinalityType DEF OrphanInv
  <1>. QED
    BY <1>1, <1>2 DEF OrphanInv

(* A step that changes neither the operation under way nor what is         *)
(* recorded.                                                               *)
LEMMA OrphansKept ==
  ASSUME IInv, OrphanInv, UNCHANGED <<stored, work, crashes>>,
         \A i \in Id : exch[i] = "NONE" <=> exch'[i] = "NONE",
         \A t \in Thread : pc'[t] \in Follows => pc[t] \in Follows \/ work = <<>>
  PROVE  OrphanInv'
  <1>1. Orphans' = Orphans /\ AllRecorded' = AllRecorded
    BY DEF Orphans, AllRecorded
  <1>2. crashes \in Nat /\ (work = <<>> => AllRecorded)
    BY NoWork DEF IInv, TypeOK
  <1>3. IsFiniteSet(Orphans)' /\ (Cardinality(Orphans) <= 2 * crashes)'
    BY <1>1, <1>2, FewOrphans
  <1>. QED
    BY <1>1, <1>2, <1>3 DEF OrphanInv

(* The thread t that holds the mutex, or takes it, works on.               *)
LEMMA OrphansWork ==
  ASSUME IInv, OrphanInv, NEW t \in Thread, mtx \in {Free, t}, crashes' = crashes,
         Orphans' \subseteq Orphans, (AllRecorded \/ Len(work) <= 2)',
         \A u \in Thread : u # t => pc'[u] = pc[u],
         pc'[t] \in Follows => AllRecorded'
  PROVE  OrphanInv'
  <1>1. crashes \in Nat /\ Mutex
    BY DEF IInv, TypeOK
  <1>2. IsFiniteSet(Orphans)' /\ (Cardinality(Orphans) <= 2 * crashes)'
    BY <1>1, FewOrphans
  <1>3. \A u \in Thread : u # t => pc'[u] \notin Follows
    BY <1>1, Alone DEF Critical, Follows
  <1>. QED
    BY <1>2, <1>3 DEF OrphanInv

(* What the process works on when it dies is orphaned.                     *)
LEMMA OrphansCrash == ASSUME IInv, OrphanInv, Crash PROVE OrphanInv'
  <1>1. /\ Len(work) \in Nat /\ DOMAIN work = 1..Len(work) /\ crashes \in Nat
        /\ crashes' = crashes + 1 /\ work' = <<>> /\ pc' = Fresh
        /\ stored' = stored /\ exch' = exch
    BY Items DEF IInv, TypeOK, Crash, outside
  <1> DEFINE lost == IF AllRecorded THEN {} ELSE {work[1].id, work[2].id}
  <1>2. Orphans' \subseteq Orphans \cup lost
    <2> SUFFICES ASSUME NEW i \in Orphans', i \notin Orphans PROVE i \in lost
      OBVIOUS
    <2>1. i \in Id /\ exch[i] # "NONE" /\ stored[i] = "NONE"
      BY <1>1 DEF Orphans
    <2>2. PICK n \in DOMAIN work : work[n].id = i
      BY <2>1 DEF Orphans
    <2>3. ~AllRecorded
      BY <2>1, <2>2 DEF AllRecorded
    <2>4. n \in 1..2
      BY <1>1, <2>3 DEF OrphanInv
    <2>. QED
      BY <2>2, <2>3, <2>4
  <1>3. IsFiniteSet(lost) /\ Cardinality(lost) <= 2 /\ Cardinality(lost) \in Nat
    <2>1. IsFiniteSet({work[1].id}) /\ Cardinality({work[1].id}) = 1
      BY FS_Singleton
    <2>2. {work[1].id, work[2].id} = {work[1].id} \cup {work[2].id}
      OBVIOUS
    <2>3. IsFiniteSet(lost) /\ Cardinality(lost) <= 2
      BY <2>1, <2>2, FS_AddElement, FS_EmptySet
    <2>. QED
      BY <2>3, FS_CardinalityType
  <1>4. /\ IsFiniteSet(Orphans) /\ Cardinality(Orphans) \in Nat
        /\ Cardinality(Orphans) <= 2 * crashes
    BY FS_CardinalityType DEF OrphanInv
  <1> HIDE DEF lost
  <1>5. /\ IsFiniteSet(Orphans \cup lost)
        /\ Cardinality(Orphans \cup lost) <= Cardinality(Orphans) + Cardinality(lost)
    <2>1. IsFiniteSet(Orphans \cap lost) /\ Cardinality(Orphans \cap lost) \in Nat
      BY <1>4, FS_Subset, FS_CardinalityType
    <2>2. /\ IsFiniteSet(Orphans \cup lost)
          /\ Cardinality(Orphans \cup lost) =
               Cardinality(Orphans) + Cardinality(lost) - Cardinality(Orphans \cap lost)
      BY <1>3, <1>4, FS_Union
    <2>. QED
      BY <1>3, <1>4, <2>1, <2>2
  <1>6. /\ IsFiniteSet(Orphans') /\ Cardinality(Orphans') \in Nat
        /\ Cardinality(Orphans') <= Cardinality(Orphans \cup lost)
        /\ Cardinality(Orphans \cup lost) \in Nat
    BY <1>2, <1>5, FS_Subset, FS_CardinalityType
  <1>7. Cardinality(Orphans') <= 2 * crashes'
    BY <1>1, <1>3, <1>4, <1>5, <1>6
  <1>8. AllRecorded' /\ \A t \in Thread : pc'[t] \notin Follows
    BY <1>1, FreshProcess DEF AllRecorded, Critical, Follows
  <1>. QED
    BY <1>6, <1>7, <1>8 DEF OrphanInv

LEMMA OrphansPoll ==
  ASSUME IInv, OrphanInv, NEW t \in Commander \cup Poller, PollStep(t)
  PROVE  OrphanInv'
  <1>1. /\ t \in Thread /\ pc \in [Thread -> Label] /\ work \in Seq(Item)
        /\ Mutex /\ crashes \in Nat
    BY DEF Thread, IInv, TypeOK
  <1>2. CASE PollBegin(t)
    <2>1. work = <<>> /\ mtx = Free
      BY <1>1, <1>2 DEF PollBegin, Acquire, Mutex
    <2>. QED
      BY <1>2, <2>1, OrphansKept DEF PollBegin, outside
  <1>3. CASE PollCompared(t) \/ PollBooks(t) \/ \E i \in Id : PollSkips(t, i)
    BY <1>1, <1>3, OrphansKept
       DEF PollCompared, PollBooks, PollSkips, Goto, Follows, Polls, outside
  <1>4. ASSUME NEW i \in Id, PollUpdates(t, i) PROVE OrphanInv'
    <2>1. /\ pc[t] = "compare" /\ pc' = pc /\ mtx = t /\ crashes' = crashes /\ exch' = exch
          /\ exch[i] # "NONE" /\ stored' = [stored EXCEPT ![i] = exch[i]]
          /\ work' = Append(work, [id |-> i, status |-> exch[i], books |-> TRUE])
      BY <1>1, <1>4 DEF PollUpdates, IInv, Working, Mutex, Critical, Polls
    <2>2. AllRecorded
      BY <1>1, <2>1 DEF OrphanInv, Follows, Polls
    <2>3. /\ DOMAIN work = 1..Len(work) /\ DOMAIN work' = 1..(Len(work) + 1) /\ Len(work) \in Nat
          /\ \A n \in 1..Len(work) : work'[n] = work[n] /\ work[n].id \in Id
          /\ work'[Len(work) + 1].id = i
      BY <1>1, <2>1, Items DEF IInv
    <2>4. \A k \in Id : stored[k] # "NONE" => stored'[k] # "NONE"
      BY <2>1 DEF IInv, TypeOK
    <2>5. stored'[i] # "NONE"
      BY <2>1 DEF IInv, TypeOK
    <2>6. AllRecorded'
      BY <2>2, <2>3, <2>4, <2>5 DEF AllRecorded
    <2>7. Orphans' \subseteq Orphans
      BY <2>1, <2>3, <2>4 DEF Orphans
    <2>. QED
      BY <1>1, <2>1, <2>6, <2>7, OrphansWork
  <1>5. CASE PollPublishes(t) \/ PollEnd(t)
    <2>1. /\ pc[t] \in {"book", "publish"} /\ mtx = t /\ crashes' = crashes
          /\ exch' = exch /\ stored' = stored
          /\ work' = <<>> \/ (work # <<>> /\ work' = Tail(work))
          /\ \A u \in Thread : u # t => pc'[u] = pc[u]
      BY <1>1, <1>5 DEF PollPublishes, PollEnd, Return, Goto, Mutex, Critical, Polls, IInv,
                        Operations, Polling, outside
    <2>2. AllRecorded
      BY <1>1, <2>1 DEF OrphanInv, Follows, Polls
    <2>3. \A n \in DOMAIN work' : \E m \in DOMAIN work : work'[n] = work[m]
      BY <1>1, <2>1
    <2>4. AllRecorded'
      BY <2>1, <2>2, <2>3 DEF AllRecorded
    <2>5. Orphans' \subseteq Orphans
      BY <2>1, <2>2 DEF Orphans, AllRecorded
    <2>. QED
      BY <1>1, <2>1, <2>4, <2>5, OrphansWork
  <1>. QED
    BY <1>2, <1>3, <1>4, <1>5 DEF PollStep

LEMMA OrphansRequest ==
  ASSUME IInv, OrphanInv, NEW c \in Client, NEW ids,
         \E m \in Method, s \in {"NEW", "FILLED"} : CreateOrder(c, m, ids, s),
         ids \in Seq(Id)
  PROVE  OrphanInv'
  <1>1. PICK m \in Method, s \in {"NEW", "FILLED"} : CreateOrder(c, m, ids, s)
    OBVIOUS
  <1>2. /\ c \in Thread /\ pc \in [Thread -> Label] /\ mtx = Free /\ work = <<>>
    BY <1>1 DEF Thread, IInv, TypeOK, CreateOrder, Acquire, Mutex
  <1>3. /\ crashes' = crashes /\ stored' = stored /\ pc' = [pc EXCEPT ![c] = "store"]
        /\ exch' = [i \in Id |-> IF \E k \in DOMAIN ids : ids[k] = i THEN s ELSE exch[i]]
        /\ work' = [k \in DOMAIN ids |-> [id |-> ids[k], status |-> s, books |-> m = "market"]]
        /\ Len(ids) <= 2
    BY <1>1 DEF CreateOrder, Goto, Legs
  <1>4. DOMAIN work' = DOMAIN ids /\ \A k \in DOMAIN ids : work'[k].id = ids[k]
    BY <1>3
  <1>5. Orphans' \subseteq Orphans
    BY <1>2, <1>3, <1>4 DEF Orphans
  <1>6. Len(work') <= 2
    <2>1. work' \in Seq(Item) /\ DOMAIN work' = 1..Len(ids)
      <3>1. Len(ids) \in Nat /\ DOMAIN ids = 1..Len(ids) /\ \A k \in DOMAIN ids : ids[k] \in Id
        OBVIOUS
      <3>2. \A k \in DOMAIN ids : [id |-> ids[k], status |-> s, books |-> m = "market"] \in Item
        BY <3>1 DEF Item, Status, ExchangeStatus, Open
      <3>. QED
        BY <1>3, <3>1, <3>2
    <2>. QED
      BY <1>3, <2>1
  <1>. QED
    BY <1>2, <1>3, <1>5, <1>6, OrphansWork DEF Follows, Polls

LEMMA OrphansClient ==
  ASSUME IInv, OrphanInv, NEW c \in Client, "create" \notin Failing,
         ClientStep(c) \/ \E i \in Id : Cancel(c, i)
  PROVE  OrphanInv'
  <1>1. /\ c \in Thread /\ pc \in [Thread -> Label] /\ work \in Seq(Item) /\ Mutex
        /\ stored \in [Id -> Status \cup {"NONE"}] /\ exch \in [Id -> ExchangeStatus \cup {"NONE"}]
        /\ \A n \in DOMAIN work : work[n].id \in Id /\ work[n].status \in Status
    BY Items DEF Thread, IInv, TypeOK
  <1>2. CASE StoreOrder(c)
    <2>0. pc[c] = "store" /\ work # <<>> /\ mtx = c
      BY <1>1, <1>2 DEF StoreOrder, Mutex, Critical, Creates, IInv, Operations, Creating
    <2>1. /\ 1 \in DOMAIN work /\ crashes' = crashes /\ exch' = exch /\ work' = work
          /\ stored' = [stored EXCEPT ![work[1].id] = work[1].status]
          /\ pc' = [pc EXCEPT ![c] = "announce"]
      <3>1. 1 \in DOMAIN work /\ Head(work) = work[1]
        BY <1>1, <2>0
      <3>. QED
        BY <1>2, <3>1 DEF StoreOrder, Goto
    <2>2. \A i \in Id : stored[i] # "NONE" => stored'[i] # "NONE"
      BY <1>1, <2>1 DEF Status, ExchangeStatus, Open
    <2>3. Orphans' \subseteq Orphans
      BY <2>1, <2>2 DEF Orphans
    <2>4. AllRecorded => AllRecorded'
      BY <1>1, <2>1, <2>2 DEF AllRecorded
    <2>. QED
      BY <1>1, <2>0, <2>1, <2>3, <2>4, OrphansWork DEF OrphanInv, Follows, Polls
  <1>3. CASE Announce(c)
    <2>1. /\ mtx = c /\ crashes' = crashes /\ exch' = exch /\ stored' = stored
          /\ \A u \in Thread : u # c => pc'[u] = pc[u]
          /\ pc'[c] \notin Follows
          /\ work # <<>> /\ stored[work[1].id] # "NONE"
          /\ (LastLeg /\ work' = <<>>) \/ work' = Tail(work)
      BY <1>1, <1>3 DEF Announce, Return, Goto, Mutex, Critical, Creates, IInv, Operations,
                        Creating, Follows, Polls
    <2>2. /\ Len(work') <= Len(work) /\ Len(work') \in Nat /\ Len(work) \in Nat
          /\ \A n \in DOMAIN work' : \E m \in DOMAIN work : work'[n] = work[m]
          /\ \A n \in DOMAIN work : n = 1 \/ \E m \in DOMAIN work' : work'[m] = work[n]
      <3>1. CASE LastLeg /\ work' = <<>>
        BY <1>1, <2>1, <3>1 DEF LastLeg
      <3>2. CASE work' = Tail(work)
        <4>1. /\ Len(work) \in Nat /\ Len(work) # 0 /\ Len(work') = Len(work) - 1
              /\ DOMAIN work' = 1..(Len(work) - 1) /\ DOMAIN work = 1..Len(work)
              /\ \A n \in 1..(Len(work) - 1) : work'[n] = work[n + 1]
          BY <1>1, <2>1, <3>2
        <4>2. ASSUME NEW n \in DOMAIN work, n # 1
              PROVE  \E m \in DOMAIN work' : work'[m] = work[n]
          <5>1. n - 1 \in DOMAIN work' /\ work'[n - 1] = work[n]
            BY <4>1, <4>2
          <5>. QED
            BY <5>1
        <4>3. ASSUME NEW n \in DOMAIN work'
              PROVE  \E m \in DOMAIN work : work'[n] = work[m]
          <5>1. n + 1 \in DOMAIN work /\ work'[n] = work[n + 1]
            BY <4>1
          <5>. QED
            BY <5>1
        <4>4. Len(work') <= Len(work) /\ Len(work') \in Nat
          BY <4>1
        <4>. QED
          BY <4>1, <4>2, <4>3, <4>4
      <3>. QED
        BY <2>1, <3>1, <3>2
    <2>3. Orphans' \subseteq Orphans
      BY <2>1, <2>2 DEF Orphans
    <2>4. AllRecorded => AllRecorded'
      BY <2>1, <2>2 DEF AllRecorded
    <2>. QED
      BY <1>1, <2>1, <2>2, <2>3, <2>4, OrphansWork DEF OrphanInv
  <1>4. CASE StoreCancel(c)
    <2>1. /\ mtx = c /\ crashes' = crashes /\ exch' = exch
          /\ work' = <<>> /\ pc[c] = "cancel" /\ work # <<>>
          /\ stored' = [stored EXCEPT ![work[1].id] = work[1].status] \/ stored' = stored
          /\ pc' = [pc EXCEPT ![c] = "idle"]
      BY <1>1, <1>4 DEF StoreCancel, Return, Goto, Mutex, Critical, IInv, Operations,
                        Cancelling
    <2>2. AllRecorded
      BY <1>1, <2>1 DEF OrphanInv, Follows
    <2>3. \A i \in Id : stored[i] # "NONE" => stored'[i] # "NONE"
      BY <1>1, <2>1 DEF Status, ExchangeStatus, Open
    <2>4. Orphans' \subseteq Orphans
      BY <2>1, <2>2, <2>3 DEF Orphans, AllRecorded
    <2>5. AllRecorded'
      BY <2>1 DEF AllRecorded
    <2>. QED
      BY <1>1, <2>1, <2>4, <2>5, OrphansWork
  <1>5. ASSUME NEW i \in Id, Cancel(c, i) PROVE OrphanInv'
    <2>1. /\ mtx = Free /\ work = <<>> /\ crashes' = crashes /\ stored' = stored
          /\ stored[i] # "NONE" /\ exch[i] # "NONE"
          /\ exch' = [exch EXCEPT ![i] = "CANCELED"]
          /\ work' = <<CancelItem(i)>> /\ pc' = [pc EXCEPT ![c] = "cancel"]
      BY <1>1, <1>5 DEF Cancel, Acquire, Goto, Mutex, IInv, History
    <2>2. Orphans' \subseteq Orphans
      BY <1>1, <2>1 DEF Orphans
    <2>3. AllRecorded'
      BY <2>1 DEF AllRecorded, CancelItem
    <2>. QED
      BY <1>1, <2>1, <2>2, <2>3, OrphansWork
  <1>6. CASE StoreOrderFails(c)
    BY <1>6 DEF StoreOrderFails
  <1>. QED
    BY <1>2, <1>3, <1>4, <1>5, <1>6 DEF ClientStep

LEMMA OrphansNext ==
  ASSUME IInv, OrphanInv, "create" \notin Failing, [Next]_vars
  PROVE  OrphanInv'
  <1>0. pc \in [Thread -> Label] /\ exch \in [Id -> ExchangeStatus \cup {"NONE"}]
    BY DEF IInv, TypeOK
  <1>1. CASE \E i \in Id, s \in ExchangeStatus : Progress(i, s)
    BY <1>0, <1>1, OrphansKept DEF Progress, ExchangeStatus, Open
  <1>2. CASE \E c \in Client : ClientRequest(c) \/ ClientStep(c)
    <2>1. PICK c \in Client : ClientRequest(c) \/ ClientStep(c)
      BY <1>2
    <2>2. ASSUME NEW m \in Method, NEW s \in {"NEW", "FILLED"}, NEW i \in Id,
                 CreateOrder(c, m, <<i>>, s)
          PROVE  OrphanInv'
      <3>1. <<i>> \in Seq(Id)
        OBVIOUS
      <3>. QED
        BY <2>2, <3>1, OrphansRequest
    <2>3. ASSUME NEW m \in Method, NEW s \in {"NEW", "FILLED"}, NEW i \in Id, NEW j \in Id,
                 CreateOrder(c, m, <<i, j>>, s)
          PROVE  OrphanInv'
      <3>1. <<i, j>> \in Seq(Id)
        OBVIOUS
      <3>. QED
        BY <2>3, <3>1, OrphansRequest
    <2>. QED
      BY <2>1, <2>2, <2>3, OrphansClient DEF ClientRequest
  <1>3. CASE \/ \E k \in Commander : StartBegin(k) \/ StopBegin(k) \/ StopMarks(k)
             \/ \E k \in Commander, p \in Poller : StartEnd(k, p) \/ StopEnd(k, p)
             \/ \E p \in Poller : Tick(p)
    <2>1. UNCHANGED <<stored, work, crashes, exch>>
      BY <1>3 DEF StartBegin, StopBegin, StopMarks, StartEnd, StopEnd, Tick, outside
    <2>2. \A t \in Thread : pc'[t] \in Follows => pc[t] \in Follows
      BY <1>0, <1>3 DEF StartBegin, StopBegin, StopMarks, StartEnd, StopEnd, Tick, Goto,
                        Follows, Polls
    <2>. QED
      BY <2>1, <2>2, OrphansKept
  <1>4. CASE \E t \in Commander \cup Poller : PollStep(t)
    BY <1>4, OrphansPoll
  <1>5. CASE Crash \/ \E t \in Commander \cup Poller : PollFails(t)
    BY <1>5, OrphansCrash DEF PollFails
  <1>6. CASE Deliver \/ (\E w \in sending : Publish(w)) \/ UNCHANGED vars
    BY <1>6, OrphansKept DEF Deliver, Publish, vars, outside
  <1>. QED
    BY <1>1, <1>2, <1>3, <1>4, <1>5, <1>6 DEF Next

(* OrphansOnlyByCrash: as long as recordings succeed, an order the exchange *)
(* took and the storage never learns of (controller.go:433-435 and the      *)
(* other creations) is left behind by a crash, and by one crash at most two.*)
THEOREM FewOrphansPerCrash == Spec => []OrphansOnlyByCrash
  <1> DEFINE J == "create" \notin Failing => OrphanInv
  <1>1. Init => J
    BY OrphanInit
  <1>2. IInv /\ J /\ [Next]_vars => J'
    BY OrphansNext
  <1>3. J => OrphansOnlyByCrash
    BY DEF OrphanInv, OrphansOnlyByCrash
  <1>. QED
    BY <1>1, <1>2, <1>3, Invariant, PTL DEF Spec

=============================================================================
