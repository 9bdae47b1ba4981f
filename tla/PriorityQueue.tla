---------------------------- MODULE PriorityQueue ----------------------------
(***************************************************************************)
(* The priority queue of azbot/model/priorityqueue.go: a binary heap in a  *)
(* slice.  Push, Pop, Peek and Len hold its mutex and are atomic.  data is *)
(* the slice, from index 1; length is always its length between two        *)
(* operations.  PopLock and the goroutines Push starts are in              *)
(* CandlePipeline, which uses this module.                                 *)
(***************************************************************************)
EXTENDS Naturals, SequencesExt

CONSTANTS
  Item,
  Less(_, _),   \* Item.Less
  MaxInitial,   \* bound: the length of the slice NewPriorityQueue is given
  MaxLength     \* bound: the queue's length

VARIABLE data

TypeOK == data \in Seq(Item)

Swap(q, i, j) == [q EXCEPT ![i] = q[j], ![j] = q[i]]

(* Mutant: the last level is not looked at.                                *)
UpMutant(q, p) == IF p > 3 /\ Less(q[p], q[p \div 2]) THEN Swap(q, p, p \div 2) ELSE q

(* up: the item at p rises while it is less than its parent.  The code     *)
(* carries the item and writes it once; exchanging is the same.            *)
Up(q, p) ==
  LET up[s \in Seq(Item) \X Nat] ==
        LET d == s[1]
            i == s[2]
        IN  IF i \in 2..Len(d) /\ Less(d[i], d[i \div 2])
            THEN up[<<Swap(d, i, i \div 2), i \div 2>>] ELSE d
  IN  up[<<q, p>>]

(* The lesser child of p, the left one of equals.                          *)
BestChild(q, p) ==
  IF 2 * p < Len(q) /\ Less(q[2 * p + 1], q[2 * p]) THEN 2 * p + 1 ELSE 2 * p

(* down: the item at p sinks while its lesser child is less.               *)
Down(q, p) ==
  LET down[s \in Seq(Item) \X Nat] ==
        LET d == s[1]
            i == s[2]
            c == BestChild(d, i)
        IN  IF i > 0 /\ 2 * i <= Len(d) /\ Less(d[c], d[i]) THEN down[<<Swap(d, i, c), c>>] ELSE d
  IN  down[<<q, p>>]

(* NewPriorityQueue: from the middle of the slice back to its beginning.   *)
FromSlice(items) ==
  LET heap[i \in Nat] == IF 2 * i > Len(items) THEN items ELSE Down(heap[i + 1], i)
  IN  heap[1]

Pushed(q, x) == Up(Append(q, x), Len(q) + 1)

(* Mutant: the slice is not shortened.                                     *)
PoppedMutant(q) == Down(<<Last(q)>> \o Tail(q), 1)

(* The last item takes the place of the first, and sinks.                  *)
Popped(q) ==
  IF Len(q) = 1 THEN <<>> ELSE Down(<<Last(q)>> \o Tail(Front(q)), 1)

Init == data \in {FromSlice(items) : items \in SeqOf(Item, MaxInitial)}

Push(x) == Len(data) < MaxLength /\ data' = Pushed(data, x)

(* An empty queue answers nil and stays as it is.                          *)
Pop(x) == data # <<>> /\ x = Head(data) /\ data' = Popped(data)

Next == \E x \in Item : Push(x) \/ Pop(x)

Spec == Init /\ [][Next]_data

-----------------------------------------------------------------------------

(* No item is less than its parent: what up and down restore, each along   *)
(* one path of the heap only.                                              *)
HeapOrder == \A p \in 2..Len(data) : ~Less(data[p], data[p \div 2])

=============================================================================
