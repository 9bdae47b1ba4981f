----------------------------- MODULE LeastFirst -----------------------------
(***************************************************************************)
(* What a priority queue promises: a bag from which a least item is taken. *)
(***************************************************************************)
EXTENDS Naturals, BagsExt

CONSTANTS
  Item,
  Less(_, _)

VARIABLE content   \* the bag of items in the queue

Init == content \in [DOMAIN content -> Nat \ {0}]

Push(x) == content' = BagAdd(content, x)

Least(x) == x \in DOMAIN content /\ \A y \in DOMAIN content : ~Less(y, x)

Pop(x) == Least(x) /\ content' = BagRemove(content, x)

Next == \E x \in Item : Push(x) \/ Pop(x)

Spec == Init /\ [][Next]_content

=============================================================================
