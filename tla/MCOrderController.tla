------------------------- MODULE MCOrderController -------------------------
(* Small instances of the order controller for TLC.                        *)
EXTENDS OrderController, TLC

CONSTANTS c1, c2, user, user2, p1, p2, o1, o2, o3

Symmetry == Permutations(Id)
PollersAndOrders == Permutations(Id) \cup Permutations(Poller)

PollsFail == {"orders", "query", "update"}
=============================================================================
