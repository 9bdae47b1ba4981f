------------------------------ MODULE TradeBook ------------------------------
(***************************************************************************)
(* What the order controller promises about the trades it reports          *)
(* (Results in azbot/order/controller.go): a trade is booked only after    *)
(* the exchange executed the order, and at most once, whatever is retried. *)
(***************************************************************************)
CONSTANT Id

VARIABLES
  filled,   \* the orders the exchange executed
  booked    \* the orders registered in Results

TypeOK == filled \subseteq Id /\ booked \subseteq Id

Init == filled = {} /\ booked = {}

(* The exchange may execute the legs of a group at once.                   *)
Fill(ids) ==
  /\ ids \cap filled = {}
  /\ filled' = filled \cup ids
  /\ UNCHANGED booked

Book(i) ==
  /\ i \in filled \ booked
  /\ booked' = booked \cup {i}
  /\ UNCHANGED filled

Next == (\E ids \in SUBSET Id : Fill(ids)) \/ (\E i \in Id : Book(i))

Spec == Init /\ [][Next]_<<filled, booked>>

=============================================================================
