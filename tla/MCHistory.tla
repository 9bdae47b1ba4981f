----------------------------- MODULE MCHistory -----------------------------
(* Small instances of the history of candles for TLC.                      *)
EXTENDS History

(* A day has three periods of the file; a request crosses several batches. *)
TwoRequests == {[start |-> 1, end |-> 13], [start |-> 6, end |-> 20]}

(* Prices that rise and fall, and that rounding and halving keep integers. *)
TestPrices(t) ==
  LET base == 4096 * (2 + ((t * 5) % 7))
  IN  [open |-> base + 100, close |-> base + 4096 * (t % 3), low |-> base - 4096,
       high |-> base + 8192, volume |-> 4096 * (1 + t)]
=============================================================================
