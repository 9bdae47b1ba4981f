----------------------------- MODULE CoinsList -----------------------------
(***************************************************************************)
(* The list of coins that strategies look their coins up in, and its cache *)
(* of five minutes on the disk: getSlugs in                                *)
(* azbot/plus/models/strategy_data.go.  The list and the time it was       *)
(* fetched are two files, written one after the other under cacheMutex;    *)
(* writing truncates a file first, and the process may die in between.     *)
(***************************************************************************)
CONSTANTS
  Reader,   \* the backtests of the process
  Nobody,
  Faulty    \* whether the list may fail to be fetched, or the file to be read

VARIABLES
  cacheMutex,   \* the reader that holds it, or Nobody
  step,         \* where the holder is
  file,         \* the list on the disk
  time          \* the file of the time: whether it is of the last five minutes

coinsVars == <<cacheMutex, step, file, time>>

CoinsInit == cacheMutex = Nobody /\ step = "check" /\ file = "none" /\ time = "none"

Begin(r) ==
  /\ cacheMutex = Nobody
  /\ cacheMutex' = r /\ step' = IF time = "fresh" THEN "read" ELSE "truncate"
  /\ UNCHANGED <<file, time>>

Leave == cacheMutex' = Nobody /\ step' = "check" /\ UNCHANGED <<file, time>>

(* The list cannot be fetched, and so the strategy cannot be created.      *)
FetchFails(r) == cacheMutex = r /\ step = "truncate" /\ Faulty /\ Leave

(* Mutant: the time is written before the list.                            *)
SaveMutant ==
  \/ step = "truncate" /\ step' = "write" /\ time' = "fresh" /\ UNCHANGED file
  \/ step = "write" /\ step' = "date" /\ file' = "torn" /\ UNCHANGED time
  \/ step = "date" /\ step' = "read" /\ file' = "whole" /\ UNCHANGED time

(* The list first, then its time.                                          *)
Save ==
  \/ step = "truncate" /\ step' = "write" /\ file' = "torn" /\ UNCHANGED time
  \/ step = "write" /\ step' = "date" /\ file' = "whole" /\ UNCHANGED time
  \/ step = "date" /\ step' = "read" /\ time' = "fresh" /\ UNCHANGED file

Update(r) == cacheMutex = r /\ Save /\ UNCHANGED cacheMutex

Found(r) == cacheMutex = r /\ step = "read" /\ file = "whole" /\ Leave

Unreadable(r) == cacheMutex = r /\ step = "read" /\ (Faulty \/ file # "whole") /\ Leave

(* Five minutes pass.                                                      *)
Expire ==
  /\ time = "fresh" /\ step # "read"
  /\ time' = "old"
  /\ UNCHANGED <<cacheMutex, step, file>>

(* The process died: what it wrote stays.                                  *)
CoinsRestart == cacheMutex' = Nobody /\ step' = "check" /\ UNCHANGED <<file, time>>

(* A list that counts as fresh is there and whole, also after the process  *)
(* died while it wrote: else every strategy would fail to be created until *)
(* the five minutes are over.                                              *)
FreshIsWhole == time = "fresh" => file = "whole"

=============================================================================
