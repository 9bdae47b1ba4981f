---------------------------- MODULE MCOptimizer ----------------------------
(* Small instances of the optimizer for TLC.                               *)
EXTENDS Optimizer

(* A number with three values, in thousandths, and one with one.           *)
Three == <<[name |-> "risk", type |-> "int", min |-> 100, max |-> 300, step |-> 100],
           [name |-> "period", type |-> "float", min |-> 8000, max |-> 8000, step |-> 1000]>>

(* Every combination has another return; one never loses anything, and one *)
(* so little that its drawdown is written as -0.00.                        *)
Reports(chosen) ==
  [returns |-> chosen.risk - 150, negative |-> chosen.risk > 100,
   drawdown |-> IF chosen.risk = 300 THEN 300 ELSE 0]

=============================================================================
