-------------------------- MODULE OptimizerProofs --------------------------
(***************************************************************************)
(* What holds of the optimizer for any parameters, any number of workers,  *)
(* whatever fails and however often the process dies: its captures do not  *)
(* mix, every combination of the values is tried, the best result is what  *)
(* is saved, and a list of coins that counts as fresh is whole.            *)
(***************************************************************************)
EXTENDS Optimizer, DataTheorems, SequenceTheorems

-----------------------------------------------------------------------------
(* The list of coins.                                                      *)

(* Who writes found no fresh time, and who writes the time wrote the list. *)
CoinsWritten ==
  /\ FreshIsWhole
  /\ step \in {"truncate", "write", "date"} => time # "fresh"
  /\ step = "date" => file = "whole"

LEMMA CoinsStep == CoinsWritten /\ [Next]_vars => CoinsWritten'
  <1> SUFFICES ASSUME CoinsWritten, [Next]_vars PROVE CoinsWritten'
    OBVIOUS
  <1> USE DEF CoinsWritten, FreshIsWhole, C!FreshIsWhole
  <1>1. ASSUME UNCHANGED coins PROVE CoinsWritten'
    BY <1>1 DEF coins
  <1>2. ASSUME NEW j \in Job, LookUpCoins(j) PROVE CoinsWritten'
    <2>1. CASE C!Begin(j)
      BY <2>1 DEF C!Begin
    <2>2. CASE C!Update(j)
      BY <2>2 DEF C!Update, C!Save
    <2>3. CASE C!Found(j) \/ C!FetchFails(j) \/ C!Unreadable(j)
      BY <2>3 DEF C!Found, C!FetchFails, C!Unreadable, C!Leave
    <2> QED
      BY <1>2, <2>1, <2>2, <2>3 DEF LookUpCoins
  <1>3. CASE Crash
    BY <1>3 DEF Crash, C!CoinsRestart
  <1>4. CASE CacheExpires
    BY <1>4 DEF CacheExpires, C!Expire
  <1>5. ASSUME NEW j \in Job, Worker(j), ~LookUpCoins(j) PROVE UNCHANGED coins
    BY <1>5 DEF Worker, SetDefault, ReadDefault, SaveStderr, DiscardStderr, Backtest,
       CaptureBegin, Redirect, PrintSummary, CaptureEnd, AddResult, Release
  <1>6. ASSUME Optimize PROVE UNCHANGED coins
    BY <1>6 DEF Optimize, Launch, Sort, SaveConfig
  <1> QED
    BY <1>1, <1>2, <1>3, <1>4, <1>5, <1>6 DEF Next, vars

(* A list that counts as fresh is whole, wherever the process dies.        *)
THEOREM FreshCoinsAreWhole == Spec => []FreshIsWhole
  <1>1. Init => CoinsWritten
    BY DEF Init, C!CoinsInit, CoinsWritten, FreshIsWhole, C!FreshIsWhole
  <1>2. CoinsWritten => FreshIsWhole
    BY DEF CoinsWritten
  <1> QED
    BY <1>1, <1>2, CoinsStep, PTL DEF Spec

-----------------------------------------------------------------------------
(* Capture.                                                                *)

Capturing == {"redirect", "print", "restore"}

Label ==
  {"waiting", "config", "coins", "create", "stderr", "null", "run", "capture", "parse",
   "release", "done"} \cup Capturing

(* Who is inside Capture holds its mutex, and finds stdout, what it saved  *)
(* and the buffer as it left them; nobody else writes any of them.         *)
Exclusive ==
  /\ pc \in [Job -> Label]
  /\ read \in [Job -> {<<>>} \cup {<<j>> : j \in Job}]
  /\ \A j \in Job : pc[j] \in Capturing <=> capturing = j
  /\ capturing \in Job \cup {Nobody}
  /\ capturing = Nobody => stdout = Terminal
  /\ \A j \in Job : pc[j] = "redirect" => stdout = Terminal /\ report = <<>>
  /\ \A j \in Job : pc[j] = "print" => stdout = j /\ oldStdout = Terminal /\ report = <<>>
  /\ \A j \in Job : pc[j] = "restore" => oldStdout = Terminal /\ report = <<j>>
  /\ \A j \in Job : read[j] \in {<<>>, <<j>>}

captureVars == <<capturing, stdout, oldStdout, report, read>>

LEMMA ExclusiveInit == Init => Exclusive
  BY JobAssumption DEF Init, Start, Exclusive, Capturing, Label

(* Steps outside of Capture.                                               *)
LEMMA Outside ==
  ASSUME Exclusive, NEW j \in Job, NEW next \in Label \ Capturing,
         pc[j] \notin Capturing, UNCHANGED captureVars, pc' = [pc EXCEPT ![j] = next]
  PROVE  Exclusive'
  <1>1. pc' \in [Job -> Label] /\ \A i \in Job : pc'[i] = IF i = j THEN next ELSE pc[i]
    BY DEF Exclusive
  <1>2. \A i \in Job : i # j => pc'[i] = pc[i]
    BY <1>1
  <1>3. pc'[j] \notin Capturing /\ {"redirect", "print", "restore"} = Capturing
    BY <1>1 DEF Capturing
  <1> QED
    BY <1>1, <1>2, <1>3 DEF Exclusive, captureVars

LEMMA Idle ==
  ASSUME Exclusive, UNCHANGED captureVars, UNCHANGED pc
  PROVE  Exclusive'
  BY DEF Exclusive, captureVars

LEMMA ExclusiveWorker ==
  ASSUME Exclusive, NEW j \in Job, Worker(j)
  PROVE  Exclusive'
  <1> USE DEF Goto, Fail, output, Label, Capturing
  <1>1. CASE SetDefault(j)
    BY <1>1, Outside, Idle DEF SetDefault, captureVars
  <1>2. CASE LookUpCoins(j)
    <2>1. pc[j] = "coins" /\ UNCHANGED captureVars
      BY <1>2 DEF LookUpCoins, captureVars
    <2> QED
      BY <1>2, <2>1, Outside, Idle DEF LookUpCoins
  <1>3. CASE ReadDefault(j)
    BY <1>3, Outside, Idle DEF ReadDefault, Assemble, captureVars
  <1>4. CASE SaveStderr(j)
    BY <1>4, Outside DEF SaveStderr, captureVars
  <1>5. CASE DiscardStderr(j)
    BY <1>5, Outside DEF DiscardStderr, captureVars
  <1>6. CASE Backtest(j)
    BY <1>6, Outside DEF Backtest, captureVars
  <1>7. CASE CaptureBegin(j)
    BY <1>7, JobAssumption DEF CaptureBegin, MayCapture, Exclusive
  <1>8. CASE Redirect(j)
    BY <1>8, JobAssumption DEF Redirect, Exclusive
  <1>9. CASE PrintSummary(j)
    <2>1. pc[j] = "print" /\ stdout = j /\ stdout # Terminal /\ report = <<>>
      BY <1>9, JobAssumption DEF PrintSummary, Exclusive
    <2>2. report' = <<j>>
      BY <1>9, <2>1 DEF PrintSummary
    <2> QED
      BY <1>9, <2>1, <2>2 DEF PrintSummary, Exclusive
  <1>10. CASE CaptureEnd(j)
    BY <1>10, JobAssumption DEF CaptureEnd, Restored, Exclusive
  <1>11. CASE AddResult(j)
    BY <1>11, JobAssumption DEF AddResult, Exclusive
  <1>12. CASE Release(j)
    BY <1>12, Outside DEF Release, captureVars
  <1> QED
    BY <1>1, <1>2, <1>3, <1>4, <1>5, <1>6, <1>7, <1>8, <1>9, <1>10, <1>11, <1>12 DEF Worker

LEMMA ExclusiveStep == Exclusive /\ [Next]_vars => Exclusive'
  <1> SUFFICES ASSUME Exclusive, [Next]_vars PROVE Exclusive'
    OBVIOUS
  <1>1. CASE UNCHANGED vars
    BY <1>1, Idle DEF vars, output, captureVars
  <1>2. CASE Optimize
    <2>1. CASE Launch
      <3>1. PICK j \in Job : pc[j] = "waiting" /\ pc' = [pc EXCEPT ![j] = "config"]
        BY <2>1 DEF Launch, Goto
      <3>2. UNCHANGED captureVars
        BY <2>1 DEF Launch, output, captureVars
      <3> QED
        BY <3>1, <3>2, Outside DEF Label, Capturing
    <2>2. CASE Sort \/ SaveConfig
      BY <2>2, Idle DEF Sort, SaveConfig, output, captureVars
    <2> QED
      BY <1>2, <2>1, <2>2 DEF Optimize
  <1>3. ASSUME NEW j \in Job, Worker(j) PROVE Exclusive'
    BY <1>3, ExclusiveWorker
  <1>4. CASE Crash
    BY <1>4, JobAssumption DEF Crash, Exclusive, Capturing, Label
  <1>5. CASE CacheExpires
    BY <1>5, Idle DEF CacheExpires, output, captureVars
  <1> QED
    BY <1>1, <1>2, <1>3, <1>4, <1>5 DEF Next

(* A backtest reads its own report, alone, and stdout is the terminal when *)
(* nobody captures, whatever fails and however the goroutines interleave.  *)
THEOREM ReportsAreNotMixed == Spec => []CaptureIsExclusive
  <1>1. Exclusive => CaptureIsExclusive
    BY DEF Exclusive, CaptureIsExclusive
  <1> QED
    BY <1>1, ExclusiveInit, ExclusiveStep, PTL DEF Spec

-----------------------------------------------------------------------------
(* What is saved.                                                          *)

(* What Optimize returned is of a result that no other exceeds; since then *)
(* no goroutine is left that could change a result or a setting.           *)
Chosen ==
  /\ main \in {"save", "saved"} =>
       /\ Finished
       /\ \E r \in results : r.parameters = best /\ \A s \in results : Ahead(r, s)
  /\ main = "saved" => settings = best

LEMMA ChosenStep == Chosen /\ [Next]_vars => Chosen'
  <1> SUFFICES ASSUME Chosen, [Next]_vars PROVE Chosen'
    OBVIOUS
  <1> USE DEF Chosen, Finished, Ahead
  <1>1. CASE UNCHANGED vars
    BY <1>1 DEF vars
  <1>2. CASE Launch
    BY <1>2 DEF Launch
  <1>3. CASE Sort
    BY <1>3 DEF Sort
  <1>4. CASE SaveConfig
    BY <1>4 DEF SaveConfig
  <1>5. ASSUME NEW j \in Job, Worker(j) PROVE Chosen'
    <2>1. pc[j] # "done" /\ UNCHANGED main
      BY <1>5 DEF Worker, SetDefault, LookUpCoins, ReadDefault, SaveStderr, DiscardStderr,
         Backtest, CaptureBegin, Redirect, PrintSummary, CaptureEnd, AddResult, Release
    <2> QED
      BY <2>1
  <1>6. CASE Crash
    BY <1>6 DEF Crash
  <1>7. CASE CacheExpires
    BY <1>7 DEF CacheExpires
  <1> QED
    BY <1>1, <1>2, <1>3, <1>4, <1>5, <1>6, <1>7 DEF Next, Optimize

(* The configuration that is saved is that of a result with the highest    *)
(* ratio, whatever the reports say and whichever backtests failed.         *)
THEOREM TheBestIsSaved == Spec => []SavedIsBest
  <1>1. Init => Chosen
    BY DEF Init, Start, Chosen
  <1>2. Chosen => SavedIsBest
    <2>1. \A a, b : a >= b => b <= a
      OBVIOUS
    <2> QED
      BY <2>1 DEF Chosen, SavedIsBest, Ahead
  <1> QED
    BY <1>1, <1>2, ChosenStep, PTL DEF Spec

-----------------------------------------------------------------------------
(* The combinations.                                                       *)

(* A list of the members of a set, each of them once.                      *)
Lists(list, S) ==
  /\ list \in Seq(S)
  /\ \A a \in S : \E i \in DOMAIN list :
       list[i] = a /\ \A j \in DOMAIN list : list[j] = a => j = i

LEMMA ListedOnce ==
  ASSUME NEW list, NEW S, Lists(list, S), NEW a \in S
  PROVE  Cardinality({i \in DOMAIN list : list[i] = a}) = 1
  <1>1. PICK i \in DOMAIN list : list[i] = a /\ \A j \in DOMAIN list : list[j] = a => j = i
    BY DEF Lists
  <1>2. {j \in DOMAIN list : list[j] = a} = {i}
    BY <1>1
  <1> QED
    BY <1>2, FS_Singleton

(* Rows of equal length, one after the other.                              *)
LEMMA InRow ==
  ASSUME NEW s \in Nat, NEW t \in Nat, NEW V \in Nat, NEW v \in 1..V, NEW w \in 1..V
  PROVE  /\ s < t => s * V + v < t * V + w
         /\ s * V + v \in Nat /\ s * V + V = (s + 1) * V
  <1>1. ASSUME s < t PROVE s * V + v < t * V + w
    <2>1. PICK d \in Nat : t = s + 1 + d
      <3>1. t - s - 1 \in Nat /\ t = s + 1 + (t - s - 1)
        BY <1>1
      <3> QED
        BY <3>1
    <2>2. t * V = s * V + V + d * V /\ d * V \in Nat /\ s * V \in Nat
      BY <2>1
    <2> QED
      BY <2>2
  <1>2. s * V + v \in Nat /\ s * V + V = (s + 1) * V
    OBVIOUS
  <1> QED
    BY <1>1, <1>2

(* What the library's FlattenSeq computes its value with.                  *)
Flattens(f, seqs, L) ==
  f = [i \in 1..L |-> IF i = 1 THEN seqs[i] ELSE f[i - 1] \o seqs[i]]

LEMMA FlattenExists ==
  ASSUME NEW seqs, NEW L \in Nat
  PROVE  \E f : Flattens(f, seqs, L)
  <1> DEFINE P == {n \in Nat : \E f : Flattens(f, seqs, n)}
  <1>1. 0 \in P
    <2>1. Flattens([i \in 1..0 |-> 0], seqs, 0)
      BY DEF Flattens
    <2> QED
      BY <2>1
  <1>2. ASSUME NEW n \in Nat, n \in P PROVE n + 1 \in P
    <2>1. PICK f : Flattens(f, seqs, n)
      BY <1>2
    <2> DEFINE g == [i \in 1..(n + 1) |-> IF i \in 1..n THEN f[i]
                                          ELSE IF i = 1 THEN seqs[i] ELSE f[i - 1] \o seqs[i]]
    <2>2. \A i \in 1..n : g[i] = f[i]
      OBVIOUS
    <2>3. \A i \in 1..n : f[i] = IF i = 1 THEN seqs[i] ELSE f[i - 1] \o seqs[i]
      BY <2>1 DEF Flattens
    <2>4. ASSUME NEW i \in 1..(n + 1)
          PROVE  g[i] = IF i = 1 THEN seqs[i] ELSE g[i - 1] \o seqs[i]
      <3>1. i # 1 => i - 1 \in 1..n
        OBVIOUS
      <3>2. i # 1 => g[i - 1] = f[i - 1]
        BY <2>2, <3>1
      <3>3. g[i] = IF i = 1 THEN seqs[i] ELSE f[i - 1] \o seqs[i]
        BY <2>3
      <3> QED
        BY <3>2, <3>3
    <2>5. g = [i \in 1..(n + 1) |-> g[i]]
      OBVIOUS
    <2> HIDE DEF g
    <2>6. Flattens(g, seqs, n + 1)
      BY <2>4, <2>5 DEF Flattens
    <2> QED
      BY <2>6
  <1> HIDE DEF P
  <1>3. L \in P
    BY <1>1, <1>2, EveryNatural
  <1> QED
    BY <1>3 DEF P

Rows(seqs, L, V, S) ==
  /\ L \in Nat /\ V \in Nat /\ seqs \in [1..L -> Seq(S)]
  /\ \A s \in 1..L : Len(seqs[s]) = V

LEMMA FlattenRows ==
  ASSUME NEW S, NEW L, NEW V, NEW seqs, Rows(seqs, L, V, S)
  PROVE  /\ FlattenSeq(seqs) \in Seq(S) /\ Len(FlattenSeq(seqs)) = L * V
         /\ \A s \in 1..L, v \in 1..V : FlattenSeq(seqs)[(s - 1) * V + v] = seqs[s][v]
  <1> USE DEF Rows
  <1>1. Len(seqs) = L /\ seqs \in Seq(Seq(S))
    OBVIOUS
  <1>2. CASE L = 0
    <2>1. FlattenSeq(seqs) = seqs /\ seqs = <<>>
      BY <1>1, <1>2 DEF FlattenSeq
    <2> QED
      BY <1>2, <2>1
  <1>3. CASE L # 0
    <2> DEFINE f == CHOOSE f : Flattens(f, seqs, L)
    <2>1. Flattens(f, seqs, L)
      BY FlattenExists
    <2>2. FlattenSeq(seqs) = f[L]
      BY <1>1, <1>3 DEF FlattenSeq, Flattens
    <2> HIDE DEF f
    <2> DEFINE Whole(n) ==
                 /\ f[n] \in Seq(S) /\ Len(f[n]) = n * V
                 /\ \A s \in 1..n, v \in 1..V : f[n][(s - 1) * V + v] = seqs[s][v]
               P == {n \in Nat : n < L => Whole(n + 1)}
    <2>3. 0 \in P
      <3>1. f[1] = seqs[1] /\ 1 \in 1..L
        BY <2>1, <1>3 DEF Flattens
      <3>2. Len(f[1]) = 1 * V /\ f[1] \in Seq(S)
        BY <3>1
      <3>3. \A s \in 1..1, v \in 1..V : s = 1 /\ (s - 1) * V + v = v
        OBVIOUS
      <3> QED
        BY <3>1, <3>2, <3>3
    <2>4. ASSUME NEW n \in Nat, n \in P PROVE n + 1 \in P
      <3> SUFFICES ASSUME n + 1 < L PROVE Whole(n + 2)
        OBVIOUS
      <3> DEFINE m == n + 1
      <3>1. Whole(m) /\ m \in 1..L /\ m + 1 \in 1..L /\ m + 1 # 1
        BY <2>4
      <3>2. f[m + 1] = f[m] \o seqs[m + 1]
        <4>1. \A i \in 1..L : f[i] = IF i = 1 THEN seqs[i] ELSE f[i - 1] \o seqs[i]
          BY <2>1 DEF Flattens
        <4>2. (m + 1) - 1 = m
          OBVIOUS
        <4> HIDE DEF m
        <4> QED
          BY <3>1, <4>1, <4>2
      <3>6. f[m] \in Seq(S) /\ Len(f[m]) = m * V
        BY <3>1
      <3>7. seqs[m + 1] \in Seq(S) /\ Len(seqs[m + 1]) = V
        BY <3>1
      <3>8. /\ Len(f[m + 1]) = Len(f[m]) + V /\ f[m + 1] \in Seq(S)
            /\ \A i \in 1..Len(f[m]) : f[m + 1][i] = f[m][i]
            /\ \A i \in 1..V : f[m + 1][Len(f[m]) + i] = seqs[m + 1][i]
        <4> DEFINE a == f[m]
                   b == seqs[m + 1]
        <4>1. a \in Seq(S) /\ b \in Seq(S) /\ Len(b) = V
          BY <3>6, <3>7
        <4>2. f[m + 1] = a \o b
          BY <3>2
        <4> HIDE DEF a, b
        <4>3. /\ Len(a \o b) = Len(a) + V /\ a \o b \in Seq(S)
              /\ \A i \in 1..Len(a) : (a \o b)[i] = a[i]
              /\ \A i \in 1..V : (a \o b)[Len(a) + i] = b[i]
          <5>1. /\ a \o b \in Seq(S) /\ Len(a \o b) = Len(a) + Len(b)
                /\ \A i \in 1..Len(a) + Len(b) :
                     (a \o b)[i] = IF i <= Len(a) THEN a[i] ELSE b[i - Len(a)]
            BY <4>1, ConcatProperties
          <5>2. Len(a) \in Nat
            BY <4>1
          <5>3. ASSUME NEW i \in 1..V PROVE (a \o b)[Len(a) + i] = b[i]
            <6>1. Len(a) + i \in 1..Len(a) + Len(b) /\ ~(Len(a) + i <= Len(a))
              BY <4>1, <5>2
            <6>2. (Len(a) + i) - Len(a) = i
              BY <5>2
            <6> QED
              BY <5>1, <6>1, <6>2
          <5> QED
            BY <4>1, <5>1, <5>2, <5>3
        <4> QED
          BY <4>2, <4>3 DEF a, b
      <3>3. f[m + 1] \in Seq(S) /\ Len(f[m + 1]) = m * V + V
        BY <3>6, <3>8
      <3>4. m * V + V = (m + 1) * V
        BY <3>1
      <3>5. ASSUME NEW s \in 1..(m + 1), NEW v \in 1..V
            PROVE  f[m + 1][(s - 1) * V + v] = seqs[s][v]
        <4>1. CASE s = m + 1
          <5>1. (s - 1) * V = Len(f[m])
            BY <3>6, <4>1
          <5> QED
            BY <3>8, <4>1, <5>1
        <4>2. CASE s \in 1..m
          <5>1. s - 1 < m /\ s - 1 \in Nat /\ m \in Nat
            BY <4>2
          <5>2. 1 \in 1..V
            OBVIOUS
          <5>3. (s - 1) * V + v < m * V + 1 /\ (s - 1) * V \in Nat /\ m * V \in Nat
            <6>1. \A q \in Nat : q * V \in Nat
              OBVIOUS
            <6> QED
              BY <5>1, <5>2, <6>1, InRow
          <5>4. (s - 1) * V + v \in 1..Len(f[m])
            <6>1. \A x, y \in Nat : x + v < y + 1 => x + v \in 1..y
              OBVIOUS
            <6> QED
              BY <3>6, <5>3, <6>1
          <5>5. f[m + 1][(s - 1) * V + v] = f[m][(s - 1) * V + v]
            BY <3>8, <5>4
          <5> QED
            BY <3>1, <4>2, <5>5
        <4> QED
          BY <4>1, <4>2
      <3> QED
        BY <3>3, <3>4, <3>5
    <2> HIDE DEF P
    <2>5. L - 1 \in P
      BY <1>3, <2>3, <2>4, EveryNatural
    <2>6. Whole(L)
      BY <1>3, <2>5 DEF P
    <2> QED
      BY <2>2, <2>6
  <1> QED
    BY <1>2, <1>3

LEMMA Covered ==
  ASSUME NEW V \in Nat, NEW L \in Nat, NEW n \in 1..(L * V)
  PROVE  \E s \in 1..L, v \in 1..V : n = (s - 1) * V + v
  <1> DEFINE P == {k \in Nat : \A i \in 1..(k * V) :
                                 \E s \in 1..k, v \in 1..V : i = (s - 1) * V + v}
  <1>1. 0 \in P
    OBVIOUS
  <1>2. ASSUME NEW k \in Nat, k \in P PROVE k + 1 \in P
    <2> SUFFICES ASSUME NEW i \in 1..((k + 1) * V)
                 PROVE  \E s \in 1..(k + 1), v \in 1..V : i = (s - 1) * V + v
      OBVIOUS
    <2>1. CASE i \in 1..(k * V)
      <3>1. PICK s \in 1..k, v \in 1..V : i = (s - 1) * V + v
        BY <1>2, <2>1
      <3>2. s \in 1..(k + 1)
        OBVIOUS
      <3> QED
        BY <3>1, <3>2
    <2>2. CASE i \notin 1..(k * V)
      <3>1. (k + 1) * V = k * V + V /\ k * V \in Nat
        OBVIOUS
      <3>2. i - k * V \in 1..V /\ i = k * V + (i - k * V)
        <4>1. \A x \in Nat : i \in 1..(x + V) /\ i \notin 1..x => i - x \in 1..V /\ i = x + (i - x)
          OBVIOUS
        <4> QED
          BY <2>2, <3>1, <4>1
      <3>3. k + 1 \in 1..(k + 1) /\ (k + 1) - 1 = k
        OBVIOUS
      <3> QED
        BY <3>2, <3>3
    <2> QED
      BY <2>1, <2>2
  <1> HIDE DEF P
  <1>3. L \in P
    BY <1>1, <1>2, EveryNatural
  <1> QED
    BY <1>3 DEF P

LEMMA AssignTells ==
  ASSUME NEW N, NEW f, NEW g, f = [x \in N |-> f[x]], g = [x \in N |-> g[x]],
         NEW n, n \notin N, NEW a, NEW b, Assign(f, n, a) = Assign(g, n, b)
  PROVE  f = g /\ a = b
  <1> DEFINE h == Assign(f, n, a)
             k == Assign(g, n, b)
  <1>1. h[n] = a /\ \A x \in N : h[x] = f[x]
    BY DEF Assign
  <1>2. k[n] = b /\ \A x \in N : k[x] = g[x]
    BY DEF Assign
  <1>3. a = b /\ \A x \in N : f[x] = g[x]
    BY <1>1, <1>2
  <1> QED
    BY <1>3

(* A list of functions and a list of values of one more name give a list   *)
(* of the functions with that name.                                        *)
LEMMA ExtendedLists ==
  ASSUME NEW list, NEW F, Lists(list, F), NEW param, NEW A, Lists(Values(param), A),
         NEW N, \A f \in F : f = [x \in N |-> f[x]], param.name \notin N
  PROVE  Lists(Extended(list, param), {Assign(f, param.name, a) : f \in F, a \in A})
  <1> DEFINE vals == Values(param)
             L == Len(list)
             V == Len(vals)
             G == {Assign(f, param.name, a) : f \in F, a \in A}
             row(s) == [v \in DOMAIN vals |-> Assign(list[s], param.name, vals[v])]
             rows == [s \in DOMAIN list |-> row(s)]
             flat == FlattenSeq(rows)
  <1>1. /\ L \in Nat /\ DOMAIN list = 1..L /\ \A s \in 1..L : list[s] \in F
        /\ V \in Nat /\ DOMAIN vals = 1..V /\ \A v \in 1..V : vals[v] \in A
    BY DEF Lists
  <1>2. Extended(list, param) = flat
    BY DEF Extended
  <1>3. \A s \in 1..L, v \in 1..V : Assign(list[s], param.name, vals[v]) \in G
    BY <1>1
  <1> HIDE DEF L, V, G, vals
  <1>4. \A s \in 1..L : row(s) \in Seq(G) /\ Len(row(s)) = V
    BY <1>1, <1>3
  <1>5. /\ rows \in [1..L -> Seq(G)] /\ \A s \in 1..L : Len(rows[s]) = V
        /\ \A s \in 1..L, v \in 1..V : rows[s][v] = Assign(list[s], param.name, vals[v])
    BY <1>1, <1>4
  <1> HIDE DEF rows
  <1>6. /\ flat \in Seq(G) /\ Len(flat) = L * V
        /\ \A s \in 1..L, v \in 1..V : flat[(s - 1) * V + v] = rows[s][v]
    <2>1. Rows(rows, L, V, G)
      BY <1>1, <1>5 DEF Rows
    <2> QED
      BY <2>1, FlattenRows DEF flat
  <1> HIDE DEF flat
  <1>7. DOMAIN flat = 1..(L * V)
    BY <1>6
  <1>8. ASSUME NEW f \in F, NEW a \in A
        PROVE  \E i \in DOMAIN flat :
                 /\ flat[i] = Assign(f, param.name, a)
                 /\ \A j \in DOMAIN flat : flat[j] = Assign(f, param.name, a) => j = i
    <2>1. PICK s \in 1..L : list[s] = f /\ \A t \in 1..L : list[t] = f => t = s
      BY <1>1 DEF Lists
    <2>2. PICK v \in 1..V : vals[v] = a /\ \A w \in 1..V : vals[w] = a => w = v
      BY <1>1 DEF Lists, vals
    <2> DEFINE i == (s - 1) * V + v
    <2>3. i \in 1..(L * V)
      <3>1. s - 1 \in Nat /\ s - 1 < L /\ 1 \in 1..V /\ v \in 1..V
        BY <1>1
      <3>2. i < L * V + 1
        BY <1>1, <3>1, InRow
      <3>3. i \in Nat /\ i >= 1 /\ L * V \in Nat
        <4>1. \A q \in Nat : q * V \in Nat
          BY <1>1
        <4>2. (s - 1) * V \in Nat /\ L * V \in Nat
          BY <1>1, <3>1, <4>1
        <4> QED
          BY <1>1, <3>1, <4>2
      <3> HIDE DEF i
      <3> QED
        BY <3>2, <3>3
    <2>4. flat[i] = Assign(f, param.name, a)
      BY <1>5, <1>6, <2>1, <2>2
    <2>5. ASSUME NEW j \in DOMAIN flat, flat[j] = Assign(f, param.name, a) PROVE j = i
      <3>1. PICK t \in 1..L, w \in 1..V : j = (t - 1) * V + w
        BY <1>1, <1>7, Covered
      <3>2. Assign(list[t], param.name, vals[w]) = Assign(f, param.name, a)
        BY <1>5, <1>6, <2>5, <3>1
      <3>3. list[t] \in F /\ f \in F
        BY <1>1
      <3>4. list[t] = f /\ vals[w] = a
        BY <3>2, <3>3, AssignTells
      <3> QED
        BY <2>1, <2>2, <3>1, <3>4
    <2> HIDE DEF i
    <2> QED
      BY <1>7, <2>3, <2>4, <2>5
  <1>9. Lists(flat, G)
    BY <1>6, <1>8 DEF Lists, G
  <1> QED
    BY <1>2, <1>9 DEF G

(* What the library's FoldLeft computes the sets with.                     *)
FoldsSets(g, S) ==
  g = [s \in SUBSET S |-> IF s = {} THEN <<NoSettings>>
                          ELSE Extended(g[s \ {Max(s)}], Parameters[Max(s)])]

LEMMA MaxUpto ==
  ASSUME NEW n \in Nat, NEW s \in SUBSET (1..(n + 1)), n + 1 \in s
  PROVE  Max(s) = n + 1
  <1>1. \A y \in s : n + 1 >= y
    OBVIOUS
  <1> DEFINE m == CHOOSE x \in s : \A y \in s : x >= y
  <1>2. m \in s /\ \A y \in s : m >= y
    BY <1>1
  <1> HIDE DEF m
  <1>3. m = n + 1
    BY <1>2
  <1> QED
    BY <1>3 DEF Max, m

LEMMA FoldsExists ==
  ASSUME NEW L \in Nat
  PROVE  \E g : FoldsSets(g, 1..L)
  <1> DEFINE P == {n \in Nat : \E g : FoldsSets(g, 1..n)}
  <1>1. 0 \in P
    <2>1. FoldsSets([s \in SUBSET (1..0) |-> <<NoSettings>>], 1..0)
      BY DEF FoldsSets
    <2> QED
      BY <2>1
  <1>2. ASSUME NEW n \in Nat, n \in P PROVE n + 1 \in P
    <2>1. PICK g : FoldsSets(g, 1..n)
      BY <1>2
    <2> DEFINE h == [s \in SUBSET (1..(n + 1)) |->
                       IF n + 1 \in s THEN Extended(g[s \ {n + 1}], Parameters[n + 1]) ELSE g[s]]
               value(f, s) == IF s = {} THEN <<NoSettings>>
                              ELSE Extended(f[s \ {Max(s)}], Parameters[Max(s)])
    <2>2. \A s \in SUBSET (1..n) : g[s] = value(g, s)
      BY <2>1 DEF FoldsSets
    <2>3. \A s \in SUBSET (1..n) : s \in SUBSET (1..(n + 1)) /\ n + 1 \notin s
      OBVIOUS
    <2>4. \A s \in SUBSET (1..n) : h[s] = g[s]
      BY <2>3
    <2>5. ASSUME NEW s \in SUBSET (1..(n + 1)) PROVE h[s] = value(h, s)
      <3>1. CASE n + 1 \in s
        <4>1. Max(s) = n + 1
          BY <3>1, MaxUpto
        <4>3. s # {} /\ s \ {n + 1} \in SUBSET (1..n)
          BY <3>1
        <4>2. h[s] = Extended(g[s \ {n + 1}], Parameters[n + 1])
          BY <3>1
        <4> HIDE DEF h
        <4> QED
          BY <2>4, <4>1, <4>2, <4>3
      <3>2. CASE n + 1 \notin s
        <4>1. s \in SUBSET (1..n)
          BY <3>2
        <4>2. s \ {Max(s)} \in SUBSET (1..n)
          BY <4>1
        <4> HIDE DEF h
        <4> QED
          BY <2>2, <2>4, <4>1, <4>2
      <3> QED
        BY <3>1, <3>2
    <2>6. h = [s \in SUBSET (1..(n + 1)) |-> h[s]]
      OBVIOUS
    <2> HIDE DEF h
    <2>7. FoldsSets(h, 1..(n + 1))
      BY <2>5, <2>6 DEF FoldsSets
    <2> QED
      BY <2>7
  <1> HIDE DEF P
  <1>3. L \in P
    BY <1>1, <1>2, EveryNatural
  <1> QED
    BY <1>3 DEF P

(* The values of a parameter.                                              *)

Steps(lo, hi, gap) == {v \in lo..hi : (v - lo) % gap = 0}

LEMMA UptoLists ==
  ASSUME NEW lo \in Int, NEW hi \in Int, NEW gap \in Nat \ {0}
  PROVE  Lists(Upto(lo, hi, gap), Steps(lo, hi, gap))
  <1> DEFINE q == (hi - lo) \div gap
             n == q + 1
             u == Upto(lo, hi, gap)
  <1>1. q \in Int /\ n \in Int
    BY Division
  <1>2. u = [i \in 1..n |-> lo + (i - 1) * gap]
    BY DEF Upto
  <1>3. \A d \in Int : d * gap \in Int /\ (d <= q <=> d * gap <= hi - lo)
    <2> SUFFICES ASSUME NEW d \in Int PROVE d * gap \in Int /\ (d <= q <=> d * gap <= hi - lo)
      OBVIOUS
    <2>1. PICK r \in 0..(gap - 1) : hi - lo = q * gap + r
      <3>1. hi - lo \in Int
        OBVIOUS
      <3>2. hi - lo = gap * q + ((hi - lo) % gap) /\ (hi - lo) % gap \in 0..(gap - 1)
        BY <3>1, Division
      <3>3. gap * q = q * gap
        BY <1>1
      <3> QED
        BY <3>2, <3>3
    <2> HIDE DEF q
    <2>2. d * gap \in Int /\ q * gap \in Int /\ (d <= q => d * gap <= q * gap)
      BY <1>1, Products
    <2>3. q < d => q * gap + gap <= d * gap
      BY <1>1, Products
    <2> QED
      BY <1>1, <2>1, <2>2, <2>3
  <1> HIDE DEF q
  <1>4. ASSUME NEW i \in 1..n PROVE u[i] \in Steps(lo, hi, gap)
    <2>1. i - 1 \in Nat /\ i - 1 <= q
      BY <1>1
    <2>2. (i - 1) * gap \in Nat /\ (i - 1) * gap <= hi - lo
      BY <1>3, <2>1, Products
    <2>3. ((i - 1) * gap + 0) % gap = 0 /\ 0 \in 0..(gap - 1)
      BY <2>1, Quotient
    <2>4. \A m \in Nat : m <= hi - lo => lo + m \in lo..hi /\ (lo + m) - lo = m + 0
      OBVIOUS
    <2>5. u[i] = lo + (i - 1) * gap
      BY <1>2
    <2> QED
      BY <2>2, <2>3, <2>4, <2>5 DEF Steps
  <1>5. ASSUME NEW v \in Steps(lo, hi, gap)
        PROVE  \E i \in 1..n : u[i] = v /\ \A j \in 1..n : u[j] = v => j = i
    <2>1. v \in Int /\ v - lo \in Nat /\ (v - lo) % gap = 0 /\ v - lo <= hi - lo
      BY DEF Steps
    <2>2. PICK d \in Int : v - lo = d * gap
      <3>1. PICK a \in Int : a = v - lo /\ a % gap = 0
        BY <2>1
      <3>2. a \div gap \in Int /\ a = gap * (a \div gap) + (a % gap)
        BY Division
      <3>3. \A x \in Int : gap * x + 0 = x * gap
        OBVIOUS
      <3> QED
        BY <3>1, <3>2, <3>3
    <2>3. d <= q
      BY <1>3, <2>1, <2>2
    <2>4. d >= 0
      <3>1. d < 0 => d * gap + gap <= 0 * gap
        BY 0 \in Int, Products
      <3>2. 0 * gap = 0
        OBVIOUS
      <3> QED
        BY <2>1, <2>2, <3>1, <3>2
    <2>5. d + 1 \in 1..n /\ (d + 1) - 1 = d
      BY <1>1, <2>3, <2>4
    <2>6. u[d + 1] = v
      BY <1>2, <2>1, <2>2, <2>5
    <2>7. ASSUME NEW j \in 1..n, u[j] = v PROVE j = d + 1
      <3>1. j - 1 \in Int /\ j \in Int
        OBVIOUS
      <3>2. lo + (j - 1) * gap = lo + d * gap
        BY <1>2, <2>1, <2>2, <2>7
      <3>3. (j - 1) * gap = d * gap
        <4>1. (j - 1) * gap \in Int /\ d * gap \in Int
          BY <1>3, <3>1
        <4>2. \A x, y \in Int : lo + x = lo + y => x = y
          OBVIOUS
        <4> QED
          BY <3>2, <4>1, <4>2
      <3>4. j - 1 <= d /\ d <= j - 1
        BY <3>1, <3>3, Products
      <3> QED
        BY <3>1, <3>4
    <2> QED
      BY <2>5, <2>6, <2>7
  <1>6. DOMAIN u = 1..n /\ u \in Seq(Steps(lo, hi, gap))
    <2>1. u \in [1..n -> Steps(lo, hi, gap)]
      <3> HIDE DEF n
      <3>1. DOMAIN u = 1..n /\ u = [i \in 1..n |-> u[i]]
        BY <1>2
      <3> HIDE DEF u
      <3> QED
        BY <1>4, <3>1
    <2>2. PICK m \in Nat : 1..n = 1..m
      <3>1. CASE n \in Nat
        BY <3>1
      <3>2. CASE n \notin Nat
        BY <1>1, <3>2, 1..n = 1..0
      <3> QED
        BY <3>1, <3>2
    <2> HIDE DEF u, n
    <2>3. DOMAIN u = 1..n /\ u \in [1..m -> Steps(lo, hi, gap)]
      BY <2>1, <2>2
    <2>4. \A T : [1..m -> T] \subseteq Seq(T)
      OBVIOUS
    <2> QED
      BY <2>3, <2>4
  <1> HIDE DEF u, n
  <1>7. Lists(u, Steps(lo, hi, gap))
    BY <1>5, <1>6 DEF Lists
  <1> QED
    BY <1>7 DEF u

(* Floats that rounding does not change, and a range that ends on a gap.  *)
OnGrid(param) ==
  param.type = "float" =>
    /\ param.min % 10 = 0 /\ param.step % 10 = 0
    /\ (param.max - param.min) % param.step = 0

LEMMA RoundedGrid ==
  ASSUME NEW v \in Int, v % 10 = 0
  PROVE  Rounded(v) = v
  BY DEF Rounded

LEMMA ValuesLists ==
  ASSUME NEW k \in DOMAIN Parameters, OnGrid(Parameters[k])
  PROVE  Lists(Values(Parameters[k]), Allowed(Parameters[k]))
  <1> DEFINE p == Parameters[k]
  <1>1. /\ p.type \in {"bool", "int", "float"}
        /\ p.type # "bool" => p.min \in Int /\ p.max \in Int /\ p.step \in Nat \ {0}
    BY ParameterAssumption DEF Kinds
  <1>2. CASE p.type = "bool"
    <2>1. Values(p) = <<0, 1>> /\ Allowed(p) = {0, 1}
      BY <1>2 DEF Values, Allowed
    <2>2. Lists(<<0, 1>>, {0, 1})
      BY DEF Lists
    <2> QED
      BY <2>1, <2>2
  <1>3. CASE p.type = "int"
    <2>1. Values(p) = Upto(p.min, p.max, p.step) /\ Allowed(p) = Steps(p.min, p.max, p.step)
      BY <1>3 DEF Values, Allowed, Steps
    <2> QED
      BY <1>1, <1>3, <2>1, UptoLists
  <1>4. CASE p.type = "float"
    <2> DEFINE lo == p.min
               hi == p.max
               gap == p.step
               exact == Upto(lo, hi + (gap \div 2), gap)
    <2>1. /\ lo \in Int /\ hi \in Int /\ gap \in Nat \ {0}
          /\ lo % 10 = 0 /\ gap % 10 = 0 /\ (hi - lo) % gap = 0
      BY <1>1, <1>4 DEF OnGrid
    <2>2. Values(p) = [i \in DOMAIN exact |-> Rounded(exact[i])]
      BY <1>4 DEF Values
    <2>3. Allowed(p) = Steps(lo, hi, gap)
      BY <1>4 DEF Allowed, Steps
    <2> HIDE DEF p, lo, hi, gap
    <2>4. exact = Upto(lo, hi, gap)
      <3>1. PICK a \in Int : a = hi - lo /\ a % gap = 0
        BY <2>1
      <3>2. PICK q \in Int : q = a \div gap /\ a = q * gap
        <4>1. a \div gap \in Int /\ a = gap * (a \div gap) + (a % gap)
          BY <2>1, Division
        <4>2. \A x \in Int : gap * x + 0 = x * gap
          BY <2>1
        <4> QED
          BY <3>1, <4>1, <4>2
      <3>3. gap \div 2 \in 0..(gap - 1) /\ q * gap \in Int
        BY <2>1
      <3>4. (hi + (gap \div 2)) - lo = q * gap + (gap \div 2)
        <4>1. \A h \in Int : (hi + h) - lo = (hi - lo) + h
          BY <2>1
        <4> QED
          BY <3>1, <3>2, <3>3, <4>1
      <3>5. ((hi + (gap \div 2)) - lo) \div gap = q
        BY <2>1, <3>3, <3>4, Quotient
      <3> QED
        BY <3>1, <3>2, <3>5 DEF Upto
    <2>5. Lists(exact, Steps(lo, hi, gap))
      BY <2>1, <2>4, UptoLists
    <2>6. ASSUME NEW i \in DOMAIN exact PROVE Rounded(exact[i]) = exact[i]
      <3>1. PICK d \in Int : exact[i] = lo + d * gap
        <4>1. i - 1 \in Int
          BY <2>5 DEF Lists
        <4>2. exact[i] = lo + (i - 1) * gap
          BY <2>4 DEF Upto
        <4> QED
          BY <4>1, <4>2
      <3>2. PICK a \in Int, b \in Int : lo = 10 * a /\ gap = 10 * b
        <4>0. gap \in Int /\ 10 \in Nat \ {0}
          BY <2>1
        <4>1. lo = 10 * (lo \div 10) + (lo % 10) /\ gap = 10 * (gap \div 10) + (gap % 10)
          BY <2>1, <4>0, Division
        <4>2. lo \div 10 \in Int /\ gap \div 10 \in Int
          BY <2>1, <4>0, Division
        <4>3. \A x \in Int : 10 * x + 0 = 10 * x
          OBVIOUS
        <4> QED
          BY <2>1, <4>1, <4>2, <4>3
      <3>3. exact[i] = (a + d * b) * 10 + 0 /\ a + d * b \in Int
        <4>1. d * (10 * b) = 10 * (d * b) /\ d * b \in Int
          OBVIOUS
        <4> QED
          BY <3>1, <3>2, <4>1
      <3>4. exact[i] \in Int /\ exact[i] % 10 = 0
        BY <3>3, Quotient
      <3> QED
        BY <3>4, RoundedGrid
    <2>7. exact \in Seq(Steps(lo, hi, gap))
      BY <2>5 DEF Lists
    <2>8. [i \in DOMAIN exact |-> Rounded(exact[i])] = exact
      <3>1. exact = [i \in DOMAIN exact |-> exact[i]]
        BY <2>7
      <3> QED
        BY <2>6, <3>1
    <2> HIDE DEF exact
    <2> QED
      BY <2>2, <2>3, <2>5, <2>8 DEF p
  <1> QED
    BY <1>1, <1>2, <1>3, <1>4

(* The combinations of the first parameters.                               *)

Names(k) == {Parameters[i].name : i \in 1..k}

AnyValue == UNION {Allowed(Parameters[i]) : i \in DOMAIN Parameters}

Combos(k) ==
  {f \in [Names(k) -> AnyValue] :
     \A i \in 1..k : f[Parameters[i].name] \in Allowed(Parameters[i])}

LEMMA FirstCombos == Lists(<<NoSettings>>, Combos(0))
  <1>1. /\ Names(0) = {} /\ NoSettings \in [{} -> AnyValue]
        /\ \A f \in [{} -> AnyValue] : f = NoSettings
    BY DEF Names, NoSettings
  <1>2. Combos(0) = {NoSettings}
    <2>1. \A i \in 1..0 : FALSE
      OBVIOUS
    <2>2. Combos(0) = [{} -> AnyValue]
      BY <1>1, <2>1 DEF Combos
    <2> QED
      BY <1>1, <2>2
  <1> QED
    BY <1>2 DEF Lists

LEMMA NextCombos ==
  ASSUME NEW k \in Nat, k + 1 \in DOMAIN Parameters
  PROVE  LET p == Parameters[k + 1]
         IN  /\ p.name \notin Names(k)
             /\ \A f \in Combos(k) : f = [x \in Names(k) |-> f[x]]
             /\ Combos(k + 1) = {Assign(f, p.name, a) : f \in Combos(k), a \in Allowed(p)}
  <1> DEFINE p == Parameters[k + 1]
             N == Names(k)
             M == Names(k + 1)
  <1>1. k + 1 \in 1..Len(Parameters) /\ \A i \in 1..(k + 1) : i \in DOMAIN Parameters
    BY ParameterAssumption
  <1>2. p.name \notin N
    BY <1>1, ParameterAssumption DEF Names
  <1>3. M = N \cup {p.name}
    <2>1. 1..(k + 1) = 1..k \cup {k + 1}
      OBVIOUS
    <2> QED
      BY <2>1 DEF Names
  <1>4. Allowed(p) \subseteq AnyValue
    BY DEF AnyValue
  <1>5. \A f \in Combos(k) : f \in [N -> AnyValue]
    BY DEF Combos
  <1>6. \A i \in 1..k : Parameters[i].name \in N
    BY DEF Names
  <1> HIDE DEF N, M, p
  <1>7. ASSUME NEW f \in Combos(k), NEW a \in Allowed(p)
        PROVE  Assign(f, p.name, a) \in Combos(k + 1)
    <2> DEFINE g == Assign(f, p.name, a)
    <2>1. f \in [N -> AnyValue] /\ g = [x \in M |-> IF x = p.name THEN a ELSE f[x]]
      BY <1>3, <1>5 DEF Assign
    <2>2. g \in [M -> AnyValue]
      BY <1>3, <1>4, <2>1
    <2>3. \A i \in 1..k : g[Parameters[i].name] = f[Parameters[i].name]
      BY <1>2, <1>3, <1>6, <2>1
    <2>4. g[p.name] = a
      BY <1>3, <2>1
    <2> HIDE DEF g
    <2>5. \A i \in 1..(k + 1) : g[Parameters[i].name] \in Allowed(Parameters[i])
      <3> SUFFICES ASSUME NEW i \in 1..(k + 1)
                   PROVE  g[Parameters[i].name] \in Allowed(Parameters[i])
        OBVIOUS
      <3>1. CASE i = k + 1
        BY <1>7, <2>4, <3>1 DEF p
      <3>2. CASE i \in 1..k
        BY <2>3, <3>2 DEF Combos
      <3> QED
        BY <3>1, <3>2
    <2> QED
      BY <2>2, <2>5 DEF Combos, M, g
  <1>8. ASSUME NEW g \in Combos(k + 1)
        PROVE  \E f \in Combos(k), a \in Allowed(p) : g = Assign(f, p.name, a)
    <2> DEFINE f == [x \in N |-> g[x]]
               a == g[p.name]
    <2>1. g \in [M -> AnyValue]
      BY DEF Combos, M
    <2>2. a \in Allowed(p)
      <3>1. k + 1 \in 1..(k + 1)
        OBVIOUS
      <3> QED
        BY <3>1 DEF Combos, p
    <2>3. f \in Combos(k)
      <3>1. f \in [N -> AnyValue]
        BY <1>3, <2>1
      <3>2. \A i \in 1..k : f[Parameters[i].name] = g[Parameters[i].name] /\ i \in 1..(k + 1)
        BY <1>6
      <3>3. \A i \in 1..k : f[Parameters[i].name] \in Allowed(Parameters[i])
        BY <3>2 DEF Combos
      <3> QED
        BY <3>1, <3>3 DEF Combos, N
    <2>4. g = Assign(f, p.name, a)
      BY <1>3, <2>1 DEF Assign
    <2> QED
      BY <2>2, <2>3, <2>4
  <1>9. Combos(k + 1) = {Assign(f, p.name, a) : f \in Combos(k), a \in Allowed(p)}
    BY <1>7, <1>8
  <1>10. \A f \in Combos(k) : f = [x \in N |-> f[x]]
    BY <1>5
  <1> QED
    BY <1>2, <1>9, <1>10 DEF p, N

Gridded == \A k \in DOMAIN Parameters : OnGrid(Parameters[k])

(* The sets of parameters are the combinations, each of them once.         *)
LEMMA SetsAreCombinations ==
  ASSUME Gridded
  PROVE  Lists(ParameterSets, Combinations)
  <1> DEFINE L == Len(Parameters)
             g == CHOOSE h : FoldsSets(h, 1..L)
  <1>1. L \in Nat /\ DOMAIN Parameters = 1..L
    BY ParameterAssumption
  <1>2. ParameterSets = g[1..L]
    BY <1>1 DEF ParameterSets, FoldLeft, MapThenFoldSet, FoldsSets
  <1>3. FoldsSets(g, 1..L)
    BY <1>1, FoldsExists
  <1> HIDE DEF g, L
  <1> DEFINE P == {k \in Nat : k <= L => Lists(g[1..k], Combos(k))}
  <1>4. 0 \in P
    <2>1. g[1..0] = <<NoSettings>>
      BY <1>3 DEF FoldsSets
    <2> QED
      BY <2>1, FirstCombos
  <1>5. ASSUME NEW k \in Nat, k \in P PROVE k + 1 \in P
    <2> SUFFICES ASSUME k + 1 <= L PROVE Lists(g[1..(k + 1)], Combos(k + 1))
      OBVIOUS
    <2> DEFINE p == Parameters[k + 1]
    <2>1. k + 1 \in DOMAIN Parameters /\ Lists(g[1..k], Combos(k))
      BY <1>1, <1>5
    <2>2. g[1..(k + 1)] = Extended(g[1..k], p)
      <3>1. Max(1..(k + 1)) = k + 1
        BY MaxUpto
      <3>2. k + 1 \in 1..(k + 1) /\ (1..(k + 1)) \ {k + 1} = 1..k
        OBVIOUS
      <3>3. 1..(k + 1) \in SUBSET (1..L)
        BY <1>1
      <3> QED
        BY <1>3, <3>1, <3>2, <3>3 DEF FoldsSets
    <2>3. Lists(Values(p), Allowed(p))
      BY <2>1, ValuesLists DEF Gridded
    <2>4. /\ p.name \notin Names(k)
          /\ \A f \in Combos(k) : f = [x \in Names(k) |-> f[x]]
          /\ Combos(k + 1) = {Assign(f, p.name, a) : f \in Combos(k), a \in Allowed(p)}
      BY <2>1, NextCombos
    <2>5. Lists(Extended(g[1..k], p), Combos(k + 1))
      BY <2>1, <2>3, <2>4, ExtendedLists
    <2> QED
      BY <2>2, <2>5
  <1> HIDE DEF P
  <1>6. L \in P
    BY <1>1, <1>4, <1>5, EveryNatural
  <1>7. Lists(g[1..L], Combos(L))
    BY <1>1, <1>6 DEF P
  <1>8. Combos(L) = Combinations
    BY <1>1 DEF Combos, Combinations, Names, Name, AnyValue
  <1> QED
    BY <1>2, <1>7, <1>8

-----------------------------------------------------------------------------
(* Outcomes.                                                               *)

Ended(j) == pc[j] \in {"release", "done"}

(* A goroutine that has ended has one result or one failure, and any other *)
(* has none; when Optimize has returned, all have ended.                   *)
Counted ==
  /\ pc \in [Job -> Label]
  /\ \A j \in Job :
       /\ ~Ended(j) => j \notin failed /\ \A r \in results : r.job # j
       /\ Ended(j) =>
            \/ j \in failed /\ \A r \in results : r.job # j
            \/ j \notin failed /\ \E r \in results :
                 r.job = j /\ \A s \in results : s.job = j => s = r
  /\ Returned => Finished

LEMMA CountedOn ==
  ASSUME Counted, NEW j \in Job, ~Ended(j), UNCHANGED <<main, results, failed>>,
         NEW next \in Label \ {"release", "done"},
         pc' = [pc EXCEPT ![j] = next] \/ UNCHANGED pc
  PROVE  Counted'
  <1>1. pc' \in [Job -> Label] /\ \A i \in Job : Ended(i)' <=> Ended(i)
    BY DEF Counted, Ended
  <1>2. ~Returned
    BY DEF Counted, Ended, Finished
  <1> QED
    BY <1>1, <1>2 DEF Counted, Returned

LEMMA CountedFail ==
  ASSUME Counted, NEW j \in Job, ~Ended(j), UNCHANGED <<main, results>>, Fail(j)
  PROVE  Counted'
  <1>1. pc' = [pc EXCEPT ![j] = "release"] /\ failed' = failed \cup {j}
    BY DEF Fail, Goto
  <1>2. pc' \in [Job -> Label] /\ Ended(j)' /\ \A i \in Job : i # j => (Ended(i)' <=> Ended(i))
    BY <1>1 DEF Counted, Ended, Label
  <1>3. ~Returned
    BY DEF Counted, Ended, Finished
  <1> QED
    BY <1>1, <1>2, <1>3 DEF Counted, Returned

LEMMA CountedWorker ==
  ASSUME Counted, NEW j \in Job, Worker(j)
  PROVE  Counted'
  <1> DEFINE On(next) == /\ UNCHANGED <<main, results, failed>>
                         /\ pc' = [pc EXCEPT ![j] = next] \/ UNCHANGED pc
             Failed == UNCHANGED <<main, results>> /\ Fail(j)
  <1>1. ASSUME ~Ended(j), NEW next \in Label \ {"release", "done"}, On(next) PROVE Counted'
    BY <1>1, CountedOn
  <1>2. ASSUME ~Ended(j), Failed PROVE Counted'
    BY <1>2, CountedFail
  <1> USE DEF Goto, Label, Capturing, Ended, output
  <1>3. CASE SetDefault(j)
    BY <1>3, <1>1 DEF SetDefault
  <1>4. CASE LookUpCoins(j)
    BY <1>4, <1>1, <1>2 DEF LookUpCoins
  <1>5. CASE ReadDefault(j)
    BY <1>5, <1>1, <1>2 DEF ReadDefault, Assemble
  <1>6. CASE SaveStderr(j)
    BY <1>6, <1>1 DEF SaveStderr
  <1>7. CASE DiscardStderr(j)
    BY <1>7, <1>1 DEF DiscardStderr
  <1>8. CASE Backtest(j)
    BY <1>8, <1>1, <1>2 DEF Backtest
  <1>9. CASE CaptureBegin(j)
    BY <1>9, <1>1, <1>2 DEF CaptureBegin
  <1>10. CASE Redirect(j)
    BY <1>10, <1>1 DEF Redirect
  <1>11. CASE PrintSummary(j)
    BY <1>11, <1>1 DEF PrintSummary
  <1>12. CASE CaptureEnd(j)
    BY <1>12, <1>1, <1>2 DEF CaptureEnd
  <1>13. CASE AddResult(j)
    <2>1. ~Ended(j) /\ UNCHANGED main
      BY <1>13 DEF AddResult
    <2>2. CASE Failed
      BY <1>2, <2>1, <2>2
    <2>3. ASSUME NEW r, r.job = j, results' = results \cup {r}, UNCHANGED failed,
                 pc' = [pc EXCEPT ![j] = "release"]
          PROVE  Counted'
      <3>1. pc' \in [Job -> Label] /\ Ended(j)' /\ \A i \in Job : i # j => (Ended(i)' <=> Ended(i))
        BY <2>3 DEF Counted
      <3>2. ~Returned
        BY <2>1 DEF Counted, Finished
      <3>3. ~Returned'
        BY <2>1, <3>2 DEF Returned
      <3>4. ASSUME NEW i \in Job, i # j PROVE
               /\ ~Ended(i)' => i \notin failed' /\ \A s \in results' : s.job # i
               /\ Ended(i)' =>
                    \/ i \in failed' /\ \A s \in results' : s.job # i
                    \/ i \notin failed' /\ \E s \in results' :
                         s.job = i /\ \A t \in results' : t.job = i => t = s
        <4>1. \A s \in results' : s.job = i => s \in results
          BY <2>3, <3>4
        <4> QED
          BY <2>3, <3>1, <3>4, <4>1 DEF Counted
      <3>5. j \notin failed' /\ r \in results' /\ \A t \in results' : t.job = j => t = r
        BY <2>1, <2>3 DEF Counted
      <3> QED
        BY <2>3, <3>1, <3>3, <3>4, <3>5 DEF Counted
    <2> QED
      BY <1>13, <2>1, <2>2, <2>3 DEF AddResult
  <1>14. CASE Release(j)
    <2>1. /\ pc[j] = "release" /\ pc' = [pc EXCEPT ![j] = "done"]
          /\ UNCHANGED <<main, results, failed>>
      BY <1>14 DEF Release
    <2>2. pc' \in [Job -> Label] /\ \A i \in Job : Ended(i)' <=> Ended(i)
      BY <2>1 DEF Counted
    <2>3. ~Returned
      BY <2>1 DEF Counted, Finished
    <2> QED
      BY <2>1, <2>2, <2>3 DEF Counted, Returned
  <1> QED
    BY <1>3, <1>4, <1>5, <1>6, <1>7, <1>8, <1>9, <1>10, <1>11, <1>12, <1>13, <1>14 DEF Worker

LEMMA CountedInit == Start => Counted
  BY DEF Start, Counted, Ended, Label, Returned

LEMMA CountedStep == Counted /\ [Next]_vars => Counted'
  <1> SUFFICES ASSUME Counted, [Next]_vars PROVE Counted'
    OBVIOUS
  <1>1. ASSUME UNCHANGED <<main, pc, results, failed>> PROVE Counted'
    BY <1>1 DEF Counted, Ended, Returned, Finished
  <1>2. CASE Launch
    <2>1. PICK j \in Job : /\ pc[j] = "waiting" /\ pc' = [pc EXCEPT ![j] = "config"]
                           /\ UNCHANGED <<results, failed>>
      BY <1>2 DEF Launch, Goto
    <2>2. pc' \in [Job -> Label] /\ \A i \in Job : Ended(i)' <=> Ended(i)
      BY <2>1 DEF Counted, Ended, Label
    <2>3. ~Returned'
      BY <1>2 DEF Launch, Returned
    <2> QED
      BY <2>1, <2>2, <2>3 DEF Counted
  <1>3. CASE Sort
    BY <1>3 DEF Sort, Counted, Ended, Returned, Finished
  <1>4. CASE SaveConfig
    BY <1>4 DEF SaveConfig, Counted, Ended, Returned, Finished
  <1>5. ASSUME NEW j \in Job, Worker(j) PROVE Counted'
    BY <1>5, CountedWorker
  <1>6. CASE Crash
    BY <1>6 DEF Crash, Counted, Ended, Label, Returned
  <1>7. CASE CacheExpires \/ UNCHANGED vars
    BY <1>7, <1>1 DEF CacheExpires, vars
  <1> QED
    BY <1>2, <1>3, <1>4, <1>5, <1>6, <1>7 DEF Next, Optimize

(* Optimize returns after every combination was tried once, with one       *)
(* result or one error for each, for any parameters whose ranges end on a  *)
(* step and are not changed by rounding.                                   *)
THEOREM AllSetsAreTried == Gridded /\ Spec => []EverySetIsTried
  <1> SUFFICES ASSUME Gridded PROVE Spec => []EverySetIsTried
    OBVIOUS
  <1>1. \A f \in Combinations : Cardinality({j \in Job : ParameterSets[j] = f}) = 1
    BY SetsAreCombinations, ListedOnce DEF Job
  <1>2. ASSUME Counted, Returned, NEW j \in Job PROVE Outcomes(j) = 1
    <2>1. Ended(j)
      BY <1>2 DEF Counted, Finished, Ended
    <2>2. CASE j \in failed /\ \A r \in results : r.job # j
      <3>1. {r \in results : r.job = j} = {}
        BY <2>2
      <3> QED
        BY <2>2, <3>1, FS_EmptySet DEF Outcomes
    <2>3. ASSUME j \notin failed, NEW r \in results, r.job = j,
                 \A s \in results : s.job = j => s = r
          PROVE  Outcomes(j) = 1
      <3>1. {s \in results : s.job = j} = {r}
        BY <2>3
      <3>2. Cardinality({r}) = 1
        BY FS_Singleton
      <3> QED
        BY <2>3, <3>1, <3>2 DEF Outcomes
    <2> QED
      BY <1>2, <2>1, <2>2, <2>3 DEF Counted
  <1>3. Counted => EverySetIsTried
    BY <1>1, <1>2 DEF EverySetIsTried
  <1>4. Init => Counted
    BY CountedInit DEF Init
  <1> QED
    BY <1>3, <1>4, CountedStep, PTL DEF Spec

=============================================================================
