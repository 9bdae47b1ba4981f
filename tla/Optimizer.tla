----------------------------- MODULE Optimizer -----------------------------
(***************************************************************************)
(* The search for the best parameters of a strategy:                       *)
(* examples/optimizer/optimizer.go.  Optimize runs a backtest for every    *)
(* combination of the parameters' values, each in a goroutine of its own   *)
(* and WorkerCount at a time.  The goroutines share more than they should: *)
(* the copy of the configuration that each of them makes shares its list   *)
(* of parameters, os.Stderr is redirected by all of them at once, and      *)
(* os.Stdout and the buffer of Capture under a mutex.                      *)
(*                                                                         *)
(* A backtest is what its report says of the settings the strategy read.   *)
(* Numbers are thousandths, the rounding of floats to hundredths included. *)
(***************************************************************************)
EXTENDS Integers, SequencesExt, FiniteSetsExt

CONSTANTS
  Parameters,    \* config.Parameters: records of name, type, min, max and step
  WorkerCount,
  ReportOf(_),   \* what the report of a backtest says: its returns and drawdown
  Failing,       \* what may go wrong: "fetch", "create", "run", "capture"
  Nobody,
  MaxCrashes     \* bound: how often the process dies

Name == {Parameters[k].name : k \in DOMAIN Parameters}

Kinds == {"bool", "int", "float"}

ASSUME ParameterAssumption ==
  /\ Len(Parameters) \in Nat \ {0} /\ DOMAIN Parameters = 1..Len(Parameters)
  /\ \A k \in DOMAIN Parameters :
       /\ Parameters[k].type \in Kinds
       /\ Parameters[k].type # "bool" =>
            /\ Parameters[k].min \in Int /\ Parameters[k].max \in Int
            /\ Parameters[k].step \in Nat \ {0}
  /\ \A j, k \in DOMAIN Parameters : Parameters[j].name = Parameters[k].name => j = k

ASSUME WorkerAssumption == WorkerCount \in Nat \ {0} /\ MaxCrashes \in Nat

-----------------------------------------------------------------------------
(* The combinations.                                                       *)

Upto(min, max, step) == [i \in 1..((max - min) \div step + 1) |-> min + (i - 1) * step]

Rounded(v) == ((v + 5) \div 10) * 10

(* Mutant: the last value is left out.                                     *)
ValuesMutant(param) ==
  CASE param.type = "bool" -> <<0, 1>>
    [] param.type = "int" -> Upto(param.min, param.max - 1, param.step)
    [] param.type = "float" -> Upto(param.min, param.max, param.step)

(* The values generateParameterSets gives a parameter; false is 0.         *)
Values(param) ==
  CASE param.type = "bool" -> <<0, 1>>
    [] param.type = "int" -> Upto(param.min, param.max, param.step)
    [] param.type = "float" ->
         LET exact == Upto(param.min, param.max + param.step \div 2, param.step)
         IN  [i \in DOMAIN exact |-> Rounded(exact[i])]

Assign(settings, name, value) ==
  [n \in DOMAIN settings \cup {name} |-> IF n = name THEN value ELSE settings[n]]

NoSettings == [n \in {} |-> 0]

(* Each of the sets with each of the values.                               *)
Extended(sets, param) ==
  FlattenSeq([s \in DOMAIN sets |->
    [v \in DOMAIN Values(param) |-> Assign(sets[s], param.name, Values(param)[v])]])

(* generateCartesianProduct: one parameter after the other.                *)
ParameterSets == FoldLeft(Extended, <<NoSettings>>, Parameters)

Job == DOMAIN ParameterSets

Terminal == 0

(* A goroutine is told from the terminal, and from Nobody.                 *)
ASSUME JobAssumption == Terminal \notin Job /\ Nobody \notin Job

(* What the regular expressions find in a report: the line of the drawdown *)
(* is found only with its sign, hence not when there was no loss.          *)
Parsed(report) == report.negative

(* Returns less the risk-free rate of 2 %, by the drawdown, which is in    *)
(* hundredths of a percent, and one of them at least.                      *)
Sharpe(report) == ((report.returns - 20) * 1000) \div Max({1, report.drawdown})

-----------------------------------------------------------------------------

VARIABLES
  main,       \* what Optimize does
  pc,         \* where each goroutine is
  at,         \* the parameter its loop is at
  settings,   \* config.Parameters[..].Default, shared by all copies
  used,       \* what each strategy read when it was created
  stderr, oldStderr,
  stdout,     \* os.Stdout: the terminal, or the pipe of a goroutine
  oldStdout,  \* what Capture saved
  capturing,  \* the holder of globalCapturer.mu, or Nobody
  report,     \* outputCapturer.buffer: whose lines it has
  read,       \* what each goroutine was given as its output
  readError,  \* whether reading a pipe failed once
  results,    \* o.results: the set, what its backtest used, and its ratio
  failed,     \* history: the jobs that ended with an error
  best,       \* what Optimize returned
  crashes,
  cacheMutex, step, file, time

coins == <<cacheMutex, step, file, time>>
output == <<stdout, oldStdout, capturing, report, read, readError>>
errors == <<stderr, oldStderr>>
vars == <<main, pc, at, settings, used, errors, output, results, failed, best, crashes, coins>>

C == INSTANCE CoinsList WITH Reader <- Job, Faulty <- "fetch" \in Failing

Running == {j \in Job : pc[j] \notin {"waiting", "done"}}

Start ==
  /\ main = "launch"
  /\ pc = [j \in Job |-> "waiting"] /\ at = [j \in Job |-> 1]
  /\ settings = [n \in Name |-> 0] /\ used = [j \in Job |-> NoSettings]
  /\ stderr = "terminal" /\ oldStderr = "terminal"
  /\ stdout = Terminal /\ oldStdout = Terminal /\ capturing = Nobody
  /\ report = <<>> /\ read = [j \in Job |-> <<>>] /\ readError = FALSE
  /\ results = {} /\ failed = {} /\ best = NoSettings

Init == Start /\ crashes = 0 /\ C!CoinsInit

Goto(j, label) == pc' = [pc EXCEPT ![j] = label]

Fail(j) == Goto(j, "release") /\ failed' = failed \cup {j}

-----------------------------------------------------------------------------
(* Optimize                                                                *)

(* Whether the semaphore's channel has room.                               *)
Free == Cardinality(Running) < WorkerCount

(* The loop takes the semaphore before it starts a goroutine.              *)
Launch ==
  /\ main = "launch" /\ Free
  /\ \E j \in Job :
       /\ pc[j] = "waiting" /\ \A i \in Job : i < j => pc[i] # "waiting"
       /\ Goto(j, "config") /\ main' = IF j = Len(ParameterSets) THEN "wait" ELSE main
  /\ UNCHANGED <<at, settings, used, errors, output, results, failed, best, crashes, coins>>

(* wg.Wait                                                                 *)
Finished == \A j \in Job : pc[j] = "done"

(* Mutant: sorted in the other direction.                                  *)
AheadMutant(r, s) == r.sharpe <= s.sharpe

(* sort.Slice: which of the best comes first is not determined.            *)
Ahead(r, s) == r.sharpe >= s.sharpe

Sort ==
  /\ main = "wait" /\ Finished
  /\ IF results = {} THEN main' = "failed" /\ UNCHANGED best
     ELSE \E r \in results :
            (\A s \in results : Ahead(r, s)) /\ best' = r.parameters /\ main' = "save"
  /\ UNCHANGED <<pc, at, settings, used, errors, output, results, failed, crashes, coins>>

(* saveOptimizedConfig                                                     *)
SaveConfig ==
  /\ main = "save"
  /\ settings' = best
  /\ main' = "saved"
  /\ UNCHANGED <<pc, at, used, errors, output, results, failed, best, crashes, coins>>

-----------------------------------------------------------------------------
(* The goroutine of a set of parameters.                                   *)

(* One turn of the loop over the parameters of the copy.                   *)
SetDefault(j) ==
  /\ pc[j] = "config"
  /\ settings' = [settings EXCEPT ![Parameters[at[j]].name] =
                    ParameterSets[j][Parameters[at[j]].name]]
  /\ IF at[j] = Len(Parameters) THEN at' = [at EXCEPT ![j] = 1] /\ Goto(j, "coins")
                                ELSE at' = [at EXCEPT ![j] = @ + 1] /\ UNCHANGED pc
  /\ UNCHANGED <<main, used, errors, output, results, failed, best, crashes, coins>>

(* NewStrategyData                                                         *)
LookUpCoins(j) ==
  /\ pc[j] = "coins"
  /\ \/ C!Begin(j) /\ UNCHANGED <<pc, failed>>
     \/ C!Update(j) /\ UNCHANGED <<pc, failed>>
     \/ C!Found(j) /\ Goto(j, "create") /\ UNCHANGED failed
     \/ C!FetchFails(j) /\ Fail(j)
     \/ C!Unreadable(j) /\ Fail(j)
  /\ UNCHANGED <<main, at, settings, used, errors, output, results, best, crashes>>

(* The feed, the storage, the wallet and the bot, if nothing is missing.   *)
Assemble(j) ==
  \/ Goto(j, "stderr") /\ UNCHANGED failed
  \/ "create" \in Failing /\ Fail(j)

(* One turn of the loop of NewCrossEMA; after the last the rest is made.   *)
ReadDefault(j) ==
  /\ pc[j] = "create"
  /\ LET name == Parameters[at[j]].name
     IN  used' = [used EXCEPT ![j] = Assign(@, name, settings[name])]
  /\ IF at[j] < Len(Parameters)
       THEN at' = [at EXCEPT ![j] = @ + 1] /\ UNCHANGED <<pc, failed>>
       ELSE at' = [at EXCEPT ![j] = 1] /\ Assemble(j)
  /\ UNCHANGED <<main, settings, errors, output, results, best, crashes, coins>>

SaveStderr(j) ==
  /\ pc[j] = "stderr"
  /\ oldStderr' = stderr /\ Goto(j, "null")
  /\ UNCHANGED <<main, at, settings, used, stderr, output, results, failed, best, crashes, coins>>

DiscardStderr(j) ==
  /\ pc[j] = "null"
  /\ stderr' = "null" /\ Goto(j, "run")
  /\ UNCHANGED <<main, at, settings, used, oldStderr, output, results, failed, best, crashes,
                 coins>>

(* bot.Run                                                                 *)
Backtest(j) ==
  /\ pc[j] = "run"
  /\ stderr' = oldStderr
  /\ \/ Goto(j, "capture") /\ UNCHANGED failed
     \/ "run" \in Failing /\ Fail(j)
  /\ UNCHANGED <<main, at, settings, used, oldStderr, output, results, best, crashes, coins>>

(* Mutant: Capture without its mutex.                                      *)
MayCaptureMutant == TRUE

MayCapture == capturing = Nobody

CaptureBegin(j) ==
  /\ pc[j] = "capture" /\ MayCapture
  /\ report' = <<>>
  /\ \/ Goto(j, "redirect") /\ capturing' = j /\ UNCHANGED failed
     \/ "capture" \in Failing /\ Fail(j) /\ UNCHANGED capturing
  /\ UNCHANGED <<main, at, settings, used, errors, stdout, oldStdout, read, readError, results,
                 best, crashes, coins>>

Redirect(j) ==
  /\ pc[j] = "redirect"
  /\ oldStdout' = stdout /\ stdout' = j /\ Goto(j, "print")
  /\ UNCHANGED <<main, at, settings, used, errors, capturing, report, read, readError, results,
                 failed, best, crashes, coins>>

(* bot.Summary writes its lines to os.Stdout, whatever that is; the pipe   *)
(* is read into the buffer, and closed.                                    *)
PrintSummary(j) ==
  /\ pc[j] = "print"
  /\ report' = IF stdout = Terminal THEN report ELSE Append(report, j)
  /\ Goto(j, "restore")
  /\ UNCHANGED <<main, at, settings, used, errors, stdout, oldStdout, capturing, read,
                 readError, results, failed, best, crashes, coins>>

(* The deferred call.                                                      *)
Restored == oldStdout

(* An error of a read is kept by the capturer, and fails all later ones.   *)
CaptureEnd(j) ==
  /\ pc[j] = "restore"
  /\ readError' \in {readError} \cup (IF "capture" \in Failing THEN {TRUE} ELSE {})
  /\ stdout' = Restored /\ capturing' = Nobody
  /\ IF readError' THEN Fail(j) /\ UNCHANGED read
     ELSE read' = [read EXCEPT ![j] = report] /\ Goto(j, "parse") /\ UNCHANGED failed
  /\ UNCHANGED <<main, at, settings, used, errors, oldStdout, report, results, best, crashes,
                 coins>>

(* An output that is too short is an error.  One that cannot be parsed is  *)
(* logged as a failure, but the error returned for it is nil: it becomes a *)
(* result of zeros.                                                        *)
AddResult(j) ==
  /\ pc[j] = "parse"
  /\ IF read[j] = <<>> THEN Fail(j) /\ UNCHANGED results
     ELSE LET said == ReportOf(used[Last(read[j])])
          IN  /\ results' = results \cup
                   {[job |-> j, parameters |-> ParameterSets[j], used |-> used[j],
                     sharpe |-> IF Parsed(said) THEN Sharpe(said) ELSE 0]}
              /\ Goto(j, "release") /\ UNCHANGED failed
  /\ read' = [read EXCEPT ![j] = <<>>] /\ used' = [used EXCEPT ![j] = NoSettings]
  /\ UNCHANGED <<main, at, settings, errors, stdout, oldStdout, capturing, report, readError,
                 best, crashes, coins>>

(* Mutant: a worker that failed keeps its place.                           *)
ReleasesMutant(j) == j \notin failed

(* The deferred calls release the semaphore, whatever happened.            *)
Releases(j) == TRUE

Release(j) ==
  /\ pc[j] = "release" /\ Releases(j)
  /\ Goto(j, "done")
  /\ UNCHANGED <<main, at, settings, used, errors, output, results, failed, best, crashes, coins>>

Worker(j) ==
  \/ SetDefault(j) \/ LookUpCoins(j) \/ ReadDefault(j)
  \/ SaveStderr(j) \/ DiscardStderr(j) \/ Backtest(j)
  \/ CaptureBegin(j) \/ Redirect(j) \/ PrintSummary(j) \/ CaptureEnd(j)
  \/ AddResult(j) \/ Release(j)

Optimize == Launch \/ Sort \/ SaveConfig

(* The process dies and is started again.                                  *)
Crash ==
  /\ crashes < MaxCrashes
  /\ crashes' = crashes + 1
  /\ C!CoinsRestart
  /\ main' = "launch"
  /\ pc' = [j \in Job |-> "waiting"] /\ at' = [j \in Job |-> 1]
  /\ settings' = [n \in Name |-> 0] /\ used' = [j \in Job |-> NoSettings]
  /\ stderr' = "terminal" /\ oldStderr' = "terminal"
  /\ stdout' = Terminal /\ oldStdout' = Terminal /\ capturing' = Nobody
  /\ report' = <<>> /\ read' = [j \in Job |-> <<>>] /\ readError' = FALSE
  /\ results' = {} /\ failed' = {} /\ best' = NoSettings

CacheExpires ==
  /\ C!Expire
  /\ UNCHANGED <<main, pc, at, settings, used, errors, output, results, failed, best, crashes>>

Next == Optimize \/ (\E j \in Job : Worker(j)) \/ Crash \/ CacheExpires

Spec == Init /\ [][Next]_vars

(* The goroutines are scheduled, and a mutex is not withheld forever.      *)
FairSpec ==
  /\ Spec
  /\ WF_vars(Optimize)
  /\ \A j \in Job : WF_vars(Worker(j)) /\ SF_vars(CaptureBegin(j)) /\ SF_vars(LookUpCoins(j))

-----------------------------------------------------------------------------
(* Properties.                                                             *)

Returned == main \in {"failed", "save", "saved"}

(* All reports pass through the one os.Stdout and the one buffer.  A       *)
(* backtest is given the report of its own bot, whole and alone; between   *)
(* two captures the output goes to the terminal again, also after failures.*)
CaptureIsExclusive ==
  /\ \A j \in Job : read[j] \in {<<>>, <<j>>}
  /\ capturing = Nobody => stdout = Terminal

Allowed(p) ==
  IF p.type = "bool" THEN {0, 1} ELSE {v \in p.min..p.max : (v - p.min) % p.step = 0}

Combinations ==
  {f \in [Name -> UNION {Allowed(Parameters[k]) : k \in DOMAIN Parameters}] :
     \A k \in DOMAIN Parameters : f[Parameters[k].name] \in Allowed(Parameters[k])}

Outcomes(j) == Cardinality({r \in results : r.job = j}) + (IF j \in failed THEN 1 ELSE 0)

(* When Optimize returns, every combination of the values from each        *)
(* parameter's minimum to its maximum was tried once, and has one result   *)
(* or an error.                                                            *)
EverySetIsTried ==
  Returned =>
    /\ \A f \in Combinations : Cardinality({j \in Job : ParameterSets[j] = f}) = 1
    /\ \A j \in Job : Outcomes(j) = 1

(* What is saved in the end is the configuration with the best result.     *)
SavedIsBest ==
  main = "saved" =>
    /\ settings = best
    /\ \E r \in results :
         r.parameters = settings /\ \A s \in results : s.sharpe <= r.sharpe

(* The cache of the coins.                                                 *)
FreshIsWhole == C!FreshIsWhole

(* Optimize returns, whatever fails, unless the process dies.              *)
Returns == <>Returned

=============================================================================
