------------------------- MODULE WalkForwardRunner -------------------------
(***************************************************************************)
(* The walk-forward runner (walkforward/src/window.rs, runner.rs and       *)
(* result.rs): the windows of an analysis, and the three ways their tests  *)
(* are run. Candles are tested by one task per window; the tasks finish in *)
(* any order, may fail, and are awaited in the order of the windows. Ticks *)
(* are tested window after window, on a slice between two indices of the   *)
(* source that are looked up by date, each of the two callers in its own   *)
(* way.                                                                    *)
(*                                                                         *)
(* Dates are numbers, and a slice is the set of days it has data of. What  *)
(* a test on ticks yields is chosen freely; a test on candles yields a     *)
(* placeholder. Figures are in percent.                                    *)
(***************************************************************************)
EXTENDS Integers, Sequences, FiniteSetsExt, SequencesExt

CONSTANTS
  Analyses,   \* [kind, start, end, train, test, step, embargo, anchored, data]
  Outcomes,   \* what a test on ticks may yield
  Pending, Failed

ASSUME AnalysesAssumption ==
  \A a \in Analyses :
    /\ a.kind \in {"candles", "streaming", "params"} /\ a.anchored \in BOOLEAN
    /\ a.start \in Nat /\ a.end \in Nat /\ a.train \in Nat /\ a.test \in Nat /\ a.embargo \in Nat
    /\ a.step \in Nat \ {0}     \* a step of 0 never comes to an end
    /\ a.data \subseteq Nat
    /\ a.kind = "params" => a.start \in a.data /\ a.end \in a.data

ASSUME TasksAssumption == Pending # Failed

VARIABLES
  analysis,  \* the arguments of the run
  tasks,     \* of each window: the JoinHandle, or what came of it
  awaited,   \* windows whose result has been taken
  results    \* window_results

runnerVars == <<analysis, tasks, awaited, results>>

---------------------------------------------------------------------------
WindowWithoutEmbargo(a, k) ==   \* mutant: the test follows at once
  LET trained == a.start + a.train + k * a.step
  IN  [trainStart |-> IF a.anchored THEN a.start ELSE a.start + k * a.step,
       trainEnd |-> trained, testStart |-> trained, testEnd |-> trained + a.embargo + a.test]

(* generate_windows: the train and the test span of window k, counted from *)
(* 0. An anchored window trains from the start, and on more as k grows.    *)
Window(a, k) ==
  LET trained == a.start + a.train + k * a.step
  IN  [trainStart |-> IF a.anchored THEN a.start ELSE a.start + k * a.step,
       trainEnd   |-> trained,
       testStart  |-> trained + a.embargo,
       testEnd    |-> trained + a.embargo + a.test]

(* Windows follow one another as long as their test fits.                  *)
WindowCount(a) ==
  LET room == a.end - a.start - a.train - a.embargo - a.test
  IN  IF room < 0 THEN 0 ELSE room \div a.step + 1

(* extract_data                                                            *)
Days(a, from, to) == {d \in a.data : from <= d /\ d < to}

(* The day where a slice of ticks begins: that of the latest data up to    *)
(* the date, or else the first.                                            *)
DayUpTo(a, date, otherwise) ==
  LET before == {d \in a.data : d <= date} IN IF before = {} THEN otherwise ELSE Max(before)

DayFrom(a, date, otherwise) ==
  LET after == {d \in a.data : d >= date} IN IF after = {} THEN otherwise ELSE Min(after)

Beyond(a) == Max(a.data \cup {0}) + 1

(* What lies between the two indices.                                      *)
Tested(a, w) ==
  CASE a.kind = "candles"   -> Days(a, w.testStart, w.testEnd)
    [] a.kind = "streaming" -> Days(a, DayUpTo(a, w.testStart, 0), DayUpTo(a, w.testEnd, Beyond(a)))
    [] a.kind = "params"    -> Days(a, DayUpTo(a, w.testStart, 0), DayFrom(a, w.testEnd, Beyond(a)))

---------------------------------------------------------------------------
(* run_backtest_with_params reads neither its data nor its parameters.     *)
Placeholder == [sharpe |-> 120, drawdown |-> 5, winRate |-> 60, profitFactor |-> 150]

(* Without ticks the metrics are the defaults.                             *)
NoMetrics == [sharpe |-> 0, drawdown |-> 0, winRate |-> 0, profitFactor |-> 0]

Result(k, metrics) ==
  LET w == Window(analysis, k - 1)
  IN  [window |-> w, tested |-> Tested(analysis, w), metrics |-> metrics]

RunnerInit ==
  /\ analysis \in Analyses
  /\ tasks = [k \in 1 .. WindowCount(analysis) |-> Pending]
  /\ awaited = 0 /\ results = <<>>

Finished == awaited + 1 \notin DOMAIN tasks

(* A task trains on its own slice, tests on its own slice and ends, whether*)
(* or not the tasks before it have.                                        *)
FinishTask(k) ==
  /\ analysis.kind = "candles" /\ tasks[k] = Pending
  /\ tasks' = [tasks EXCEPT ![k] = Result(k, Placeholder)]
  /\ UNCHANGED <<analysis, awaited, results>>

(* A panic ends its task only.                                             *)
FailTask(k) ==
  /\ analysis.kind = "candles" /\ tasks[k] = Pending
  /\ tasks' = [tasks EXCEPT ![k] = Failed]
  /\ UNCHANGED <<analysis, awaited, results>>

(* task.await, in the order of the windows; a failure is logged, and its   *)
(* window is missing from the results.                                     *)
AwaitTask ==
  /\ analysis.kind = "candles" /\ ~Finished /\ tasks[awaited + 1] # Pending
  /\ awaited' = awaited + 1
  /\ results' = IF tasks[awaited + 1] = Failed THEN results
                ELSE Append(results, tasks[awaited + 1])
  /\ UNCHANGED <<analysis, tasks>>

(* A test on ticks.                                                        *)
TestTicks ==
  /\ analysis.kind # "candles" /\ ~Finished
  /\ LET k == awaited + 1
         w == Window(analysis, awaited)
     IN  \E metrics \in (IF Tested(analysis, w) = {} THEN {NoMetrics} ELSE Outcomes) :
           /\ tasks' = [tasks EXCEPT ![k] = Result(k, metrics)]
           /\ results' = Append(results, Result(k, metrics))
  /\ awaited' = awaited + 1
  /\ UNCHANGED analysis

RunnerNext ==
  \/ \E k \in DOMAIN tasks : FinishTask(k) \/ FailTask(k)
  \/ AwaitTask \/ TestTicks

RunnerSpec == RunnerInit /\ [][RunnerNext]_runnerVars

---------------------------------------------------------------------------
(* No test sees a day of the training before it or of the embargo, as long *)
(* as the source has data of the day the test begins on: the slices of     *)
(* ticks begin at the latest data before that day otherwise.               *)
TestedIsUnseen ==
  \A i \in DOMAIN results :
    LET r == results[i]
    IN  analysis.kind = "candles" \/ r.window.testStart \in analysis.data
          => \A d \in r.tested : d >= r.window.trainEnd + analysis.embargo
=============================================================================
