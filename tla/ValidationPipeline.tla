------------------------- MODULE ValidationPipeline -------------------------
(***************************************************************************)
(* run_validation_pipeline (backtest/src/python_validation.rs): the stages *)
(* a submitted strategy goes through, from the cost hurdle to the Monte    *)
(* Carlo simulation. Every backtest is a run of the Python strategy that   *)
(* may fail or trade more or less: its outcome is chosen freely. What is   *)
(* not chosen is where the data is cut, which outcome stops or skips what, *)
(* and what the final result is made of.                                   *)
(*                                                                         *)
(* A backtest has no trades, few, or enough for a Monte Carlo simulation.  *)
(***************************************************************************)
EXTENDS WalkForward

CONSTANTS
  Jobs,           \* the requests: [bars, days, windows, gapBars, regimes, schema, folds]
  MinBars,        \* the bars a walk-forward analysis needs (100)
  LookaheadBars,  \* the bars a test for look-ahead needs (200)
  CpcvBars,       \* the bars a cross-validation needs (250)
  None            \* what is not there, or not yet

ASSUME PipelineAssumption ==
  /\ \A job \in Jobs : /\ job.bars \in Nat \ {0} /\ job.days \in Nat /\ job.windows \in Nat
                       /\ job.gapBars \in Nat /\ job.schema \in BOOLEAN /\ job.folds \in Nat
  /\ MinBars \in Nat /\ LookaheadBars \in Nat /\ CpcvBars \in Nat
  /\ None \notin {"walk-forward", "optimized", "quick"}

VARIABLES
  job,          \* market_data and config
  stage,        \* what runs next
  verdict,      \* verdict
  verdicts,     \* stages: the names of the verdicts given, and whether they passed
  lookAhead,    \* look_ahead_detected
  quick,        \* trades of quick_result
  searching,    \* whether the windows run with the parameters of the search
  numWindows,   \* num_windows, once it is known
  queue,        \* windows to run
  windows,      \* windows that ran
  default,      \* wf_result
  winner,       \* ga_wf
  optimized,    \* trades of optimized_backtest_result
  combos,       \* folds chosen for tests that are to be evaluated
  fold,         \* the evaluation of the cross-validation that ran last
  base          \* what the Monte Carlo simulation shuffles

vars == <<job, stage, verdict, verdicts, lookAhead, quick, searching, numWindows, queue, windows, default,
          winner, optimized, combos, fold, base>>

Trades == {"no", "few", "enough"}
Names == {"Cost Hurdle", "Quick Backtest", "Cross-Sectional", "Walk-Forward", "GA Optimization",
          "CPCV", "Monte Carlo"}
Stages == {"hurdle", "lookahead", "quick", "crossSectional", "place", "windows", "search",
           "finalBacktest", "cpcv", "monteCarlo", "completed", "failed"}
Ended == {"completed", "failed"}

TypeOK ==
  /\ stage \in Stages /\ verdict \in {"pass", "warn", "fail"}
  /\ verdicts \subseteq Names \X BOOLEAN
  /\ lookAhead \in BOOLEAN \cup {None} /\ quick \in Trades /\ searching \in BOOLEAN
  /\ \A analysis \in {default, winner, base[2]} : analysis = None \/ analysis.trades \in Trades
  /\ numWindows \in Nat
  /\ optimized \in Trades \cup {None}
  /\ combos \subseteq Combinations
  /\ base[1] \in {None, "walk-forward", "optimized", "quick"}

Training == TrainingEnd(job.bars)

Init ==
  /\ job \in Jobs /\ stage = "hurdle" /\ verdict = "pass" /\ verdicts = {}
  /\ lookAhead = None /\ quick = "no" /\ searching = FALSE
  /\ numWindows = 0 /\ queue = <<>> /\ windows = <<>> /\ default = None /\ winner = None
  /\ optimized = None /\ combos = {} /\ fold = None /\ base = <<None, None>>

Judge(name, passed) == verdicts' = verdicts \cup {<<name, passed>>}

(* A result that is returned early is a failed one.                        *)
Reject == verdict' = "fail" /\ stage' = "completed"

Windowing == <<searching, numWindows, queue, windows, default, winner>>
Results == <<Windowing, optimized, combos, fold, base>>

---------------------------------------------------------------------------
(* check_cost_hurdle has no answer if no price is positive.                *)
CostHurdle ==
  /\ stage = "hurdle"
  /\ \/ /\ stage' = "lookahead" /\ UNCHANGED <<verdict, verdicts>>
     \/ /\ job.bars >= 2
        /\ \E passed \in BOOLEAN :
             /\ Judge("Cost Hurdle", passed)
             /\ IF passed THEN stage' = "lookahead" /\ UNCHANGED verdict ELSE Reject
  /\ UNCHANGED <<job, lookAhead, quick, Results>>

(* detect_lookahead_bias. An error skips the test, and a finding is only   *)
(* reported.                                                               *)
Lookahead ==
  /\ stage = "lookahead" /\ stage' = "quick"
  /\ \E found \in BOOLEAN \cup {None} :
       /\ job.bars < LookaheadBars => found = FALSE
       /\ lookAhead' = found
  /\ UNCHANGED <<job, verdict, verdicts, quick, Results>>

(* Only a strategy that trades goes on; a backtest that fails ends all.    *)
QuickBacktest ==
  /\ stage = "quick"
  /\ \/ /\ stage' = "failed" /\ UNCHANGED <<verdict, verdicts, quick>>
     \/ \E trades \in Trades :
          /\ quick' = trades
          /\ Judge("Quick Backtest", trades # "no")
          /\ IF trades = "no" THEN Reject ELSE stage' = "crossSectional" /\ UNCHANGED verdict
  /\ UNCHANGED <<job, lookAhead, Results>>

(* run_cross_sectional_check says something or nothing; it never blocks.   *)
CrossSectional ==
  /\ stage = "crossSectional" /\ stage' = "place"
  /\ Judge("Cross-Sectional", TRUE) \/ UNCHANGED verdicts
  /\ UNCHANGED <<job, verdict, lookAhead, quick, Results>>

---------------------------------------------------------------------------
(* run_walk_forward, with the declared parameters and later with those the *)
(* search found.                                                           *)

WindowCount ==
  IF job.windows > 0 THEN job.windows ELSE AutoWindows(job.days, job.bars, job.regimes)

(* A walk-forward that fails ends the validation, unless it is the one of  *)
(* the search.                                                             *)
WithoutWalkForward ==
  stage' = IF searching THEN "finalBacktest" ELSE "failed"

PlaceWindows ==
  /\ stage = "place"
  /\ numWindows' = WindowCount
  /\ IF job.bars < MinBars
     THEN WithoutWalkForward /\ UNCHANGED queue
     ELSE /\ stage' = "windows"
          /\ queue' = WalkForwardWindows(job.bars, numWindows', job.gapBars, job.regimes)
  /\ windows' = <<>>
  /\ UNCHANGED <<job, verdict, verdicts, lookAhead, quick, searching, default, winner, optimized,
                 combos, fold, base>>

(* A window whose training or test run fails is left out.                  *)
RunWindow ==
  /\ stage = "windows" /\ queue # <<>>
  /\ queue' = Tail(queue)
  /\ windows' = Append(windows, Head(queue)) \/ UNCHANGED windows
  /\ UNCHANGED <<job, stage, verdict, verdicts, lookAhead, quick, searching, numWindows, default,
                 winner, optimized, combos, fold, base>>

(* Stage 2: the analysis must pass, unless a search is to come.            *)
JudgeDefaultLeniently(analysis, passed) ==   \* mutant: a failed analysis goes on
  /\ default' = analysis /\ UNCHANGED <<winner, verdict>>
  /\ Judge("Walk-Forward", passed)
  /\ stage' = IF job.schema THEN "search" ELSE "cpcv"

JudgeDefault(analysis, passed) ==
  /\ default' = analysis /\ UNCHANGED winner
  /\ Judge("Walk-Forward", passed)
  /\ IF passed \/ job.schema
     THEN stage' = (IF job.schema THEN "search" ELSE "cpcv") /\ UNCHANGED verdict
     ELSE Reject

(* After the search the analysis is only reported.                         *)
KeepWinner(analysis) ==
  /\ winner' = analysis /\ stage' = "finalBacktest"
  /\ UNCHANGED <<default, verdict, verdicts>>

(* combine_oos_results puts the test runs together; whether there are none *)
(* or few trades in all makes no difference.                               *)
WindowsDone ==
  /\ stage = "windows" /\ queue = <<>>
  /\ IF windows = <<>>
     THEN WithoutWalkForward /\ UNCHANGED <<default, winner, verdict, verdicts>>
     ELSE \E trades \in Trades \ {"no"} :
            LET analysis == [windows |-> windows, trades |-> trades]
            IN  IF searching THEN KeepWinner(analysis)
                ELSE \E passed \in BOOLEAN : JudgeDefault(analysis, passed)
  /\ windows' = <<>>
  /\ UNCHANGED <<job, lookAhead, quick, searching, numWindows, queue, optimized, combos, fold, base>>

---------------------------------------------------------------------------
(* The genetic search over the training data. If candidates are scored out *)
(* of sample and there is no window for it, every candidate fails.         *)
Scorable ==
  job.folds = 0 \/ /\ Training >= MinBars
                   /\ EmbeddedWindows(Training, job.folds, job.gapBars) # <<>>

Search ==
  /\ stage = "search" /\ stage' = "place" /\ searching' = TRUE
  /\ \E found \in BOOLEAN : (found => Scorable) /\ Judge("GA Optimization", found)
  /\ UNCHANGED <<job, verdict, lookAhead, quick, numWindows, queue, windows, default, winner,
                 optimized, combos, fold, base>>

(* The winner runs once more, on all data. A winner that does not trade is *)
(* a reason to warn; one that fails to run is not.                         *)
FinalBacktest ==
  /\ stage = "finalBacktest" /\ stage' = "cpcv"
  /\ \E trades \in Trades \cup {None} :
       /\ optimized' = trades
       /\ verdict' = IF trades = "no" /\ verdict = "pass" THEN "warn" ELSE verdict
  /\ UNCHANGED <<job, verdicts, lookAhead, quick, Windowing, combos, fold, base>>

---------------------------------------------------------------------------
(* run_cpcv_analysis, if there was a search. The first evaluation that     *)
(* fails ends the analysis, and nothing is said of it.                     *)

StartCpcv ==
  /\ stage = "cpcv" /\ combos = {} /\ fold = None
  /\ IF job.schema /\ job.bars >= CpcvBars
     THEN combos' = Combinations /\ UNCHANGED stage
     ELSE stage' = "monteCarlo" /\ UNCHANGED combos
  /\ UNCHANGED <<job, verdict, verdicts, lookAhead, quick, Windowing, optimized, fold, base>>

(* generate_combinations yields the choices in lexicographic order.        *)
Precedes(combo, other) == Min((combo \ other) \cup (other \ combo)) \in combo

(* The test bars come out of a hash set, in any order.                     *)
RunCombo ==
  /\ stage = "cpcv"
  /\ \E combo \in combos :
       /\ \A other \in combos \ {combo} : Precedes(combo, other)
       /\ fold' = [train |-> CombinedTrain(combo, job.bars), test |-> CombinedTest(combo, job.bars)]
       /\ \/ combos' = combos \ {combo} /\ UNCHANGED stage
          \/ combos' = {} /\ stage' = "monteCarlo"
  /\ UNCHANGED <<job, verdict, verdicts, lookAhead, quick, Windowing, optimized, base>>

JudgeCpcv ==
  /\ stage = "cpcv" /\ combos = {} /\ fold # None /\ stage' = "monteCarlo"
  /\ \E passed \in BOOLEAN :
       /\ Judge("CPCV", passed)
       /\ verdict' = IF passed THEN verdict ELSE "warn"
  /\ UNCHANGED <<job, lookAhead, quick, Windowing, optimized, combos, fold, base>>

---------------------------------------------------------------------------
(* The Monte Carlo simulation shuffles the trades the windows made out of  *)
(* sample; if they are too few, those of the optimized backtest, and if    *)
(* these are too few as well, those of the quick one.                      *)

OutOfSample == IF winner # None THEN winner ELSE default

Enough(analysis) == analysis # None /\ analysis.trades = "enough"

BaseAnalysisFilteringFirst ==   \* mutant: the filter comes before the choice
  IF Enough(winner) THEN winner ELSE IF Enough(default) THEN default ELSE None

BaseAnalysis == IF Enough(OutOfSample) THEN OutOfSample ELSE None

BaseOf ==
  IF BaseAnalysis # None THEN <<"walk-forward", BaseAnalysis>>
  ELSE IF optimized = "enough" THEN <<"optimized", None>> ELSE <<"quick", None>>

(* The analysis in the result.                                             *)
Shown == IF winner # None THEN winner ELSE default

MonteCarlo ==
  /\ stage = "monteCarlo" /\ stage' = "completed"
  /\ base' = BaseOf
  /\ \E passed \in BOOLEAN :
       /\ Judge("Monte Carlo", passed)
       /\ verdict' = IF passed THEN verdict ELSE "warn"
  /\ UNCHANGED <<job, lookAhead, quick, Windowing, optimized, combos, fold>>

Next ==
  \/ CostHurdle \/ Lookahead \/ QuickBacktest \/ CrossSectional
  \/ PlaceWindows \/ RunWindow \/ WindowsDone \/ Search \/ FinalBacktest
  \/ StartCpcv \/ RunCombo \/ JudgeCpcv \/ MonteCarlo
  \/ stage \in Ended /\ UNCHANGED vars

Spec == Init /\ [][Next]_vars /\ WF_vars(Next)

---------------------------------------------------------------------------
(* The test slices of an analysis are independent evidence: each is whole, *)
(* a full purge gap away from its training, and no two windows share a bar *)
(* they train on or a bar they test on, wherever the regimes put them.     *)
WindowsAreIndependent ==
  LET size == job.bars \div Greater(numWindows, 1)
      testSize == size - TrainPart(size)
  IN  /\ \A w \in Range(windows) :
           /\ w.end <= job.bars /\ w.end - w.test = testSize
           /\ w.test - w.trained = Gap(job.gapBars, testSize)
      /\ \A j, k \in DOMAIN windows :
           j < k => windows[j].trained <= windows[k].start /\ windows[j].end <= windows[k].test

(* The cross-validation never trains within the purge distance of a bar it *)
(* tests on, whichever folds are chosen, neighbours and the ends included. *)
TrainingIsPurged ==
  fold # None =>
    \A i \in fold.train, j \in fold.test : Absolute(i - j) > Purge(job.bars)

(* Bands called out-of-sample are made from the analysis that the result   *)
(* shows, never from the other one.                                        *)
BandsDescribeTheShownAnalysis ==
  base[1] = "walk-forward" => base[2] = Shown

(* A result that passes hides no failed stage, but for the ones a search   *)
(* may repair: the analysis with the declared parameters, and the search.  *)
PassHidesOnlyTheSearch ==
  stage = "completed" /\ verdict = "pass" =>
    \A v \in verdicts :
      v[2] \/ (job.schema /\ v[1] \in {"Walk-Forward", "GA Optimization"})

Severity == [v \in {"pass", "warn", "fail"} |-> CASE v = "pass" -> 0 [] v = "warn" -> 1 [] v = "fail" -> 2]

(* No later stage takes back what an earlier one held against the strategy.*)
VerdictNeverImproves ==
  [][Severity[verdict'] >= Severity[verdict]]_verdict
=============================================================================
