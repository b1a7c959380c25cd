---------------------- MODULE ValidationPipelineProofs ----------------------
(***************************************************************************)
(* What the validation pipeline keeps for any request, any number of bars  *)
(* and folds, and any outcome of the backtests.                            *)
(***************************************************************************)
EXTENDS ValidationPipeline, TLAPS

FoldIndices == 0 .. Folds - 1

---------------------------------------------------------------------------
(* The arithmetic of the folds.                                            *)

LEMMA FoldsAreNumbers ==
  ASSUME NEW f \in FoldIndices, NEW n \in Nat
  PROVE  FoldStart(f, n) \in Int /\ FoldEnd(f, n) \in Int /\ Purge(n) \in Nat
<1>1. Folds \in Nat \ {0} /\ PurgeBars \in Nat
  BY WalkForwardAssumption
<1>2. FoldSize(n) \in Nat
  BY <1>1 DEF FoldSize
<1>3. PICK s \in Nat : s = FoldSize(n)
  BY <1>2
<1>4. Purge(n) = IF PurgeBars <= s \div 4 THEN PurgeBars ELSE s \div 4
  BY <1>3 DEF Purge, Lesser
<1>5. s \div 4 \in Nat
  OBVIOUS
<1>6. Purge(n) \in Nat
  BY <1>1, <1>4, <1>5
<1>7. f * s \in Int /\ (f + 1) * s \in Int
  BY DEF FoldIndices
<1> QED
  BY <1>3, <1>6, <1>7 DEF FoldStart, FoldEnd

(* A bar left for training is farther from a tested one than the purge.    *)
LEMMA FoldIsPurged ==
  ASSUME NEW f \in FoldIndices, NEW n \in Nat,
         NEW i \in 0 .. n - 1, NEW j \in TestBars(f, n),
         i \notin TestBars(f, n), i \notin PurgedBars(f, n)
  PROVE  Absolute(i - j) > Purge(n)
<1>1. PICK s \in Int, e \in Int, p \in Nat :
        s = FoldStart(f, n) /\ e = FoldEnd(f, n) /\ p = Purge(n)
  BY FoldsAreNumbers
<1>2. j \in s .. e - 1 /\ ~(i \in s .. e - 1)
  BY <1>1 DEF TestBars
<1>3. /\ ~(i \in (IF s - p >= 0 THEN s - p ELSE 0) .. s - 1)
      /\ ~(i \in e .. (IF e + p <= n THEN e + p ELSE n) - 1)
  BY <1>1 DEF PurgedBars, Positive, Lesser
<1>4. i - j > p \/ j - i > p
  BY <1>2, <1>3
<1>5. i \in Int /\ j \in Int
  BY <1>2
<1> QED
  BY <1>1, <1>4, <1>5 DEF Absolute

LEMMA CombinationIsPurged ==
  ASSUME NEW combo \in SUBSET FoldIndices, NEW n \in Nat,
         NEW i \in CombinedTrain(combo, n), NEW j \in CombinedTest(combo, n)
  PROVE  Absolute(i - j) > Purge(n)
<1>1. PICK f \in combo : j \in TestBars(f, n)
  BY DEF CombinedTest
<1>2. /\ i \in 0 .. n - 1
      /\ i \notin TestBars(f, n)
      /\ i \notin PurgedBars(f, n)
  BY DEF CombinedTrain, CombinedTest
<1> QED
  BY <1>1, <1>2, FoldIsPurged

---------------------------------------------------------------------------
(* The inductive invariant: what a running pipeline has gathered so far.   *)

FoldsAreChosen ==
  /\ combos \subseteq SUBSET FoldIndices
  /\ fold # None =>
       \E combo \in SUBSET FoldIndices :
         fold = [train |-> CombinedTrain(combo, job.bars), test |-> CombinedTest(combo, job.bars)]

BaseComesLast ==
  /\ stage # "completed" => base[1] = None
  /\ BandsDescribeTheShownAnalysis

PassSoFar ==
  /\ stage = "search" => job.schema
  /\ verdict = "pass" =>
       \A v \in verdicts :
         v[2] \/ (job.schema /\ v[1] \in {"Walk-Forward", "GA Optimization"})

VerdictSoFar ==
  verdict \in {"pass", "warn", "fail"} /\ (verdict = "fail" => stage = "completed")

Inv ==
  /\ job \in Jobs /\ VerdictSoFar
  /\ FoldsAreChosen /\ BaseComesLast /\ PassSoFar

LEMMA InvInit == Init => Inv
<1> SUFFICES ASSUME Init PROVE Inv
  OBVIOUS
<1>1. FoldsAreChosen
  BY DEF Init, FoldsAreChosen
<1>2. BaseComesLast
  BY PipelineAssumption DEF Init, BaseComesLast, BandsDescribeTheShownAnalysis
<1>3. PassSoFar
  BY DEF Init, PassSoFar
<1> QED
  BY <1>1, <1>2, <1>3 DEF Init, Inv, VerdictSoFar

LEMMA ChoicesAreFolds == Combinations \subseteq SUBSET FoldIndices
BY DEF Combinations, kSubset, FoldIndices

LEMMA FoldsNext == Inv /\ [Next]_vars => FoldsAreChosen'
<1> SUFFICES ASSUME Inv, [Next]_vars PROVE FoldsAreChosen'
  OBVIOUS
<1>a. FoldsAreChosen
  BY DEF Inv
<1>1. CASE UNCHANGED <<job, combos, fold>>
  BY <1>1, <1>a DEF FoldsAreChosen
<1>2. CASE StartCpcv
  BY <1>2, <1>a, ChoicesAreFolds DEF StartCpcv, FoldsAreChosen
<1>3. CASE RunCombo
  <2>1. PICK combo \in combos :
          /\ fold' = [train |-> CombinedTrain(combo, job.bars),
                      test |-> CombinedTest(combo, job.bars)]
          /\ combos' = combos \ {combo} \/ combos' = {}
    BY <1>3 DEF RunCombo
  <2>2. job' = job
    BY <1>3 DEF RunCombo
  <2>3. combo \in SUBSET FoldIndices /\ combos' \subseteq SUBSET FoldIndices
    BY <1>a, <2>1 DEF FoldsAreChosen
  <2> QED
    BY <2>1, <2>2, <2>3 DEF FoldsAreChosen
<1> QED
  BY <1>1, <1>2, <1>3 DEF Next, vars, CostHurdle, Lookahead, QuickBacktest, CrossSectional,
    PlaceWindows, RunWindow, WindowsDone, Search, FinalBacktest, JudgeCpcv, MonteCarlo,
    Results, Windowing

LEMMA BaseNext == Inv /\ [Next]_vars => BaseComesLast'
<1> SUFFICES ASSUME Inv, [Next]_vars PROVE BaseComesLast'
  OBVIOUS
<1>a. BaseComesLast
  BY DEF Inv
<1>b. None # "walk-forward"
  BY PipelineAssumption
<1>1. CASE UNCHANGED vars
  BY <1>1, <1>a DEF vars, BaseComesLast, BandsDescribeTheShownAnalysis, Shown
<1>2. CASE MonteCarlo
  <2>1. base' = BaseOf /\ UNCHANGED <<default, winner>> /\ stage' = "completed"
    BY <1>2 DEF MonteCarlo, Windowing
  <2>2. Shown' = Shown /\ OutOfSample = Shown
    BY <2>1 DEF Shown, OutOfSample
  <2>3. BaseAnalysis # None => BaseAnalysis = Shown
    BY <2>2 DEF BaseAnalysis
  <2>4. base'[1] = "walk-forward" => base'[2] = Shown
    BY <2>1, <2>3 DEF BaseOf
  <2> QED
    BY <2>1, <2>2, <2>4 DEF BaseComesLast, BandsDescribeTheShownAnalysis
<1>3. CASE stage # "completed" /\ base' = base
  BY <1>3, <1>a, <1>b DEF BaseComesLast, BandsDescribeTheShownAnalysis
<1> QED
  BY <1>1, <1>2, <1>3 DEF Next, Ended, CostHurdle, Lookahead, QuickBacktest, CrossSectional,
    PlaceWindows, RunWindow, WindowsDone, Search, FinalBacktest, StartCpcv, RunCombo,
    JudgeCpcv, Results

(* A verdict on a stage goes with what a passing result may hide.          *)
MayHide(name) == job.schema /\ name \in {"Walk-Forward", "GA Optimization"}

LEMMA JudgedNext ==
  ASSUME PassSoFar, NEW name, NEW passed \in BOOLEAN, Judge(name, passed), job' = job,
         stage' = "search" => job.schema,
         verdict' = "pass" => verdict = "pass" /\ (passed \/ MayHide(name))
  PROVE  PassSoFar'
<1> SUFFICES ASSUME verdict' = "pass", NEW v \in verdicts'
             PROVE  v[2] \/ (job'.schema /\ v[1] \in {"Walk-Forward", "GA Optimization"})
  BY DEF PassSoFar
<1>1. CASE v \in verdicts
  BY <1>1 DEF PassSoFar
<1>2. CASE v = <<name, TRUE>>
  BY <1>2
<1>3. CASE v = <<name, passed>> /\ passed # TRUE
  <2>1. MayHide(name)
    BY <1>3
  <2>2. v[1] = name
    BY <1>3, Zenon
  <2> QED
    BY <2>1, <2>2 DEF MayHide
<1> QED
  BY <1>1, <1>2, <1>3 DEF Judge

(* One step per stage that judges; the others leave the verdicts alone.    *)
LEMMA PassNext == Inv /\ [Next]_vars => PassSoFar'
<1> SUFFICES ASSUME Inv, [Next]_vars PROVE PassSoFar'
  OBVIOUS
<1>a. PassSoFar
  BY DEF Inv
<1>1. CASE UNCHANGED vars
  BY <1>1, <1>a DEF vars, PassSoFar
<1>2. CASE CostHurdle
  <2>1. CASE UNCHANGED <<verdict, verdicts>>
    BY <1>2, <2>1, <1>a DEF CostHurdle, PassSoFar, Reject
  <2>2. CASE \E passed \in BOOLEAN : Judge("Cost Hurdle", passed)
                /\ IF passed THEN stage' = "lookahead" /\ UNCHANGED verdict ELSE Reject
    BY <1>2, <2>2, <1>a, JudgedNext DEF CostHurdle, Reject
  <2> QED
    BY <1>2, <2>1, <2>2 DEF CostHurdle
<1>3. CASE QuickBacktest
  <2>1. CASE UNCHANGED <<verdict, verdicts>>
    BY <1>3, <2>1, <1>a DEF QuickBacktest, PassSoFar, Reject
  <2>2. CASE ~UNCHANGED <<verdict, verdicts>>
    <3>1. PICK trades \in Trades :
            /\ Judge("Quick Backtest", trades # "no")
            /\ IF trades = "no" THEN Reject ELSE stage' = "crossSectional" /\ UNCHANGED verdict
      BY <1>3, <2>2 DEF QuickBacktest
    <3>2. (trades # "no") \in BOOLEAN /\ job' = job
      BY <1>3 DEF QuickBacktest
    <3>3. /\ stage' # "search"
          /\ verdict' = "pass" => verdict = "pass" /\ trades # "no"
      BY <3>1 DEF Reject
    <3> QED
      BY <3>1, <3>2, <3>3, <1>a, JudgedNext
  <2> QED
    BY <2>1, <2>2
<1>4. CASE CrossSectional
  BY <1>4, <1>a, JudgedNext DEF CrossSectional, PassSoFar
<1>5. CASE WindowsDone
  <2>1. CASE windows = <<>>
    BY <1>5, <2>1, <1>a DEF WindowsDone, WithoutWalkForward, PassSoFar
  <2>2. CASE windows # <<>>
    <3>1. job' = job
      BY <1>5 DEF WindowsDone
    <3>2. PICK analysis :
            IF searching THEN KeepWinner(analysis)
            ELSE \E passed \in BOOLEAN : JudgeDefault(analysis, passed)
      BY <1>5, <2>2 DEF WindowsDone
    <3>3. CASE searching
      BY <3>1, <3>2, <3>3, <1>a DEF KeepWinner, PassSoFar
    <3>4. CASE ~searching
      <4>1. PICK passed \in BOOLEAN : JudgeDefault(analysis, passed)
        BY <3>2, <3>4
      <4>2. Judge("Walk-Forward", passed)
        BY <4>1 DEF JudgeDefault
      <4>3. stage' = "search" => job.schema
        BY <4>1 DEF JudgeDefault, Reject
      <4>4. verdict' = "pass" => verdict = "pass" /\ (passed \/ MayHide("Walk-Forward"))
        BY <4>1 DEF JudgeDefault, Reject, MayHide
      <4> QED
        BY <4>2, <4>3, <4>4, <3>1, <1>a, JudgedNext
    <3> QED
      BY <3>3, <3>4
  <2> QED
    BY <2>1, <2>2
<1>6. CASE Search
  <2>1. PICK found \in BOOLEAN : Judge("GA Optimization", found)
    BY <1>6 DEF Search
  <2>2. /\ job' = job /\ stage' # "search" /\ verdict' = verdict
        /\ MayHide("GA Optimization")
    BY <1>6, <1>a DEF Search, PassSoFar, MayHide
  <2> QED
    BY <2>1, <2>2, <1>a, JudgedNext
<1>7. CASE FinalBacktest
  BY <1>7, <1>a DEF FinalBacktest, PassSoFar
<1>8. CASE JudgeCpcv
  BY <1>8, <1>a, JudgedNext DEF JudgeCpcv
<1>9. CASE MonteCarlo
  BY <1>9, <1>a, JudgedNext DEF MonteCarlo
<1>10. CASE UNCHANGED <<job, verdict, verdicts>> /\ stage' # "search"
  BY <1>10, <1>a DEF PassSoFar
<1>11. Lookahead \/ PlaceWindows \/ RunWindow \/ StartCpcv \/ RunCombo
         => UNCHANGED <<job, verdict, verdicts>> /\ stage' # "search"
  BY DEF Lookahead, PlaceWindows, WithoutWalkForward, RunWindow, StartCpcv, RunCombo
<1> QED
  BY <1>1, <1>2, <1>3, <1>4, <1>5, <1>6, <1>7, <1>8, <1>9, <1>10, <1>11 DEF Next

(* Only a step that ends the validation says it failed.                    *)
LEMMA VerdictNext ==
  ASSUME Inv, [Next]_vars
  PROVE  /\ job' \in Jobs
         /\ VerdictSoFar'
         /\ Severity[verdict'] >= Severity[verdict]
<1>1. verdict \in {"pass", "warn", "fail"} /\ (verdict = "fail" => stage = "completed")
  BY DEF Inv, VerdictSoFar
<1>2. Severity["pass"] = 0 /\ Severity["warn"] = 1 /\ Severity["fail"] = 2
  BY DEF Severity
<1>3. job' = job
  BY DEF Next, vars, CostHurdle, Lookahead, QuickBacktest, CrossSectional, PlaceWindows, RunWindow,
    WindowsDone, Search, FinalBacktest, StartCpcv, RunCombo, JudgeCpcv, MonteCarlo
<1>4. stage = "completed" => UNCHANGED vars
  BY DEF Next, vars, Ended, CostHurdle, Lookahead, QuickBacktest, CrossSectional, PlaceWindows,
    RunWindow, WindowsDone, Search, FinalBacktest, StartCpcv, RunCombo, JudgeCpcv, MonteCarlo
<1>5. \/ verdict' = verdict
      \/ verdict' = "warn"
      \/ verdict' = "fail" /\ stage' = "completed"
  BY DEF Next, vars, CostHurdle, Lookahead, QuickBacktest, CrossSectional, PlaceWindows, RunWindow,
    WindowsDone, KeepWinner, JudgeDefault, Reject, Search, FinalBacktest, StartCpcv, RunCombo,
    JudgeCpcv, MonteCarlo
<1>6. CASE stage = "completed"
  BY <1>1, <1>2, <1>4, <1>6 DEF vars, VerdictSoFar, Inv
<1>7. CASE stage # "completed"
  BY <1>1, <1>2, <1>3, <1>5, <1>7 DEF VerdictSoFar, Inv
<1> QED
  BY <1>6, <1>7

LEMMA InvNext == Inv /\ [Next]_vars => Inv'
BY FoldsNext, BaseNext, PassNext, VerdictNext DEF Inv

---------------------------------------------------------------------------

LEMMA Invariance == Spec => []Inv
BY InvInit, InvNext, PTL DEF Spec

(* Whatever folds are chosen, of any number of bars and with any purge     *)
(* distance, the cross-validation keeps that distance.                     *)
THEOREM Purged == Spec => []TrainingIsPurged
<1>1. Inv => TrainingIsPurged
  <2> SUFFICES ASSUME Inv, fold # None, NEW i \in fold.train, NEW j \in fold.test
               PROVE  Absolute(i - j) > Purge(job.bars)
    BY DEF TrainingIsPurged
  <2>1. PICK combo \in SUBSET FoldIndices :
          fold.train = CombinedTrain(combo, job.bars) /\ fold.test = CombinedTest(combo, job.bars)
    BY DEF Inv, FoldsAreChosen
  <2>2. job.bars \in Nat
    BY PipelineAssumption DEF Inv
  <2> QED
    BY <2>1, <2>2, CombinationIsPurged
<1> QED
  BY <1>1, Invariance, PTL

(* The bands of a result are made from the analysis it shows.              *)
THEOREM BandsAreOfTheAnalysis == Spec => []BandsDescribeTheShownAnalysis
<1>1. Inv => BandsDescribeTheShownAnalysis
  BY DEF Inv, BaseComesLast
<1> QED
  BY <1>1, Invariance, PTL

(* A result that passes hides at most what a search may repair.            *)
THEOREM PassIsEarned == Spec => []PassHidesOnlyTheSearch
<1>1. Inv => PassHidesOnlyTheSearch
  BY DEF Inv, PassSoFar, PassHidesOnlyTheSearch
<1> QED
  BY <1>1, Invariance, PTL

(* The verdict only ever gets worse.                                       *)
THEOREM VerdictIsMonotone == Spec => VerdictNeverImproves
<1>1. Inv /\ [Next]_vars => [Severity[verdict'] >= Severity[verdict]]_verdict
  BY VerdictNext
<1> QED
  BY <1>1, Invariance, PTL DEF Spec, VerdictNeverImproves
=============================================================================
