---------------------------- MODULE WalkForward ----------------------------
(***************************************************************************)
(* Where the data of a validation is cut (backtest/src/python_validation.rs*)
(* and walkforward/src/lib.rs): the part the quick backtest and the search *)
(* may see, the windows of the walk-forward analysis, and the folds of the *)
(* combinatorial cross-validation.                                         *)
(*                                                                         *)
(* The bars are 0..n-1 and a slice [from, to) leaves its end out. A window *)
(* of s bars trains on its first 70 %, and tests on as many bars as are    *)
(* left, after a purge gap. Regimes are the labels of the bars, or Unknown *)
(* where the history is too short to tell.                                 *)
(***************************************************************************)
EXTENDS Money, FiniteSetsExt, SequencesExt

CONSTANTS
  ShortData,       \* up to this many bars there are three windows (1000)
  BarsPerWindow,   \* the bars that a window is worth (500)
  Folds,           \* CPCVConfig.n_folds
  TestFolds,       \* CPCVConfig.n_test_folds
  PurgeBars,       \* CPCVConfig.purge_gap_days
  Low, Medium, High, Unknown

ASSUME WalkForwardAssumption ==
  /\ ShortData \in Nat /\ BarsPerWindow \in Nat \ {0}
  /\ Folds \in Nat \ {0} /\ TestFolds \in 1..Folds /\ PurgeBars \in Nat

Rank == <<Low, Medium, High>>

Clamped(x, low, high) == Lesser(Greater(x, low), high)

(* WF_TRAIN_FRAC of s bars, rounded down.                                  *)
TrainPart(s) == (7 * s) \div 10

(* stage1_training_only_end                                                *)
TrainingEnd(n) == Lesser(Clamped(TrainPart(n), 1, Greater(n, 1)), n)

---------------------------------------------------------------------------
(* Regimes of the bars 0..n-2, as a function.                              *)

Known(regimes) == {i \in DOMAIN regimes : regimes[i] # Unknown}

Starts(regimes) ==
  {s \in Known(regimes) :
     LET before == {b \in Known(regimes) : b < s}
     IN  before = {} \/ regimes[Max(before)] # regimes[s]}

(* Maximal runs of a label; bars without one neither end nor extend them.  *)
Segments(regimes) ==
  LET starts == Starts(regimes)
      End(s) == Max({e \in Known(regimes) : e >= s /\ ~\E t \in starts : t \in s + 1 .. e})
  IN  {[start |-> s, end |-> End(s), regime |-> regimes[s]] : s \in starts}

(* The labels that occur, the rarest first, and as in Rank among equals.   *)
Present(regimes) ==
  LET Count(label) == Cardinality({i \in DOMAIN regimes : regimes[i] = label})
  IN  SortSeq(SelectSeq(Rank, LAMBDA label : Count(label) > 0),
              LAMBDA a, b : \/ Count(a) < Count(b)
                            \/ /\ Count(a) = Count(b)
                               /\ \E i, j \in DOMAIN Rank : Rank[i] = a /\ Rank[j] = b /\ i < j)

(* The segments of a label, the largest first.                             *)
Candidates(regimes, label) ==
  SetToSortSeq({seg \in Segments(regimes) : seg.regime = label},
               LAMBDA a, b : \/ a.end - a.start > b.end - b.start
                             \/ a.end - a.start = b.end - b.start /\ a.start < b.start)

(* window_regime_label: the label in the middle of a test slice.           *)
WindowRegime(regimes, window) ==
  LET middle == window.test + (Positive(window.end - window.test) \div 2)
  IN  IF middle \in DOMAIN regimes THEN regimes[middle] ELSE Unknown

(* regime_coverage_incomplete                                              *)
CoverageIncomplete(tested, regimes) ==
  \E label \in Range(Present(regimes)) : label \notin tested

(* resolve_auto_wf_windows                                                 *)
AutoWindows(days, n, regimes) ==
  LET target == Greater(Clamped(days \div 90, 3, 12),
                        Lesser(Cardinality(Segments(regimes)), 12))
      ceiling == IF n < ShortData THEN 3 ELSE Lesser(8, n \div BarsPerWindow)
  IN  Greater(Lesser(target, ceiling), 3)

---------------------------------------------------------------------------
(* The windows, each given by the bar it starts at.                        *)

(* resolve_wf_step                                                         *)
Step(n, size, count) ==
  IF count <= 1 \/ size >= n THEN Greater(size, 1)
                             ELSE Greater((n - size) \div (count - 1), 1)

(* resolve_wf_purge_gap_bars: the bars of five days, at most half a test.  *)
Gap(gapBars, testSize) == Lesser(gapBars, testSize \div 2)

(* The closure overlaps of resolve_wf_window_offsets.                      *)
Overlaps(claimed, offset, size) ==
  \E c \in claimed : offset < c + size /\ offset + size > c

(* The window whose test slice has the middle of the segment in its own.   *)
ReservedOffset(seg, n, size, testSize) ==
  Lesser(Positive(((seg.start + seg.end) \div 2) + (testSize \div 2) - size), n - size)

(* One window for a label, in the largest of its segments that has room.   *)
Reserve(claimed, label, n, size, testSize, regimes) ==
  LET candidates == Candidates(regimes, label)
      offsets == SelectSeq([k \in DOMAIN candidates |->
                              ReservedOffset(candidates[k], n, size, testSize)],
                           LAMBDA offset : ~Overlaps(claimed, offset, size))
  IN  IF offsets = <<>> THEN claimed ELSE claimed \cup {offsets[1]}

ReservedOffsets(n, size, count, testSize, regimes) ==
  FoldLeft(LAMBDA claimed, label : Reserve(claimed, label, n, size, testSize, regimes),
           {}, SubSeq(Present(regimes), 1, Lesser(count, Len(Present(regimes)))))

(* A candidate is taken while there are fewer windows than asked for.      *)
Fill(claimed, offset, size, count) ==
  IF Cardinality(claimed) < count /\ ~Overlaps(claimed, offset, size)
  THEN claimed \cup {offset} ELSE claimed

(* resolve_wf_window_offsets without regimes: windows in equal steps.      *)
UniformOffsets(n, size, count) ==
  IF count = 0 \/ size = 0 \/ size > n THEN {}
  ELSE {Lesser(i * Step(n, size, count), n - size) : i \in 0 .. count - 1}

(* resolve_wf_window_offsets with regimes: those first, the rest after.    *)
RegimeOffsets(n, size, count, testSize, regimes) ==
  IF count = 0 \/ size = 0 \/ size > n THEN {}
  ELSE LET step == Step(n, size, count)
       IN  FoldLeft(LAMBDA claimed, k : Fill(claimed, k * step, size, count),
                    ReservedOffsets(n, size, count, testSize, regimes),
                    [k \in 1 .. ((n - size) \div step) + 1 |-> k - 1])

(* The slices of a window: training in [start, trained), the gap, and the  *)
(* test in [test, end).                                                    *)
WindowAt(offset, n, size, gap) ==
  LET trained == offset + TrainPart(size)
  IN  [start |-> offset, trained |-> trained, test |-> trained + gap,
       end |-> Lesser(trained + gap + (size - TrainPart(size)), n)]

WindowsFromAll(offsets, n, size, gap) ==   \* mutant: no room is kept for the gap
  LET sorted == SetToSortSeq(offsets, <)
  IN  [k \in DOMAIN sorted |-> WindowAt(sorted[k], n, size, gap)]

(* The gap is added inside the window, so a window at the end of the data  *)
(* has no room for it and is left out.                                     *)
WindowsFrom(offsets, n, size, gap) ==
  LET sorted == SetToSortSeq({o \in offsets : o + size + gap <= n}, <)
  IN  [k \in DOMAIN sorted |-> WindowAt(sorted[k], n, size, gap)]

(* The windows of run_walk_forward.                                        *)
WalkForwardWindows(n, count, gapBars, regimes) ==
  LET size == n \div Greater(count, 1)
      testSize == size - TrainPart(size)
  IN  WindowsFrom(RegimeOffsets(n, size, count, testSize, regimes), n, size, Gap(gapBars, testSize))

(* evaluate_is_oos_folds: the windows that a candidate of the search is    *)
(* scored on, when the search is told to look out of sample.               *)
EmbeddedWindows(n, count, gapBars) ==
  LET size == n \div Greater(count, 1)
      testSize == size - TrainPart(size)
  IN  IF count = 0 \/ TrainPart(size) = 0 \/ testSize = 0 THEN <<>>
      ELSE WindowsFrom(UniformOffsets(n, size, count), n, size, Gap(gapBars, testSize))

---------------------------------------------------------------------------
(* create_cpcv_folds and run_cpcv_analysis                                 *)

FoldSize(n) == n \div Folds

Purge(n) == Lesser(PurgeBars, FoldSize(n) \div 4)

FoldStart(f, n) == f * FoldSize(n)

FoldEnd(f, n) == IF f = Folds - 1 THEN n ELSE (f + 1) * FoldSize(n)

TestBars(f, n) == FoldStart(f, n) .. FoldEnd(f, n) - 1

PurgedBefore(f, n) ==   \* mutant: only the side before a fold is purged
  Positive(FoldStart(f, n) - Purge(n)) .. FoldStart(f, n) - 1

(* The bars next to a fold, on both sides.                                 *)
PurgedBars(f, n) ==
  (Positive(FoldStart(f, n) - Purge(n)) .. FoldStart(f, n) - 1)
    \cup (FoldEnd(f, n) .. Lesser(FoldEnd(f, n) + Purge(n), n) - 1)

(* generate_combinations: every choice of the folds to test on.            *)
Combinations == kSubset(TestFolds, 0 .. Folds - 1)

CombinedTest(combo, n) == UNION {TestBars(f, n) : f \in combo}

CombinedTrain(combo, n) ==
  (0 .. n - 1) \ (CombinedTest(combo, n) \cup UNION {PurgedBars(f, n) : f \in combo})
=============================================================================
