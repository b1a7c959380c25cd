------------------------------- MODULE Engine -------------------------------
(***************************************************************************)
(* The backtest engine (backtest/src/engine.rs, run_with_export_option):   *)
(* gaps of the data are filled, parameters searched for, the strategy      *)
(* simulated; by what comes out the analysis escalates from development to *)
(* validation and production, and Monte Carlo and walk-forward follow.     *)
(*                                                                         *)
(* The search and the simulation are other modules' matter: here they yield*)
(* any outcome. A bar is a time and a price, and whether it is one of the  *)
(* market or was made up. What the report says in words, data quality      *)
(* scores and the deflated Sharpe ratio are left out.                      *)
(***************************************************************************)
EXTENDS MonteCarlo

CONSTANTS
  Sources,    \* market data: sequences of bars in the order of time
  Settings,   \* [mode, export, optimise, walkForward, fill, frequency, gapFactor]
  Outcomes,   \* what a simulation may yield: [sharpe, trades]
  Threshold,  \* validation_sharpe_threshold, in hundredths like every Sharpe ratio
  Day         \* length of a day

(* A time is that of the MarketData, whatever its kind.                    *)
IsData(bars) == bars \in Seq([at : Nat, price : Int, real : BOOLEAN])

ASSUME EngineAssumption ==
  /\ Day \in Nat \ {0} /\ Threshold \in Nat
  /\ \A s \in Settings : s.frequency \in Nat \ {0} /\ s.gapFactor \in Nat \ {0}
  /\ \A s \in Sources : IsData(s)

VARIABLES
  source,    \* market_data
  settings,  \* analysis_config and gap_detection
  stage,     \* how far run_with_export_option has come
  data,      \* processed_data
  held,      \* the parameters the strategies hold
  mode,      \* current_mode
  sharpe,    \* sharpe_ratio of the core result
  windows    \* windows that walk-forward tested, None if it was not run

vars == <<monteCarloVars, source, settings, stage, data, held, mode, sharpe, windows>>

---------------------------------------------------------------------------
(* Gaps.                                                                   *)

Bar(at, price) == [at |-> at, price |-> price, real |-> FALSE]

Fill(strategy, bar, next, at, part, parts) ==
  CASE strategy = "forward" -> Bar(at, bar.price)
    [] OTHER -> Bar(at, bar.price + ((next.price - bar.price) * part) \div parts)

OneFillMore(s, bar, next) ==   \* mutant: fills up to the bar that ends the gap
  LET gap   == next.at - bar.at
      fills == IF gap > s.frequency * s.gapFactor THEN gap \div s.frequency ELSE 0
  IN  [j \in 1 .. fills |-> Fill(s.fill, bar, next, bar.at + j * s.frequency, j, fills + 1)]

(* What goes into the gap between a bar and the next one, if it is one.    *)
Fills(s, bar, next) ==
  LET gap   == next.at - bar.at
      fills == IF gap > s.frequency * s.gapFactor THEN (gap \div s.frequency) - 1 ELSE 0
  IN  [j \in 1 .. fills |-> Fill(s.fill, bar, next, bar.at + j * s.frequency, j, fills + 1)]

(* apply_gap_filling. "exclude" keeps what lies in no gap, and a gap lies  *)
(* between bars that follow one another.                                   *)
Filled(s, bars) ==
  IF s.fill \in {"off", "none"} THEN bars
  ELSE IF s.fill = "exclude"
  THEN SelectSeq(bars, LAMBDA b : ~\E i \in 1 .. Len(bars) - 1 :
                         /\ bars[i + 1].at - bars[i].at > s.frequency * s.gapFactor
                         /\ bars[i].at < b.at /\ b.at < bars[i + 1].at)
  ELSE FlattenSeq([i \in 1 .. Len(bars) |->
                     <<bars[i]>> \o (IF i = Len(bars) THEN <<>> ELSE Fills(s, bars[i], bars[i + 1]))])

---------------------------------------------------------------------------
(* The windows of walk-forward.                                            *)

Span(bars) == IF Len(bars) < 2 THEN 0 ELSE bars[Len(bars)].at - bars[1].at

(* num_days                                                                *)
WholeDays(bars) == Span(bars) \div Day

MedianDistance(bars) ==
  LET distance(i) == bars[i + 1].at - bars[i].at
      distances == SelectSeq([i \in 1 .. Len(bars) - 1 |-> distance(i)], LAMBDA d : d > 0)
  IN  IF distances = <<>> THEN 0
      ELSE SortSeq(distances, LAMBDA m, n : m < n)[(Len(distances) \div 2) + 1]

NoEmbargo(distance) == 0   \* mutant: the windows follow at once

(* The days of 200 bars, at least 1 and at most 14.                        *)
EmbargoDays(distance) ==
  LET barsPerDay == Greater(Day \div distance, 1)
  IN  IF distance > 0 THEN Lesser(Greater((200 + barsPerDay - 1) \div barsPerDay, 1), 14) ELSE 1

(* generate_windows, with two thirds of the whole days for training and the*)
(* rest for testing.                                                       *)
Windows(bars) ==
  LET days     == WholeDays(bars)
      training == (67 * days) \div 100
      testing  == days - training
      step     == Greater(testing, 7)
      start(k) == k * step
  IN  {k \in 0 .. days : (start(k) + training + EmbargoDays(MedianDistance(bars)) + testing) * Day
                           <= Span(bars)}

---------------------------------------------------------------------------
Init ==
  /\ source \in Sources /\ settings \in Settings
  /\ stage = "start" /\ data = source /\ held = "initial" /\ sharpe = None /\ windows = None
  /\ mode = IF settings.export THEN "production" ELSE settings.mode
  /\ trades = <<>> /\ paths = <<>> /\ bands = None

PrepareData ==
  /\ stage = "start" /\ stage' = "search"
  /\ data' = Filled(settings, source)
  /\ UNCHANGED <<monteCarloVars, source, settings, held, mode, sharpe, windows>>

(* update_all_parameters gives the strategies the best that was found.     *)
Search ==
  /\ stage = "search" /\ stage' = "simulate"
  /\ held' = IF settings.optimise THEN "found" ELSE held
  /\ UNCHANGED <<monteCarloVars, source, settings, data, mode, sharpe, windows>>

(* A strategy that does not take the parameters ends the run; those before *)
(* it have them.                                                           *)
SearchFails ==
  /\ stage = "search" /\ settings.optimise
  /\ stage' = "failed" /\ held' = "mixed"
  /\ UNCHANGED <<monteCarloVars, source, settings, data, mode, sharpe, windows>>

Simulate ==
  /\ stage = "simulate" /\ stage' = "escalate"
  /\ \E outcome \in Outcomes : sharpe' = outcome.sharpe /\ trades' = outcome.trades
  /\ UNCHANGED <<paths, bands, source, settings, data, held, mode, windows>>

(* A poor Sharpe ratio is validated, an excellent one goes to production;  *)
(* the second question is asked of what the first one answered.            *)
Escalated(m, ratio) ==
  LET validated == IF m = "development" /\ ratio # None /\ ratio < Threshold THEN "validation" ELSE m
  IN  IF validated = "validation" /\ ratio # None /\ 2 * ratio > 3 * Threshold
      THEN "production" ELSE validated

Escalate ==
  /\ stage = "escalate"
  /\ mode' = Escalated(mode, sharpe)
  /\ stage' = IF mode' = "development" THEN "report" ELSE "monteCarlo"
  /\ UNCHANGED <<monteCarloVars, source, settings, data, held, sharpe, windows>>

RunMonteCarlo ==
  /\ stage = "monteCarlo" /\ MonteCarloNext
  /\ UNCHANGED <<source, settings, stage, data, held, mode, sharpe, windows>>

EndMonteCarlo ==
  /\ stage = "monteCarlo" /\ MonteCarloDone
  /\ stage' = IF mode = "production" /\ settings.walkForward THEN "walkForward" ELSE "report"
  /\ UNCHANGED <<monteCarloVars, source, settings, data, held, mode, sharpe, windows>>

(* Each window would be searched on its training slice and tested on the   *)
(* other, and the parameters found before be restored at the end.          *)
WalkForward ==
  /\ stage = "walkForward" /\ stage' = "report"
  /\ windows' = IF WholeDays(data) < 3 THEN {} ELSE Windows(data)
  /\ UNCHANGED <<monteCarloVars, source, settings, data, held, mode, sharpe>>

Next ==
  \/ PrepareData \/ Search \/ SearchFails \/ Simulate \/ Escalate
  \/ RunMonteCarlo \/ EndMonteCarlo \/ WalkForward

Spec == Init /\ [][Next]_vars

---------------------------------------------------------------------------
(* Filling adds bars and takes none away: those of the market stay, in     *)
(* their order; time goes on from bar to bar; and no gap is left that would*)
(* be filled again, if a gap is at least two bars long.                    *)
FillingIsFaithful ==
  stage # "start" =>
    /\ IsData(data) /\ SelectSeq(data, LAMBDA b : b.real) = source
    /\ \A i \in 1 .. Len(data) - 1 : data[i].at < data[i + 1].at
    /\ settings.fill \in {"forward", "linear"} /\ settings.gapFactor >= 2 =>
         \A i \in 1 .. Len(data) - 1 :
           data[i + 1].at - data[i].at <= settings.frequency * settings.gapFactor

(* The walk-forward of the engine tests nothing, however long the data: the*)
(* training and the test take all whole days, the embargo is one more.     *)
WalkForwardTestsNothing == windows \in {None, {}}
=============================================================================
