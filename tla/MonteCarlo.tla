---------------------------- MODULE MonteCarlo ----------------------------
(***************************************************************************)
(* Monte Carlo over the trades of a backtest (backtest/src/monte_carlo.rs):*)
(* paths that take the trades in another order, paths that draw trades with*)
(* replacement, and paths made of blocks of consecutive trades; then the   *)
(* value at risk and the expected shortfall of the final profits.          *)
(*                                                                         *)
(* The random generator chooses freely, so a seed plays no part, nor does  *)
(* the order in which the threads of the pool run the paths: their results *)
(* are collected by index. Sharpe ratios, win rates, their means and       *)
(* deviations and the fan chart are left out. Amounts are whole numbers,   *)
(* fractions of one rounded down, and drawdowns are in percent.            *)
(***************************************************************************)
EXTENDS Money, FiniteSetsExt, SequencesExt

CONSTANTS
  Capital,    \* initial_capital
  MinTrades,  \* MC_MIN_TRADES
  NumRuns,    \* monte_carlo_runs of the configuration
  BlockRuns,  \* runs of the block bootstrap
  TailPart,   \* a tail is one part in TailPart of the profits
  MinBlock,   \* min_block_size
  None

ASSUME MonteCarloAssumption ==
  /\ Capital \in Nat \ {0} /\ MinTrades \in Nat /\ MinBlock \in Nat /\ TailPart \in Nat \ {0}
  /\ NumRuns \in Nat \ {0} /\ BlockRuns \in Nat \ {0}   \* no profits at all: a panic

VARIABLES
  trades,  \* trade_returns and trade_maes: a sequence of [gain, mae]
  paths,   \* the results of the runs so far
  bands    \* the MonteCarloResult, None before

monteCarloVars == <<trades, paths, bands>>

---------------------------------------------------------------------------
(* What a run samples: for each of n trades, which it takes.               *)
Draws(n) == [1 .. n -> 1 .. n]

Orders(n) == {s \in Draws(n) : \A i, j \in 1 .. n : i # j => s[i] # s[j]}

(* optimal_block_size: the cube root, at least 3, at most a quarter.       *)
OptimalBlock(n) ==
  LET root == Min({k \in 0 .. n : k * k * k >= n})
  IN  Greater(Lesser(Greater(root, 3), n \div 4), 1)

BlockSize(n) == Greater(Lesser(Greater(OptimalBlock(n), MinBlock), n \div 2), 1)

(* Overlapping blocks begin anywhere and go on at the first trade.         *)
Blocks(n) ==
  LET size == BlockSize(n)
  IN  {[i \in 1 .. n |-> ((start[(i - 1) \div size] + ((i - 1) % size)) % n) + 1] :
         start \in [0 .. (n - 1) \div size -> 0 .. n - 1]}

---------------------------------------------------------------------------
(* max_dd: what is lost of the peak.                                       *)
Depth(peak, equity) == IF peak > 0 THEN (100 * (peak - equity)) \div peak ELSE 0

StartOfPath == [equity |-> Capital, peak |-> Capital, drawdown |-> 0, low |-> Capital]

AddDollars(path, i) ==   \* mutant: adds up dollars, as windows stitched together once were
  LET equity == path.equity + trades[i].gain
      peak   == Greater(path.peak, equity)
  IN  [equity |-> equity, peak |-> peak, low |-> Lesser(path.low, equity),
       drawdown |-> Max({path.drawdown, Depth(peak, equity), Depth(path.peak, path.equity - trades[i].mae)})]

(* A trade on a path gains the fraction of the account that it gained of   *)
(* the initial capital; its worst moment comes before.                     *)
Compound(path, i) ==
  LET equity  == path.equity + (path.equity * trades[i].gain) \div Capital
      peak    == Greater(path.peak, equity)
      adverse == (trades[i].mae * Positive(path.equity)) \div Capital
      trough  == IF adverse > 0 THEN Depth(path.peak, path.equity - adverse) ELSE 0
  IN  [equity |-> equity, peak |-> peak, low |-> Lesser(path.low, equity),
       drawdown |-> Max({path.drawdown, trough, Depth(peak, equity)})]

(* What a run yields; "low" is a history of the path.                      *)
Run(sample) ==
  LET path == FoldLeft(Compound, StartOfPath, sample)
  IN  [profit |-> path.equity - Capital, drawdown |-> path.drawdown, low |-> path.low]

Profits(runs) == SortSeq([i \in DOMAIN runs |-> runs[i].profit], LAMBDA m, n : m < n)

(* percentile of sorted values: the nearest rank, halves rounded up.       *)
Percentile(sorted, p) == sorted[(p * (Len(sorted) - 1) + 50) \div 100 + 1]

(* VaR and CVaR, both as losses. The cutoff may be a profit while the tail *)
(* below it is a loss: then VaR is the worst of the tail, and in any case  *)
(* at most CVaR.                                                           *)
ValueAtRisk(profits) ==
  LET cut    == Len(profits) \div TailPart
      worst  == SubSeq(profits, 1, cut)
      sum    == FoldLeft(LAMBDA m, n : m + n, 0, worst)
      cvar   == IF cut = 0 THEN 0 ELSE Positive(-sum) \div cut
      cutoff == Positive(-profits[Lesser(cut, Len(profits) - 1) + 1])
      lost   == IF cutoff = 0 /\ cvar > 0 THEN Positive(-worst[1]) ELSE cutoff
  IN  [cvar |-> cvar, var |-> Lesser(lost, cvar)]

---------------------------------------------------------------------------
BootstrapRuns == Lesser(Greater(NumRuns \div 2, 1), NumRuns)

ShuffleRuns == NumRuns - BootstrapRuns

Unreliable == [var |-> 0, cvar |-> 0, unreliable |-> TRUE, blockP5 |-> None]

TooFewTrades ==
  /\ bands = None /\ Len(trades) < MinTrades
  /\ bands' = Unreliable
  /\ UNCHANGED <<trades, paths>>

Shuffle ==
  /\ bands = None /\ Len(trades) >= MinTrades /\ Len(paths) < ShuffleRuns
  /\ \E sample \in Orders(Len(trades)) : paths' = Append(paths, Run(sample))
  /\ UNCHANGED <<trades, bands>>

Bootstrap ==
  /\ bands = None /\ Len(trades) >= MinTrades
  /\ ShuffleRuns <= Len(paths) /\ Len(paths) < NumRuns
  /\ \E sample \in Draws(Len(trades)) : paths' = Append(paths, Run(sample))
  /\ UNCHANGED <<trades, bands>>

(* All profits are those of the bootstrap: a shuffled path ends where every*)
(* other one does.                                                         *)
Aggregate ==
  /\ bands = None /\ Len(paths) = NumRuns
  /\ LET tail == ValueAtRisk(Profits(SubSeq(paths, ShuffleRuns + 1, NumRuns)))
     IN  bands' = [var |-> tail.var, cvar |-> tail.cvar, unreliable |-> FALSE, blockP5 |-> None]
  /\ paths' = <<>>
  /\ UNCHANGED trades

(* The block bootstrap has no minimum of trades but one.                   *)
BootstrapBlocks ==
  /\ bands # None /\ bands.blockP5 = None /\ trades # <<>> /\ Len(paths) < BlockRuns
  /\ \E sample \in Blocks(Len(trades)) : paths' = Append(paths, Run(sample))
  /\ UNCHANGED <<trades, bands>>

AggregateBlocks ==
  /\ bands # None /\ bands.blockP5 = None
  /\ IF trades = <<>>
     THEN bands' = [bands EXCEPT !.blockP5 = 0]   \* the 5 % figure of an unreliable result
     ELSE /\ Len(paths) = BlockRuns
          /\ bands' = [bands EXCEPT !.blockP5 = Percentile(Profits(paths), 5)]
  /\ paths' = <<>>
  /\ UNCHANGED trades

MonteCarloDone == bands # None /\ bands.blockP5 # None

MonteCarloNext ==
  \/ TooFewTrades \/ Shuffle \/ Bootstrap \/ Aggregate
  \/ BootstrapBlocks \/ AggregateBlocks

---------------------------------------------------------------------------
(* As long as no trade lost more than the initial capital, no path loses   *)
(* more than there is: that is why fractions are compounded.               *)
FractionsBoundTheLoss ==
  (\A i \in DOMAIN trades : trades[i].gain >= -Capital /\ trades[i].mae <= Capital)
    => \A r \in DOMAIN paths : paths[r].low >= 0 /\ paths[r].drawdown <= 100
=============================================================================
