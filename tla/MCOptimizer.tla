---------------------------- MODULE MCOptimizer ----------------------------
(* The instances that TLC explores, one search at a time: of Optimizer, two*)
(* chromosomes that make niches of up to three, scores that gain and lose, *)
(* and generations that sample, look at all data, and look out of sample;  *)
(* of Nsga, three chromosomes in a population of four, which makes fronts  *)
(* of one to four, with members that are alike and others that failed.     *)
EXTENDS Optimizer, Nsga

MCScores == {-12, 12}

(* Sharpe ratio and largest drawdown.                                      *)
MCDirections == <<"maximize", "minimize">>
MCPoints == {<<2, 1>>, <<1, 2>>, <<4, 4>>, <<-1, 3>>}

NoOptimizer ==
  /\ pc = "done" /\ kind = "plain" /\ gen = 0 /\ stagnant = 0 /\ restarts = 0
  /\ score = <<>> /\ population = <<>> /\ raw = <<>> /\ fitness = <<>>
  /\ best = [genome |-> Nobody, fitness |-> 0, context |-> FullResolution, failed |-> TRUE]

NoNsga ==
  /\ stage = "done" /\ length = 0 /\ generation = 0
  /\ members = Nobody /\ values = Nobody /\ chosen = Nobody

MCInit ==
  \/ Init /\ NoNsga
  \/ NsgaInit /\ NoOptimizer

MCNext ==
  \/ Next /\ UNCHANGED nsgaVars
  \/ NsgaNext /\ UNCHANGED vars

MCSpec == MCInit /\ [][MCNext]_<<vars, nsgaVars>>
=============================================================================
