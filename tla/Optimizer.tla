----------------------------- MODULE Optimizer -----------------------------
(***************************************************************************)
(* The generations of the genetic search (genetic/src/lib.rs):             *)
(* GeneticOptimizer::run, the plain one, and AdaptiveGeneticOptimizer::run,*)
(* which judges early generations on sampled data and the last ones out of *)
(* sample. Both share fitness among similar chromosomes, keep the elite,   *)
(* breed the rest, and start afresh when they no longer improve.           *)
(*                                                                         *)
(* What a chromosome scores in a context is the data's, and fixed; an      *)
(* evaluation may fail (FitnessResult::failure), now and not then. Two     *)
(* chromosomes are the same or farther apart than the sharing radius, and  *)
(* a penalty is one half. Crossover and mutation may yield any chromosome. *)
(***************************************************************************)
EXTENDS Money, FiniteSets, Sequences

CONSTANTS
  Genomes,         \* chromosomes
  Scores,          \* fitnesses, in units above the improvement threshold
  PopulationSize,  \* population_size
  Generations,     \* generations
  Patience,        \* convergence_threshold
  FullGenerations, \* full_resolution_generations
  MaxRate,         \* max_sample_rate; min_sample_rate is 1
  Folds,           \* oos_folds
  Sharing,         \* enable_fitness_sharing
  Crowded,         \* chromosomes like a deployed strategy of someone else
  Complexity       \* complexity_penalty_weight times the number of parameters

ASSUME OptimizerAssumption ==
  /\ Scores \subseteq Int /\ PopulationSize \in Nat \ {0} /\ Generations \in Nat
  /\ Patience \in Nat /\ FullGenerations \in Nat /\ MaxRate \in Nat \ {0} /\ Folds \in Nat
  /\ Sharing \in BOOLEAN /\ Crowded \subseteq Genomes /\ Complexity \in Nat

VARIABLES
  pc,          \* evaluate, rank, breed or done
  kind,        \* which of the two optimizers runs
  score,       \* what each chromosome scores in each context
  gen,         \* generation, from 0
  population,  \* population
  raw,         \* fitness_results of this generation
  fitness,     \* fitnesses of this generation, adjusted
  best,        \* best and best_fitness, and how they came about
  stagnant,    \* generations_without_improvement
  restarts     \* restarts

vars == <<pc, kind, score, gen, population, raw, fitness, best, stagnant, restarts>>

Positions == 1 .. PopulationSize

(* The top 5 %, at least one.                                              *)
EliteSize == (5 * PopulationSize + 99) \div 100

MaxRestarts == 2

---------------------------------------------------------------------------
(* Contexts: how closely the data is looked at, and whether out of sample. *)

Remaining(g) == Positive(Generations - (g + 1))

(* From MaxRate down to 1, rounded, over the generations of exploration.   *)
SampleRate(g) ==
  LET exploration == Positive(Generations - FullGenerations)
      exact == MaxRate * exploration - g * (MaxRate - 1)
  IN  IF Remaining(g) < FullGenerations \/ exploration = 0 THEN 1
      ELSE Greater((2 * exact + exploration) \div (2 * exploration), 1)

OosFolds(g) == IF Remaining(g) < FullGenerations THEN Folds ELSE 0

FullResolution == [rate |-> 1, folds |-> 0]
AdaptiveContext(g) == [rate |-> SampleRate(g), folds |-> OosFolds(g)]
Contexts == {FullResolution} \cup {AdaptiveContext(g) : g \in 0 .. Generations - 1}

Context == IF kind = "plain" THEN FullResolution ELSE AdaptiveContext(gen)

(* A failed evaluation is a default result: its fitness is 0.              *)
Failure == [fitness |-> 0, failed |-> TRUE]
Evaluation(genome, context) == [fitness |-> score[genome][context], failed |-> FALSE]

---------------------------------------------------------------------------
(* Adjusting the fitnesses of a generation                                 *)

(* apply_sign_aware_penalty_factor: a penalty must make any fitness worse. *)
Penalised(f) == IF f >= 0 THEN f \div 2 ELSE 2 * f

(* Those that apply_robustness_penalty looks at: not below the fitness at  *)
(* (1 - top_percentile_threshold) of the ranking, best first; with a       *)
(* threshold of 10 % that is the one above the last tenth.                 *)
ThresholdRank == (9 * PopulationSize) \div 10
Above(fs, p) == Cardinality({q \in Positions : fs[q] > fs[p]})
Checked(fs) == {p \in Positions : ~raw[p].failed /\ Above(fs, p) <= ThresholdRank}

Robust(fs, unstable) ==
  [p \in Positions |-> IF p \in unstable THEN Penalised(fs[p]) ELSE fs[p]]

(* apply_fitness_sharing: those who are alike share what they gain, and    *)
(* are charged more for what they lose.                                    *)
Niche(p) == Cardinality({q \in Positions : population[q] = population[p]})

Shared(fs) ==
  [p \in Positions |-> IF fs[p] >= 0 THEN fs[p] \div Niche(p) ELSE fs[p] * Niche(p)]

(* The adaptive optimizer multiplies whatever sign the fitness has.        *)
CrowdedOut(fs) ==
  [p \in Positions |-> IF population[p] \notin Crowded THEN fs[p]
                       ELSE IF kind = "plain" THEN Penalised(fs[p]) ELSE fs[p] \div 2]

Simpler(fs) == [p \in Positions |-> fs[p] - Complexity]

Adjusted(unstable) ==
  LET robust == Robust([p \in Positions |-> raw[p].fitness], unstable)
  IN  Simpler(CrowdedOut(IF Sharing THEN Shared(robust) ELSE robust))

(* Only the plain optimizer, with use_monte_carlo_fitness, in its later    *)
(* generations.                                                            *)
ChecksRobustness == kind = "plain" /\ gen >= Generations \div 2

---------------------------------------------------------------------------
(* Ranking: best first, and those that are equal in the order they are in. *)

Before(fs, p, q) == fs[p] > fs[q] \/ (fs[p] = fs[q] /\ p < q)
Rank(fs, p) == Cardinality({q \in Positions : Before(fs, q, p)})

ElitesByPosition(fs) == {p \in Positions : p <= EliteSize}   \* mutant: not ranked

Elites(fs) == {p \in Positions : Rank(fs, p) < EliteSize}

(* The first of the elite with the best fitness replaces a worse best.     *)
BestOf(fs) ==
  LET top == CHOOSE p \in Positions : Rank(fs, p) = 0
  IN  IF top \in Elites(fs) /\ fs[top] > best.fitness
      THEN [genome |-> population[top], fitness |-> fs[top], context |-> Context,
            failed |-> raw[top].failed]
      ELSE best

(* More than 0.1 %, or 0.001 if there is nothing to take a share of.       *)
Improves(now, before) == 1000 * (now - before) > Positive(before)

---------------------------------------------------------------------------
Init ==
  /\ pc = "evaluate" /\ kind \in {"plain", "adaptive"}
  /\ score \in [Genomes -> [Contexts -> Scores]]
  /\ gen = 0 /\ population \in [Positions -> Genomes]
  /\ raw = <<>> /\ fitness = <<>> /\ stagnant = 0 /\ restarts = 0
  /\ \E result \in {Evaluation(population[1], FullResolution), Failure} :
       /\ best = [genome |-> population[1], fitness |-> result.fitness,
                  context |-> FullResolution, failed |-> result.failed]

(* The whole population, one after the other, in threads, or in workers.   *)
Evaluate ==
  /\ pc = "evaluate" /\ gen < Generations /\ pc' = "rank"
  /\ \E failed \in SUBSET Positions :
       raw' = [p \in Positions |-> IF p \in failed THEN Failure
                                   ELSE Evaluation(population[p], Context)]
  /\ UNCHANGED <<kind, score, gen, population, fitness, best, stagnant, restarts>>

(* Adjust, rank, remember the best, and see whether it got any better.     *)
Judge ==
  /\ pc = "rank" /\ pc' = "breed"
  /\ \E unstable \in IF ChecksRobustness THEN SUBSET Checked([p \in Positions |-> raw[p].fitness])
                                         ELSE {{}} :
       fitness' = Adjusted(unstable)
  /\ best' = BestOf(fitness')
  /\ stagnant' = IF Improves(best'.fitness, best.fitness) THEN 0 ELSE stagnant + 1
  /\ UNCHANGED <<kind, score, gen, population, raw, restarts>>

Converged == stagnant >= Patience

NextGeneration ==
  /\ gen' = gen + 1 /\ raw' = <<>> /\ fitness' = <<>> /\ pc' = "evaluate"
  /\ UNCHANGED <<kind, score, best>>

(* Selection, crossover and mutation, or random draws: the elite stays in  *)
(* front, the rest may be anything.                                        *)
Breed ==
  /\ pc = "breed" /\ ~Converged
  /\ \E next \in [Positions -> Genomes] :
       /\ \A p \in Elites(fitness) : next[Rank(fitness, p) + 1] = population[p]
       /\ population' = next
  /\ NextGeneration
  /\ UNCHANGED <<stagnant, restarts>>

(* All but the best is drawn anew. No progress is reported.                *)
Restart ==
  /\ pc = "breed" /\ Converged /\ restarts < MaxRestarts
  /\ \E next \in [Positions -> Genomes] : next[1] = best.genome /\ population' = next
  /\ restarts' = restarts + 1 /\ stagnant' = 0
  /\ NextGeneration

Stop ==
  /\ \/ pc = "evaluate" /\ gen = Generations
     \/ pc = "breed" /\ Converged /\ restarts = MaxRestarts
  /\ pc' = "done"
  /\ UNCHANGED <<kind, score, gen, population, raw, fitness, best, stagnant, restarts>>

Next == Evaluate \/ Judge \/ Breed \/ Restart \/ Stop

Spec == Init /\ [][Next]_vars

---------------------------------------------------------------------------
(* A next generation is bred with one of the fittest of this one in it; if *)
(* it is drawn anew, with the best so far.                                 *)
LeadersSurvive ==
  [][ gen' # gen =>
        LET kept == {population'[p] : p \in Positions}
        IN  IF restarts' # restarts THEN best.genome \in kept
            ELSE \E p \in Positions : /\ population[p] \in kept
                                      /\ \A q \in Positions : fitness[q] <= fitness[p] ]_vars
=============================================================================
