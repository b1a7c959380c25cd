-------------------------------- MODULE Nsga --------------------------------
(***************************************************************************)
(* NsgaIIOptimizer::run (genetic/src/nsga2.rs), the search that the        *)
(* validation of a Python strategy uses unless told otherwise: the         *)
(* population is sorted into fronts, within a front those in sparse        *)
(* regions go first, and the two foremost, or a tenth, are kept.           *)
(*                                                                         *)
(* What a chromosome scores is the data's, and changes with the sample     *)
(* that a generation looks at; a failed evaluation scores 0 in every       *)
(* objective. Crossover and mutation of the winners of tournaments may     *)
(* yield any chromosome.                                                   *)
(***************************************************************************)
EXTENDS Money, FiniteSetsExt, SequencesExt

CONSTANTS
  Candidates,  \* chromosomes
  Directions,  \* direction of each objective: "maximize" or "minimize"
  Points,      \* what a chromosome may score, objective by objective
  Members,     \* population_size
  Lengths      \* generations, one of these

ASSUME NsgaAssumption ==
  /\ Directions \in Seq({"maximize", "minimize"})
  /\ \A v \in Points : v \in [DOMAIN Directions -> Int]
  /\ Members \in Nat \ {0} /\ Lengths \subseteq Nat

VARIABLES
  stage,       \* evaluate, select or done
  length,      \* generations
  generation,  \* generation, from 0
  members,     \* population
  values,      \* pop_objectives
  chosen       \* the chromosome that is returned

nsgaVars == <<stage, length, generation, members, values, chosen>>

Seats == 1 .. Members
Objectives == DOMAIN Directions
Nobody == <<>>

EliteCount == Greater(Members \div 10, 2)

FailedPoint == [m \in Objectives |-> 0]

-----------------------------------------------------------------------------
(* Fronts                                                                  *)

Better(m, a, b) == IF Directions[m] = "maximize" THEN a > b ELSE a < b

Dominates(u, v) ==
  /\ \A m \in Objectives : ~Better(m, v[m], u[m])
  /\ \E m \in Objectives : Better(m, u[m], v[m])

(* A seat joins the next front when the last of those that dominate it has *)
(* been placed, in the order in which that happens.                        *)
NextFront(fronts) ==
  LET placed == UNION {Range(front) : front \in Range(fronts)}
      Dominators(p) == {q \in Seats : Dominates(values[q], values[p])}
      Latest(p) == IF fronts = <<>> THEN 0
                   ELSE Max({i \in DOMAIN Last(fronts) : Last(fronts)[i] \in Dominators(p)})
  IN  SetToSortSeq({p \in Seats \ placed : Dominators(p) \subseteq placed},
                   LAMBDA p, q : Latest(p) < Latest(q) \/ (Latest(p) = Latest(q) /\ p < q))

(* fast_non_dominated_sort                                                 *)
Fronts ==
  FoldLeft(LAMBDA fronts, n : IF NextFront(fronts) = <<>> THEN fronts
                              ELSE Append(fronts, NextFront(fronts)),
           <<>>, [n \in Seats |-> n])

-----------------------------------------------------------------------------
(* Crowding                                                                *)

(* The places of a front in the order of an objective.                     *)
ByObjective(front, m) ==
  LET Precedes(i, j) == \/ values[front[i]][m] < values[front[j]][m]
                        \/ values[front[i]][m] = values[front[j]][m] /\ i < j
  IN  SortSeq([i \in DOMAIN front |-> i], Precedes)

ExtentOf(front, m) ==
  LET all == {values[p][m] : p \in Range(front)} IN Max(all) - Min(all)

(* Distances within a front are compared with each other only: each is     *)
(* here multiplied by the extents of all objectives. An objective in which *)
(* all are equal adds nothing.                                             *)
Scale(front, M) ==
  FoldSet(LAMBDA m, product : product * Greater(ExtentOf(front, m), 1), 1, M)

Infinity == 1000000

(* crowding_distance_assignment, for the place i of a front.               *)
Distance(front, i) ==
  LET order == [m \in Objectives |-> ByObjective(front, m)]
      Place(m) == CHOOSE k \in DOMAIN front : order[m][k] = i
      Value(m, k) == values[front[order[m][k]]][m]
  IN  IF Len(front) <= 2 \/ \E m \in Objectives : Place(m) \in {1, Len(front)}
      THEN Infinity
      ELSE MapThenSumSet(LAMBDA m : (Value(m, Place(m) + 1) - Value(m, Place(m) - 1))
                                      * Scale(front, Objectives \ {m}), Objectives)

(* Mutant: the most crowded first.                                         *)
CrowdedPrecedence(rank, crowd, p, q) ==
  \/ rank[p] < rank[q]
  \/ rank[p] = rank[q] /\ crowd[p] < crowd[q]
  \/ rank[p] = rank[q] /\ crowd[p] = crowd[q] /\ p < q

(* By front, then the least crowded first, then as they are.               *)
Precedence(rank, crowd, p, q) ==
  \/ rank[p] < rank[q]
  \/ rank[p] = rank[q] /\ crowd[p] > crowd[q]
  \/ rank[p] = rank[q] /\ crowd[p] = crowd[q] /\ p < q

Sorted ==
  LET fronts == Fronts
      rank == [p \in Seats |-> CHOOSE k \in DOMAIN fronts : p \in Range(fronts[k])]
      crowd == [p \in Seats |->
                 LET front == fronts[rank[p]]
                 IN  Distance(front, CHOOSE i \in DOMAIN front : front[i] = p)]
  IN  SortSeq([p \in Seats |-> p], LAMBDA p, q : Precedence(rank, crowd, p, q))

-----------------------------------------------------------------------------
(* The choice from the last front                                          *)

(* How far towards the best of the front, of the extent of the objective.  *)
Progress(front, i, m) ==
  LET all == {values[p][m] : p \in Range(front)}
      v == values[front[i]][m]
  IN  IF ExtentOf(front, m) = 0 THEN IF Directions[m] = "maximize" THEN 0 ELSE 1
      ELSE IF Directions[m] = "maximize" THEN v - Min(all) ELSE Max(all) - v

(* The product of the shares, those that are 0 taken for a tiny number.    *)
Tiny(front, i) == {m \in Objectives : Progress(front, i, m) = 0}
Balance(front, i) ==
  FoldSet(LAMBDA m, product : product * Progress(front, i, m),
          Scale(front, Tiny(front, i)), Objectives \ Tiny(front, i))

MoreBalanced(front, i, j) ==
  \/ Cardinality(Tiny(front, i)) < Cardinality(Tiny(front, j))
  \/ /\ Cardinality(Tiny(front, i)) = Cardinality(Tiny(front, j))
     /\ Balance(front, i) > Balance(front, j)

(* select_knee_point: the first of the most balanced; of two, the first.   *)
Knee(front) ==
  IF Len(front) <= 2 THEN 1
  ELSE CHOOSE i \in DOMAIN front :
         /\ \A j \in DOMAIN front : ~MoreBalanced(front, j, i)
         /\ \A j \in 1 .. i - 1 : MoreBalanced(front, i, j)

-----------------------------------------------------------------------------
NsgaInit ==
  /\ stage = "evaluate" /\ generation = 0
  /\ length \in Lengths /\ members \in [Seats -> Candidates]
  /\ values = Nobody /\ chosen = Nobody

EvaluateObjectives ==
  /\ stage = "evaluate" /\ generation < length
  /\ \E scored \in [Candidates -> Points], failed \in SUBSET Seats :
       values' = [p \in Seats |-> IF p \in failed THEN FailedPoint ELSE scored[members[p]]]
  /\ stage' = "select"
  /\ UNCHANGED <<length, generation, members, chosen>>

Reproduce ==
  /\ stage = "select" /\ generation < length - 1
  /\ LET sorted == Sorted
         elite == [k \in 1 .. Lesser(EliteCount, Members) |-> members[sorted[k]]]
     IN  \E children \in [1 .. Members - Len(elite) -> Candidates] :
           members' = elite \o children
  /\ generation' = generation + 1 /\ stage' = "evaluate" /\ values' = Nobody
  /\ UNCHANGED <<length, chosen>>

ReturnKnee ==
  /\ stage = "select" /\ generation = length - 1
  /\ chosen' = <<members[Fronts[1][Knee(Fronts[1])]]>>
  /\ stage' = "done"
  /\ UNCHANGED <<length, generation, members, values>>

(* Without a generation the first of the population is returned.           *)
ReturnFirst ==
  /\ stage = "evaluate" /\ length = 0
  /\ chosen' = <<members[1]>> /\ stage' = "done"
  /\ UNCHANGED <<length, generation, members, values>>

NsgaNext == EvaluateObjectives \/ Reproduce \/ ReturnKnee \/ ReturnFirst

-----------------------------------------------------------------------------
(* Whatever the other members are, however many failed and however many    *)
(* are alike, the next generation holds, for each objective, a chromosome  *)
(* that scored the best of it: sorting, crowding and an elite of two keep  *)
(* both ends of the front. (Of one objective that is maximized and one     *)
(* that is minimized, which are the objectives of the validation: among    *)
(* those that are alike only one is then taken for the end.)               *)
ExtremesSurvive ==
  [][ generation' # generation =>
        \A m \in Objectives : \E p \in Seats :
          /\ \A q \in Seats : ~Better(m, values[q][m], values[p][m])
          /\ members[p] \in Range(members') ]_nsgaVars
=============================================================================
