---------------------------- MODULE EvalService ----------------------------
(***************************************************************************)
(* What evaluate_batch promises to the genetic algorithm, however it is    *)
(* carried out: every chromosome of a batch is answered once, by its own   *)
(* evaluation or by a failure, and the batch comes back when all are       *)
(* answered. WorkerPool implements this specification.                     *)
(***************************************************************************)
EXTENDS Integers

CONSTANTS
  NoResult,    \* None: no answer yet
  Failure,     \* FitnessResult::failure()
  BatchSizes   \* the sizes of the batches that may be asked for

VARIABLES
  batch,       \* how many batches were asked for
  running,     \* whether the last of them is still being evaluated
  results      \* the answers to it, by the index of the chromosome

serviceVars == <<batch, running, results>>

(* What evaluating the i-th chromosome of batch b yields.                  *)
Evaluation(b, i) == [batch |-> b, idx |-> i]

ServiceInit == batch = 0 /\ running = FALSE /\ results = <<>>

Ask(total) ==
  /\ ~ running
  /\ running' = TRUE /\ batch' = batch + 1
  /\ results' = [i \in 0 .. total - 1 |-> NoResult]

Answer(i) ==
  /\ running /\ results[i] = NoResult
  /\ \E r \in {Evaluation(batch, i), Failure} : results' = [results EXCEPT ![i] = r]
  /\ UNCHANGED <<batch, running>>

Return ==
  /\ running /\ \A i \in DOMAIN results : results[i] # NoResult
  /\ running' = FALSE /\ UNCHANGED <<batch, results>>

ServiceNext == (\E total \in BatchSizes : Ask(total)) \/ (\E i \in DOMAIN results : Answer(i)) \/ Return

ServiceSpec == ServiceInit /\ [][ServiceNext]_serviceVars
=============================================================================
