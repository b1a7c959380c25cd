----------------------------- MODULE WorkerPool -----------------------------
(***************************************************************************)
(* The process pool of the genetic algorithm (genetic/src/worker_pool.rs). *)
(* evaluate_batch deals the chromosomes of a batch out to the workers in   *)
(* turn and runs one thread per worker: the thread writes all its requests *)
(* down the worker's stdin, then reads one response per request off its    *)
(* stdout. A response says nothing of the request it answers: its place in *)
(* the stream does. Worker processes read, evaluate and answer one request *)
(* at a time, and may die at any moment; none is started again.            *)
(*                                                                         *)
(* The pipes are bounded and count whole messages. A pipe write to a live  *)
(* worker blocks while the pipe is full, a read while it is empty.         *)
(***************************************************************************)
EXTENDS Integers, Sequences, FiniteSets

CONSTANTS
  NumWorkers,    \* WorkerPool::workers.len()
  BatchSizes,    \* the sizes of the batches that may be asked for
  RequestCap,    \* requests the pipe to a worker holds
  ResponseCap,   \* responses the pipe from a worker holds
  MaxBatches,    \* bound on how many batches are asked for
  NoResult,      \* None in the results of evaluate_batch
  Failure        \* FitnessResult::failure()

(* An evaluation names the chromosome it is of: batches count from 1.      *)
(* What evaluating the i-th chromosome of batch b yields.                  *)
Evaluation(b, i) == [batch |-> b, idx |-> i]

Evaluations == [batch : Nat, idx : Nat]

ASSUME PoolAssumption ==
  /\ NumWorkers \in Nat \ {0}
  /\ BatchSizes \subseteq Nat
  /\ RequestCap \in Nat \ {0} /\ ResponseCap \in Nat \ {0}
  /\ MaxBatches \in Nat
  /\ NoResult \notin Evaluations /\ Failure \notin Evaluations /\ Failure # NoResult

Workers == 0 .. NumWorkers - 1

VARIABLES
  open,      \* the pool was not shut down
  running,   \* evaluate_batch is executing
  batch,     \* how many batches were asked for
  total,     \* chromosomes.len() of the last of them
  results,   \* its results, by index
  cursor,    \* per worker: the next index of its share to write
  writing,   \* per worker: its thread is in phase 1
  pending,   \* per worker: the indices written so far
  nread,     \* per worker: how many of those were read back
  alive,     \* per worker: its process runs
  stdin,     \* per worker: requests in its pipe
  held,      \* per worker: the request it evaluates, a sequence of at most one
  stdout,    \* per worker: responses in its pipe
  faulty     \* history: indices of the batch that could not be evaluated

threads == <<cursor, writing, pending, nread>>
processes == <<alive, stdin, held, stdout>>
vars == <<open, running, batch, total, results, cursor, writing, pending, nread,
          alive, stdin, held, stdout, faulty>>

Init ==
  /\ open = TRUE /\ running = FALSE /\ batch = 0 /\ total = 0 /\ results = <<>>
  /\ cursor = [w \in Workers |-> 0]
  /\ writing = [w \in Workers |-> FALSE]
  /\ pending = [w \in Workers |-> <<>>]
  /\ nread = [w \in Workers |-> 0]
  /\ alive = [w \in Workers |-> TRUE]
  /\ stdin = [w \in Workers |-> <<>>]
  /\ held = [w \in Workers |-> <<>>]
  /\ stdout = [w \in Workers |-> <<>>]
  /\ faulty = {}

-----------------------------------------------------------------------------
(* evaluate_batch, and the phases of its threads. *)

BeginBatch(n) ==
  /\ open /\ ~ running /\ batch < MaxBatches
  /\ running' = TRUE /\ batch' = batch + 1 /\ total' = n
  /\ results' = [i \in 0 .. n - 1 |-> NoResult]
  /\ cursor' = [w \in Workers |-> w]
  /\ writing' = [w \in Workers |-> TRUE]
  /\ pending' = [w \in Workers |-> <<>>]
  /\ nread' = [w \in Workers |-> 0]
  /\ faulty' = {}
  /\ UNCHANGED <<open, processes>>

(* The thread of w is about to write the request of index cursor[w].       *)
AtWrite(w) == running /\ writing[w] /\ cursor[w] < total

Record(i, r) == results' = [results EXCEPT ![i] = r]

(* Mutant: the shares of the workers overlap.                              *)
AdvanceByOne(w) ==
  /\ cursor' = [cursor EXCEPT ![w] = @ + 1]
  /\ UNCHANGED <<open, running, batch, total, writing, nread>>

Advance(w) ==
  /\ cursor' = [cursor EXCEPT ![w] = @ + NumWorkers]
  /\ UNCHANGED <<open, running, batch, total, writing, nread>>

WriteRequest(w) ==
  /\ AtWrite(w) /\ alive[w] /\ Len(stdin[w]) < RequestCap
  /\ stdin' = [stdin EXCEPT ![w] = Append(@, Evaluation(batch, cursor[w]))]
  /\ pending' = [pending EXCEPT ![w] = Append(@, cursor[w])]
  /\ Advance(w) /\ UNCHANGED <<results, alive, held, stdout, faulty>>

(* The pipe is broken: the chromosome fails and no response is expected.   *)
WriteFails(w) ==
  /\ AtWrite(w) /\ ~ alive[w]
  /\ Record(cursor[w], Failure)
  /\ Advance(w) /\ UNCHANGED <<pending, processes, faulty>>

(* Mutant: a response is expected though nothing was written.              *)
SerialiseFailsPending(w) ==
  /\ AtWrite(w)
  /\ Record(cursor[w], Failure)
  /\ faulty' = faulty \cup {cursor[w]}
  /\ pending' = [pending EXCEPT ![w] = Append(@, cursor[w])]
  /\ Advance(w) /\ UNCHANGED processes

(* The request cannot be serialised: nothing of it is written.             *)
SerialiseFails(w) ==
  /\ AtWrite(w)
  /\ Record(cursor[w], Failure)
  /\ faulty' = faulty \cup {cursor[w]}
  /\ Advance(w) /\ UNCHANGED <<pending, processes>>

(* The single flush between the phases: ChildStdin has no buffer and its   *)
(* flush succeeds always.                                                  *)
Flush(w) ==
  /\ running /\ writing[w] /\ cursor[w] >= total
  /\ writing' = [writing EXCEPT ![w] = FALSE]
  /\ UNCHANGED <<open, running, batch, total, results, cursor, pending, nread, processes, faulty>>

AtRead(w) == running /\ ~ writing[w] /\ nread[w] < Len(pending[w])

(* The response that comes next is taken for the answer to the request     *)
(* that was written next.                                                  *)
ReadResponse(w) ==
  /\ AtRead(w) /\ stdout[w] # <<>>
  /\ Record(pending[w][nread[w] + 1],
            IF Head(stdout[w]).ok THEN Head(stdout[w]).of ELSE Failure)
  /\ stdout' = [stdout EXCEPT ![w] = Tail(@)]
  /\ nread' = [nread EXCEPT ![w] = @ + 1]
  /\ UNCHANGED <<open, running, batch, total, cursor, writing, pending, alive, stdin, held, faulty>>

(* Mutant: a read does not wait for the response.                          *)
ReadFailsAtOnce(w) ==
  /\ AtRead(w) /\ stdout[w] = <<>>
  /\ Record(pending[w][nread[w] + 1], Failure)
  /\ nread' = [nread EXCEPT ![w] = @ + 1]
  /\ UNCHANGED <<open, running, batch, total, cursor, writing, pending, processes, faulty>>

(* Mutant: a read that failed is tried again.                              *)
ReadFailsAgain(w) ==
  /\ AtRead(w) /\ stdout[w] = <<>> /\ ~ alive[w]
  /\ Record(pending[w][nread[w] + 1], Failure)
  /\ UNCHANGED <<open, running, batch, total, cursor, writing, pending, nread, processes, faulty>>

(* End of file: the worker died and what it wrote was read.                *)
ReadFails(w) ==
  /\ AtRead(w) /\ stdout[w] = <<>> /\ ~ alive[w]
  /\ Record(pending[w][nread[w] + 1], Failure)
  /\ nread' = [nread EXCEPT ![w] = @ + 1]
  /\ UNCHANGED <<open, running, batch, total, cursor, writing, pending, processes, faulty>>

(* Mutant: a thread counts as joined when its requests are written.        *)
ThreadHasWritten(w) == ~ writing[w]

ThreadDone(w) == ~ writing[w] /\ nread[w] = Len(pending[w])

(* All threads are joined; what none of them recorded is a failure.        *)
EndBatch ==
  /\ running /\ \A w \in Workers : ThreadDone(w)
  /\ running' = FALSE
  /\ results' = [i \in DOMAIN results |-> IF results[i] = NoResult THEN Failure ELSE results[i]]
  /\ UNCHANGED <<open, batch, total, threads, processes, faulty>>

(* shutdown, or drop: every worker is told to exit, and killed if it does  *)
(* not.                                                                    *)
Shutdown ==
  /\ open /\ ~ running
  /\ open' = FALSE
  /\ alive' = [w \in Workers |-> FALSE]
  /\ stdin' = [w \in Workers |-> <<>>]
  /\ held' = [w \in Workers |-> <<>>]
  /\ UNCHANGED <<running, batch, total, results, threads, stdout, faulty>>

-----------------------------------------------------------------------------
(* The worker processes. *)

TakeRequest(w) ==
  /\ alive[w] /\ held[w] = <<>> /\ stdin[w] # <<>>
  /\ held' = [held EXCEPT ![w] = <<Head(stdin[w])>>]
  /\ stdin' = [stdin EXCEPT ![w] = Tail(@)]
  /\ UNCHANGED <<open, running, batch, total, results, threads, alive, stdout, faulty>>

(* The evaluation ends in a result or in an error message.                 *)
Respond(w, ok) ==
  /\ alive[w] /\ held[w] # <<>> /\ Len(stdout[w]) < ResponseCap
  /\ stdout' = [stdout EXCEPT ![w] = Append(@, [of |-> held[w][1], ok |-> ok])]
  /\ held' = [held EXCEPT ![w] = <<>>]
  /\ faulty' = IF ok THEN faulty ELSE faulty \cup {held[w][1].idx}
  /\ UNCHANGED <<open, running, batch, total, results, threads, alive, stdin>>

(* What the process already wrote stays readable.                          *)
Crash(w) ==
  /\ alive[w]
  /\ alive' = [alive EXCEPT ![w] = FALSE]
  /\ stdin' = [stdin EXCEPT ![w] = <<>>]
  /\ held' = [held EXCEPT ![w] = <<>>]
  /\ UNCHANGED <<open, running, batch, total, results, threads, stdout, faulty>>

-----------------------------------------------------------------------------
Thread(w) ==
  \/ WriteRequest(w) \/ WriteFails(w)
  \/ Flush(w) \/ ReadResponse(w) \/ ReadFails(w)

Worker(w) == TakeRequest(w) \/ \E ok \in BOOLEAN : Respond(w, ok)

Next ==
  \/ \E n \in BatchSizes : BeginBatch(n)
  \/ EndBatch \/ Shutdown
  \/ \E w \in Workers : Thread(w) \/ SerialiseFails(w) \/ Worker(w) \/ Crash(w)

Spec == Init /\ [][Next]_vars

(* The threads are scheduled by the operating system and joined by the     *)
(* caller; a worker that lives ends each evaluation. Nothing says that a   *)
(* request cannot be serialised, that a worker dies, that a batch is asked *)
(* for or that the pool is shut down.                                      *)
PoolFairness ==
  /\ WF_vars(EndBatch)
  /\ \A w \in Workers : WF_vars(Thread(w)) /\ WF_vars(Worker(w))

FairSpec == Spec /\ PoolFairness

-----------------------------------------------------------------------------
(* The shapes of the state of worker_pool.rs.                              *)
Requests == Evaluations
Responses == [of : Evaluations, ok : BOOLEAN]

TypeOK ==
  /\ open \in BOOLEAN /\ running \in BOOLEAN /\ batch \in Nat /\ total \in Nat
  /\ results \in [0 .. total - 1 -> Evaluations \cup {NoResult, Failure}]
  /\ cursor \in [Workers -> Nat] /\ writing \in [Workers -> BOOLEAN]
  /\ pending \in [Workers -> Seq(Nat)] /\ nread \in [Workers -> Nat]
  /\ alive \in [Workers -> BOOLEAN]
  /\ stdin \in [Workers -> Seq(Requests)] /\ held \in [Workers -> Seq(Requests)]
  /\ stdout \in [Workers -> Seq(Responses)]
  /\ faulty \subseteq Nat

(* evaluate_batch returns results "in the original order": the result at   *)
(* an index is the evaluation of that chromosome in this batch, or a       *)
(* failure, though responses are matched to requests by position alone and *)
(* the pipes live on from one batch to the next.                           *)
ResultsBelong ==
  \A i \in DOMAIN results : results[i] \in {NoResult, Failure, Evaluation(batch, i)}

(* The messages of a worker between write and read, the next to read first.*)
InFlight(w) ==
  [k \in DOMAIN stdout[w] |-> stdout[w][k].of] \o held[w] \o stdin[w]

(* Between two batches nothing is on its way: no response of a batch can   *)
(* be read for a request of a later one.                                   *)
QuietBetweenBatches ==
  ~ running => \A w \in Workers : InFlight(w) = <<>>

(* A chromosome fails because it could not be evaluated or because the     *)
(* worker it was dealt to died, never because of another chromosome or     *)
(* another worker.                                                         *)
FailuresAreContained ==
  \A i \in DOMAIN results :
    results[i] = Failure => i \in faulty \/ ~ alive[i % NumWorkers]

(* evaluate_batch carries out the service: it answers every index once,    *)
(* and has nothing left to fill in when the threads are joined.            *)
Service == INSTANCE EvalService

ImplementsService == Service!ServiceSpec

(* evaluate_batch returns, whichever workers die and whatever they answer. *)
BatchReturns == running ~> ~ running
=============================================================================
