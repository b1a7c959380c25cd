-------------------------- MODULE WorkerPoolProofs --------------------------
(***************************************************************************)
(* Proofs about WorkerPool, for any number of workers, any sizes of pipes  *)
(* and batches, and any number of batches.                                 *)
(***************************************************************************)
EXTENDS WorkerPool, TLAPS

-----------------------------------------------------------------------------
(* The state of evaluate_batch and of its workers always has its type.     *)
LEMMA TypeInit == Init => TypeOK
<1>1. \A S : <<>> \in Seq(S)
  OBVIOUS
<1> QED
  BY <1>1, PoolAssumption DEF Init, TypeOK, Workers

LEMMA TypeStep == TypeOK /\ [Next]_vars => TypeOK'
<1> SUFFICES ASSUME TypeOK, [Next]_vars PROVE TypeOK'
  OBVIOUS
<1> USE PoolAssumption
<1> USE DEF TypeOK
<1>1. ASSUME NEW n \in BatchSizes, BeginBatch(n) PROVE TypeOK'
  <2>1. \A S : <<>> \in Seq(S)
    OBVIOUS
  <2> QED
    BY <1>1, <2>1 DEF BeginBatch, processes, Workers
<1>2. CASE EndBatch
  BY <1>2 DEF EndBatch, threads, processes
<1>3. CASE Shutdown
  <2>1. \A S : <<>> \in Seq(S)
    OBVIOUS
  <2> QED
    BY <1>3, <2>1 DEF Shutdown, threads
<1>4. ASSUME NEW w \in Workers, WriteRequest(w) PROVE TypeOK'
  <2>1. Evaluation(batch, cursor[w]) \in Requests
    BY DEF Evaluation, Requests, Evaluations
  <2>2. stdin' \in [Workers -> Seq(Requests)] /\ pending' \in [Workers -> Seq(Nat)]
    BY <1>4, <2>1 DEF WriteRequest
  <2>3. cursor' \in [Workers -> Nat]
    BY <1>4 DEF WriteRequest, Advance
  <2> QED
    BY <1>4, <2>2, <2>3 DEF WriteRequest, Advance
<1>5. ASSUME NEW w \in Workers, WriteFails(w) PROVE TypeOK'
  <2>1. cursor' \in [Workers -> Nat]
    BY <1>5 DEF WriteFails, Advance
  <2>2. results' \in [0 .. total - 1 -> Evaluations \cup {NoResult, Failure}]
    BY <1>5 DEF WriteFails, Record
  <2> QED
    BY <1>5, <2>1, <2>2 DEF WriteFails, Advance, processes
<1>6. ASSUME NEW w \in Workers, SerialiseFails(w) PROVE TypeOK'
  <2>1. cursor' \in [Workers -> Nat]
    BY <1>6 DEF SerialiseFails, Advance
  <2>2. results' \in [0 .. total - 1 -> Evaluations \cup {NoResult, Failure}]
    BY <1>6 DEF SerialiseFails, Record
  <2> QED
    BY <1>6, <2>1, <2>2 DEF SerialiseFails, Advance, processes
<1>7. ASSUME NEW w \in Workers, Flush(w) PROVE TypeOK'
  BY <1>7 DEF Flush, processes
<1>8. ASSUME NEW w \in Workers, ReadResponse(w) PROVE TypeOK'
  <2>1. Head(stdout[w]) \in Responses /\ Tail(stdout[w]) \in Seq(Responses)
    BY <1>8 DEF ReadResponse
  <2>2. Head(stdout[w]).of \in Evaluations
    BY <2>1 DEF Responses
  <2>3. results' \in [0 .. total - 1 -> Evaluations \cup {NoResult, Failure}]
    BY <1>8, <2>2 DEF ReadResponse, Record
  <2>4. stdout' \in [Workers -> Seq(Responses)] /\ nread' \in [Workers -> Nat]
    BY <1>8, <2>1 DEF ReadResponse
  <2> QED
    BY <1>8, <2>3, <2>4 DEF ReadResponse
<1>9. ASSUME NEW w \in Workers, ReadFails(w) PROVE TypeOK'
  <2>1. results' \in [0 .. total - 1 -> Evaluations \cup {NoResult, Failure}]
    BY <1>9 DEF ReadFails, Record
  <2>2. nread' \in [Workers -> Nat]
    BY <1>9 DEF ReadFails
  <2> QED
    BY <1>9, <2>1, <2>2 DEF ReadFails, processes
<1>10. ASSUME NEW w \in Workers, TakeRequest(w) PROVE TypeOK'
  <2>1. Head(stdin[w]) \in Requests /\ Tail(stdin[w]) \in Seq(Requests)
    BY <1>10 DEF TakeRequest
  <2>2. <<Head(stdin[w])>> \in Seq(Requests)
    BY <2>1
  <2> QED
    BY <1>10, <2>1, <2>2 DEF TakeRequest, threads
<1>11. ASSUME NEW w \in Workers, NEW ok \in BOOLEAN, Respond(w, ok) PROVE TypeOK'
  <2>1. held[w][1] \in Requests
    BY <1>11 DEF Respond
  <2>2. [of |-> held[w][1], ok |-> ok] \in Responses /\ held[w][1].idx \in Nat
    BY <2>1 DEF Responses, Requests, Evaluations
  <2>3. Append(stdout[w], [of |-> held[w][1], ok |-> ok]) \in Seq(Responses) /\ <<>> \in Seq(Requests)
    BY <2>2
  <2> QED
    BY <1>11, <2>2, <2>3 DEF Respond, threads
<1>12. ASSUME NEW w \in Workers, Crash(w) PROVE TypeOK'
  BY <1>12 DEF Crash, threads
<1>13. CASE UNCHANGED vars
  BY <1>13 DEF vars
<1> QED
  BY <1>1, <1>2, <1>3, <1>4, <1>5, <1>6, <1>7, <1>8, <1>9, <1>10, <1>11, <1>12, <1>13
  DEF Next, Thread, Worker

(* The state of evaluate_batch and of its workers keeps its shape, whatever *)
(* the number of workers, the batch sizes and the capacities of the pipes.  *)
THEOREM TypeCorrect == Spec => []TypeOK
BY TypeInit, TypeStep, PTL DEF Spec

-----------------------------------------------------------------------------
(* The streams of a worker, position by position: what waits in stdout,    *)
(* then what the process holds, then what waits in stdin belong to the     *)
(* indices that were written and not read yet, in this order. An invariant *)
(* on the results alone is not inductive: the next read depends on what is *)
(* in the pipes.                                                           *)
Fits(b, n, p, out, h, in) ==
  /\ Len(h) <= 1
  /\ n + Len(out) + Len(h) + Len(in) <= Len(p)
  /\ \A k \in 1 .. Len(out) : out[k].of = Evaluation(b, p[n + k])
  /\ Len(h) = 1 => h[1] = Evaluation(b, p[n + Len(out) + 1])
  /\ \A k \in 1 .. Len(in) : in[k] = Evaluation(b, p[n + Len(out) + Len(h) + k])

Flying(out, h, in) == Len(out) + Len(h) + Len(in)

Aligned(w) ==
  /\ Fits(batch, nread[w], pending[w], stdout[w], held[w], stdin[w])
  /\ alive[w] => nread[w] + Flying(stdout[w], held[w], stdin[w]) = Len(pending[w])
  /\ ~ alive[w] => held[w] = <<>> /\ stdin[w] = <<>>
  /\ writing[w] => nread[w] = 0

Quiet ==
  ~ running => \A w \in Workers : stdout[w] = <<>> /\ held[w] = <<>> /\ stdin[w] = <<>>

IInv ==
  /\ TypeOK /\ ResultsBelong /\ Quiet
  /\ \A w \in Workers : Aligned(w)

(* A step that leaves the thread, the pipes and the process of a worker    *)
(* alone leaves its streams aligned.                                       *)
LEMMA AlignedFrame ==
  ASSUME NEW v \in Workers, Aligned(v), batch' = batch,
         nread'[v] = nread[v], pending'[v] = pending[v], writing'[v] = writing[v],
         alive'[v] = alive[v], stdin'[v] = stdin[v], held'[v] = held[v], stdout'[v] = stdout[v]
  PROVE  Aligned(v)'
BY DEF Aligned

LEMMA InvInit == Init => IInv
<1> SUFFICES ASSUME Init PROVE IInv
  OBVIOUS
<1>1. TypeOK
  BY TypeInit
<1>2. ResultsBelong /\ Quiet
  BY DEF Init, ResultsBelong, Quiet
<1>3. ASSUME NEW w \in Workers PROVE Aligned(w)
  BY DEF Init, Aligned, Fits, Flying
<1> QED
  BY <1>1, <1>2, <1>3 DEF IInv

-----------------------------------------------------------------------------
(* What each kind of move does to streams that fit, for any sequences.     *)
LEMMA FitsWrite ==
  ASSUME NEW b, NEW n \in Nat, NEW p \in Seq(Nat), NEW c \in Nat,
         NEW out \in Seq(Responses), NEW h \in Seq(Requests), NEW in \in Seq(Requests),
         Evaluation(b, c) \in Requests,
         Fits(b, n, p, out, h, in), n + Flying(out, h, in) = Len(p)
  PROVE  /\ Fits(b, n, Append(p, c), out, h, Append(in, Evaluation(b, c)))
         /\ n + Flying(out, h, Append(in, Evaluation(b, c))) = Len(Append(p, c))
<1> DEFINE q == Append(p, c)
           r == Append(in, Evaluation(b, c))
<1>1. /\ Len(q) = Len(p) + 1 /\ q[Len(p) + 1] = c
      /\ \A k \in 1 .. Len(p) : q[k] = p[k]
  OBVIOUS
<1>2. /\ Len(r) = Len(in) + 1 /\ r[Len(in) + 1] = Evaluation(b, c)
      /\ \A k \in 1 .. Len(in) : r[k] = in[k]
  OBVIOUS
<1>3. /\ Len(p) \in Nat /\ Len(out) \in Nat /\ Len(h) \in Nat /\ Len(in) \in Nat
      /\ n + Len(out) + Len(h) + Len(in) = Len(p)
      /\ n + Len(out) + Len(h) + (Len(in) + 1) = Len(p) + 1
      /\ n + (Len(out) + Len(h) + (Len(in) + 1)) = Len(p) + 1
  <2>1. Len(p) \in Nat /\ Len(out) \in Nat /\ Len(h) \in Nat /\ Len(in) \in Nat
    OBVIOUS
  <2>2. n + (Len(out) + Len(h) + Len(in)) = Len(p)
    BY DEF Flying
  <2>3. PICK x \in Nat, y \in Nat, z \in Nat, l \in Nat :
          x = Len(out) /\ y = Len(h) /\ z = Len(in) /\ l = Len(p)
    BY <2>1
  <2>4. n + (x + y + z) = l
    BY <2>2, <2>3
  <2>5. n + x + y + z = l /\ n + x + y + (z + 1) = l + 1 /\ n + (x + y + (z + 1)) = l + 1
    BY <2>4
  <2> QED
    BY <2>1, <2>3, <2>5
<1>4. \A k \in 1 .. Len(out) : out[k].of = Evaluation(b, q[n + k])
  <2> SUFFICES ASSUME NEW k \in 1 .. Len(out) PROVE out[k].of = Evaluation(b, q[n + k])
    OBVIOUS
  <2>1. n + k \in 1 .. Len(p)
    BY <1>3 DEF Fits
  <2> QED
    BY <1>1, <2>1 DEF Fits
<1>5. Len(h) = 1 => h[1] = Evaluation(b, q[n + Len(out) + 1])
  <2> SUFFICES ASSUME Len(h) = 1 PROVE h[1] = Evaluation(b, q[n + Len(out) + 1])
    OBVIOUS
  <2>1. n + Len(out) + 1 + Len(in) <= Len(p)
    BY <1>3 DEF Fits
  <2>2. n + Len(out) + 1 \in 1 .. Len(p)
    BY <1>3, <2>1
  <2> QED
    BY <1>1, <2>2 DEF Fits
<1>6. \A k \in 1 .. Len(in) : r[k] = Evaluation(b, q[n + Len(out) + Len(h) + k])
  <2> SUFFICES ASSUME NEW k \in 1 .. Len(in)
               PROVE  r[k] = Evaluation(b, q[n + Len(out) + Len(h) + k])
    OBVIOUS
  <2>1. n + Len(out) + Len(h) + k \in 1 .. Len(p)
    BY <1>3
  <2> QED
    BY <1>1, <1>2, <2>1 DEF Fits
<1>7. r[Len(in) + 1] = Evaluation(b, q[n + Len(out) + Len(h) + (Len(in) + 1)])
  BY <1>1, <1>2, <1>3, Zenon
<1>8. \A k \in 1 .. Len(r) : k \in 1 .. Len(in) \/ k = Len(in) + 1
  BY <1>2, <1>3
<1>9. \A k \in 1 .. Len(r) : r[k] = Evaluation(b, q[n + Len(out) + Len(h) + k])
  BY <1>6, <1>7, <1>8, Zenon
<1>10. Len(h) <= 1 /\ n + Len(out) + Len(h) + Len(r) <= Len(q)
  BY <1>1, <1>2, <1>3 DEF Fits
<1> HIDE DEF q, r
<1>11. Fits(b, n, q, out, h, r)
  BY <1>4, <1>5, <1>9, <1>10, Zenon DEF Fits
<1>12. n + Flying(out, h, r) = Len(q)
  BY <1>1, <1>2, <1>3, Zenon DEF Flying
<1> QED
  BY <1>11, <1>12 DEF q, r

LEMMA FitsRead ==
  ASSUME NEW b, NEW n \in Nat, NEW p \in Seq(Nat),
         NEW out \in Seq(Responses), NEW h \in Seq(Requests), NEW in \in Seq(Requests),
         Fits(b, n, p, out, h, in), out # <<>>
  PROVE  /\ Fits(b, n + 1, p, Tail(out), h, in)
         /\ (n + 1) + Flying(Tail(out), h, in) = n + Flying(out, h, in)
<1> DEFINE t == Tail(out)
<1>1. /\ Len(out) = Len(t) + 1
      /\ \A k \in 1 .. Len(t) : t[k] = out[k + 1]
  OBVIOUS
<1>2. Len(p) \in Nat /\ Len(out) \in Nat /\ Len(t) \in Nat /\ Len(h) \in Nat /\ Len(in) \in Nat
  OBVIOUS
<1> HIDE DEF t
<1>3. \A k \in 1 .. Len(t) : t[k].of = Evaluation(b, p[(n + 1) + k])
  <2> SUFFICES ASSUME NEW k \in 1 .. Len(t) PROVE t[k].of = Evaluation(b, p[(n + 1) + k])
    OBVIOUS
  <2>1. k + 1 \in 1 .. Len(out) /\ (n + 1) + k = n + (k + 1)
    BY <1>1, <1>2
  <2>2. out[k + 1].of = Evaluation(b, p[n + (k + 1)])
    BY <2>1 DEF Fits
  <2> QED
    BY <1>1, <2>1, <2>2, Zenon
<1>4. (n + 1) + Len(t) = n + Len(out)
  BY <1>1, <1>2
<1>5. Fits(b, n + 1, p, t, h, in)
  BY <1>3, <1>4, Zenon DEF Fits
<1>6. (n + 1) + Flying(t, h, in) = n + Flying(out, h, in)
  BY <1>1, <1>2 DEF Flying
<1> QED
  BY <1>5, <1>6 DEF t

LEMMA FitsHead ==
  ASSUME NEW b, NEW n \in Nat, NEW p \in Seq(Nat),
         NEW out \in Seq(Responses), NEW h \in Seq(Requests), NEW in \in Seq(Requests),
         Fits(b, n, p, out, h, in), out # <<>>
  PROVE  Head(out).of = Evaluation(b, p[n + 1])
<1>1. Head(out) = out[1] /\ 1 \in 1 .. Len(out)
  OBVIOUS
<1> QED
  BY <1>1 DEF Fits

LEMMA FitsTake ==
  ASSUME NEW b, NEW n \in Nat, NEW p \in Seq(Nat),
         NEW out \in Seq(Responses), NEW in \in Seq(Requests),
         Fits(b, n, p, out, <<>>, in), in # <<>>
  PROVE  /\ Fits(b, n, p, out, <<Head(in)>>, Tail(in))
         /\ Flying(out, <<Head(in)>>, Tail(in)) = Flying(out, <<>>, in)
<1> DEFINE t == Tail(in)
           h == <<Head(in)>>
<1>1. /\ Len(in) = Len(t) + 1
      /\ \A k \in 1 .. Len(t) : t[k] = in[k + 1]
      /\ h[1] = in[1] /\ Len(h) = 1 /\ Len(<<>>) = 0
  OBVIOUS
<1>2. Len(p) \in Nat /\ Len(out) \in Nat /\ Len(t) \in Nat /\ Len(in) \in Nat
  OBVIOUS
<1> HIDE DEF t, h
<1>3. \A k \in 1 .. Len(t) : t[k] = Evaluation(b, p[n + Len(out) + 1 + k])
  <2> SUFFICES ASSUME NEW k \in 1 .. Len(t)
               PROVE  t[k] = Evaluation(b, p[n + Len(out) + 1 + k])
    OBVIOUS
  <2>1. k + 1 \in 1 .. Len(in) /\ n + Len(out) + 1 + k = n + Len(out) + 0 + (k + 1)
    BY <1>1, <1>2
  <2>2. in[k + 1] = Evaluation(b, p[n + Len(out) + 0 + (k + 1)])
    BY <1>1, <2>1 DEF Fits
  <2> QED
    BY <1>1, <2>1, <2>2, Zenon
<1>4. h[1] = Evaluation(b, p[n + Len(out) + 1])
  <2>1. 1 \in 1 .. Len(in) /\ n + Len(out) + 0 + 1 = n + Len(out) + 1
    BY <1>1, <1>2
  <2>2. in[1] = Evaluation(b, p[n + Len(out) + 0 + 1])
    BY <1>1, <2>1 DEF Fits
  <2> QED
    BY <1>1, <2>1, <2>2, Zenon
<1>5. n + Len(out) + 1 + Len(t) <= Len(p)
  <2>1. n + Len(out) + 0 + Len(in) <= Len(p)
    BY <1>1 DEF Fits
  <2> QED
    BY <1>1, <1>2, <2>1
<1>6. Fits(b, n, p, out, h, t)
  BY <1>1, <1>3, <1>4, <1>5 DEF Fits
<1>7. Flying(out, h, t) = Flying(out, <<>>, in)
  BY <1>1, <1>2 DEF Flying
<1> QED
  BY <1>6, <1>7 DEF t, h

LEMMA FitsRespond ==
  ASSUME NEW b, NEW n \in Nat, NEW p \in Seq(Nat), NEW e \in Responses,
         NEW out \in Seq(Responses), NEW h \in Seq(Requests), NEW in \in Seq(Requests),
         Fits(b, n, p, out, h, in), h # <<>>, e.of = h[1]
  PROVE  /\ Fits(b, n, p, Append(out, e), <<>>, in)
         /\ Flying(Append(out, e), <<>>, in) = Flying(out, h, in)
<1> DEFINE r == Append(out, e)
<1>1. Len(h) = 1 /\ Len(<<>>) = 0
  <2>1. Len(h) \in Nat /\ Len(h) # 0 /\ Len(<<>>) = 0
    OBVIOUS
  <2>2. Len(h) <= 1
    BY DEF Fits
  <2> QED
    <3>1. \A k \in Nat : k # 0 /\ k <= 1 => k = 1
      OBVIOUS
    <3> QED
      BY <2>1, <2>2, <3>1
<1>4. /\ Len(r) = Len(out) + 1
      /\ r[Len(out) + 1].of = h[1]
      /\ \A k \in 1 .. Len(out) : r[k] = out[k]
  OBVIOUS
<1>5. Len(p) \in Nat /\ Len(out) \in Nat /\ Len(in) \in Nat
  OBVIOUS
<1> HIDE DEF r
<1>6. \A k \in 1 .. Len(out) : r[k].of = Evaluation(b, p[n + k])
  BY <1>4 DEF Fits
<1>7. r[Len(out) + 1].of = Evaluation(b, p[n + (Len(out) + 1)])
  <2>1. n + (Len(out) + 1) = n + Len(out) + 1
    BY <1>5
  <2>2. h[1] = Evaluation(b, p[n + Len(out) + 1])
    BY <1>1 DEF Fits
  <2> QED
    BY <1>4, <2>1, <2>2, Zenon
<1>8. \A k \in 1 .. Len(r) : k \in 1 .. Len(out) \/ k = Len(out) + 1
  BY <1>4, <1>5
<1>9. \A k \in 1 .. Len(r) : r[k].of = Evaluation(b, p[n + k])
  BY <1>6, <1>7, <1>8, Zenon
<1>10. n + Len(r) + 0 = n + Len(out) + 1
  BY <1>4, <1>5
<1>11. \A k \in 1 .. Len(in) : in[k] = Evaluation(b, p[n + Len(r) + 0 + k])
  BY <1>1, <1>10 DEF Fits
<1>12. n + Len(r) + 0 + Len(in) <= Len(p)
  BY <1>1, <1>10 DEF Fits
<1>13. Fits(b, n, p, r, <<>>, in)
  BY <1>1, <1>9, <1>11, <1>12 DEF Fits
<1>14. Flying(r, <<>>, in) = Flying(out, h, in)
  BY <1>1, <1>4, <1>5 DEF Flying
<1> QED
  BY <1>13, <1>14 DEF r

LEMMA FitsCrash ==
  ASSUME NEW b, NEW n \in Nat, NEW p \in Seq(Nat),
         NEW out \in Seq(Responses), NEW h \in Seq(Requests), NEW in \in Seq(Requests),
         Fits(b, n, p, out, h, in)
  PROVE  Fits(b, n, p, out, <<>>, <<>>)
<1>1. Len(p) \in Nat /\ Len(out) \in Nat /\ Len(h) \in Nat /\ Len(in) \in Nat /\ Len(<<>>) = 0
  OBVIOUS
<1>2. n + Len(out) + 0 + 0 <= Len(p)
  BY <1>1 DEF Fits
<1> QED
  BY <1>1, <1>2 DEF Fits

-----------------------------------------------------------------------------
(* Each action that moves a message of w keeps the streams of w aligned.   *)
LEMMA AlignedWrite ==
  ASSUME TypeOK, NEW w \in Workers, Aligned(w), WriteRequest(w)
  PROVE  Aligned(w)'
<1> DEFINE e == Evaluation(batch, cursor[w])
<1>1. /\ pending'[w] = Append(pending[w], cursor[w]) /\ stdin'[w] = Append(stdin[w], e)
      /\ UNCHANGED <<batch, nread, writing, alive, held, stdout>>
      /\ alive[w] /\ writing[w]
  BY DEF WriteRequest, Advance, AtWrite, TypeOK
<1>2. /\ pending[w] \in Seq(Nat) /\ cursor[w] \in Nat /\ nread[w] \in Nat
      /\ stdin[w] \in Seq(Requests) /\ held[w] \in Seq(Requests) /\ stdout[w] \in Seq(Responses)
      /\ e \in Requests
  BY DEF TypeOK, Evaluation, Requests, Evaluations
<1>3. /\ Fits(batch, nread[w], pending[w], stdout[w], held[w], stdin[w])
      /\ nread[w] + Flying(stdout[w], held[w], stdin[w]) = Len(pending[w]) /\ nread[w] = 0
  BY <1>1 DEF Aligned
<1>4. /\ Fits(batch, nread[w], pending'[w], stdout[w], held[w], stdin'[w])
      /\ nread[w] + Flying(stdout[w], held[w], stdin'[w]) = Len(pending'[w])
  <2>1. PICK n \in Nat, p \in Seq(Nat), c \in Nat,
               out \in Seq(Responses), h \in Seq(Requests), in \in Seq(Requests) :
          /\ n = nread[w] /\ p = pending[w] /\ c = cursor[w]
          /\ out = stdout[w] /\ h = held[w] /\ in = stdin[w]
    BY <1>2
  <2>2. Fits(batch, n, p, out, h, in) /\ n + Flying(out, h, in) = Len(p) /\ Evaluation(batch, c) \in Requests
    BY <1>2, <1>3, <2>1
  <2>3. /\ Fits(batch, n, Append(p, c), out, h, Append(in, Evaluation(batch, c)))
        /\ n + Flying(out, h, Append(in, Evaluation(batch, c))) = Len(Append(p, c))
    BY <2>2, FitsWrite
  <2> QED
    BY <1>1, <2>1, <2>3
<1>5. Fits(batch, nread[w], pending[w], stdout[w], held[w], stdin[w])'
  BY <1>1, <1>4
<1>6. (nread[w] + Flying(stdout[w], held[w], stdin[w]) = Len(pending[w]))'
  BY <1>1, <1>4
<1>7. alive'[w] /\ nread'[w] = 0
  BY <1>1, <1>3
<1> QED
  BY <1>5, <1>6, <1>7 DEF Aligned

LEMMA AlignedRead ==
  ASSUME TypeOK, NEW w \in Workers, Aligned(w), ReadResponse(w)
  PROVE  /\ Aligned(w)'
         /\ Head(stdout[w]).of = Evaluation(batch, pending[w][nread[w] + 1])
<1>1. /\ stdout'[w] = Tail(stdout[w]) /\ nread'[w] = nread[w] + 1
      /\ UNCHANGED <<batch, pending, writing, alive, held, stdin>>
      /\ ~ writing[w] /\ stdout[w] # <<>>
  BY DEF ReadResponse, AtRead, TypeOK
<1>2. /\ pending[w] \in Seq(Nat) /\ nread[w] \in Nat
      /\ stdin[w] \in Seq(Requests) /\ held[w] \in Seq(Requests) /\ stdout[w] \in Seq(Responses)
  BY DEF TypeOK
<1>3. /\ Fits(batch, nread[w], pending[w], stdout[w], held[w], stdin[w])
      /\ alive[w] => nread[w] + Flying(stdout[w], held[w], stdin[w]) = Len(pending[w])
  BY DEF Aligned
<1>4. /\ Fits(batch, nread[w] + 1, pending[w], Tail(stdout[w]), held[w], stdin[w])
      /\ (nread[w] + 1) + Flying(Tail(stdout[w]), held[w], stdin[w])
           = nread[w] + Flying(stdout[w], held[w], stdin[w])
      /\ Head(stdout[w]).of = Evaluation(batch, pending[w][nread[w] + 1])
  <2>1. PICK n \in Nat, p \in Seq(Nat),
               out \in Seq(Responses), h \in Seq(Requests), in \in Seq(Requests) :
          /\ n = nread[w] /\ p = pending[w]
          /\ out = stdout[w] /\ h = held[w] /\ in = stdin[w]
    BY <1>2
  <2>2. Fits(batch, n, p, out, h, in) /\ out # <<>>
    BY <1>1, <1>3, <2>1
  <2>3. /\ Fits(batch, n + 1, p, Tail(out), h, in)
        /\ (n + 1) + Flying(Tail(out), h, in) = n + Flying(out, h, in)
    BY <2>2, FitsRead
  <2>4. Head(out).of = Evaluation(batch, p[n + 1])
    BY <2>2, FitsHead
  <2> QED
    BY <2>1, <2>3, <2>4
<1> QED
  BY <1>1, <1>3, <1>4 DEF Aligned

(* At the end of a dead worker's stream nothing of it is left to match.    *)
LEMMA AlignedReadFails ==
  ASSUME TypeOK, NEW w \in Workers, Aligned(w), ReadFails(w)
  PROVE  Aligned(w)'
<1>1. /\ nread'[w] = nread[w] + 1
      /\ UNCHANGED <<batch, pending, writing, alive, held, stdin, stdout>>
      /\ ~ writing[w] /\ ~ alive[w] /\ stdout[w] = <<>> /\ nread[w] < Len(pending[w])
      /\ held[w] = <<>> /\ stdin[w] = <<>>
  BY DEF ReadFails, AtRead, TypeOK, processes, Aligned
<1>2. nread[w] \in Nat /\ Len(pending[w]) \in Nat
  BY DEF TypeOK
<1>3. nread'[w] + 0 + 0 + 0 <= Len(pending[w]) /\ Len(<<>>) = 0
  BY <1>1, <1>2
<1>4. Fits(batch, nread'[w], pending[w], <<>>, <<>>, <<>>)
  BY <1>3 DEF Fits
<1>5. Fits(batch, nread[w], pending[w], stdout[w], held[w], stdin[w])'
  BY <1>1, <1>4
<1> QED
  BY <1>1, <1>5 DEF Aligned

LEMMA AlignedTake ==
  ASSUME TypeOK, NEW w \in Workers, Aligned(w), TakeRequest(w)
  PROVE  Aligned(w)'
<1>1. /\ stdin'[w] = Tail(stdin[w]) /\ held'[w] = <<Head(stdin[w])>>
      /\ UNCHANGED <<batch, pending, nread, writing, alive, stdout>>
      /\ held[w] = <<>> /\ stdin[w] # <<>> /\ alive[w]
  BY DEF TakeRequest, threads, TypeOK
<1>2. /\ pending[w] \in Seq(Nat) /\ nread[w] \in Nat
      /\ stdin[w] \in Seq(Requests) /\ stdout[w] \in Seq(Responses)
  BY DEF TypeOK
<1>3. Fits(batch, nread[w], pending[w], stdout[w], <<>>, stdin[w])
  BY <1>1 DEF Aligned
<1>4. /\ Fits(batch, nread[w], pending[w], stdout[w], <<Head(stdin[w])>>, Tail(stdin[w]))
      /\ Flying(stdout[w], <<Head(stdin[w])>>, Tail(stdin[w])) = Flying(stdout[w], <<>>, stdin[w])
  BY <1>1, <1>2, <1>3, FitsTake
<1> QED
  BY <1>1, <1>4 DEF Aligned

LEMMA AlignedRespond ==
  ASSUME TypeOK, NEW w \in Workers, Aligned(w), NEW ok \in BOOLEAN, Respond(w, ok)
  PROVE  Aligned(w)'
<1> DEFINE e == [of |-> held[w][1], ok |-> ok]
<1>1. /\ stdout'[w] = Append(stdout[w], e) /\ held'[w] = <<>>
      /\ UNCHANGED <<batch, pending, nread, writing, alive, stdin>>
      /\ held[w] # <<>> /\ alive[w]
  BY DEF Respond, threads, TypeOK
<1>2. /\ pending[w] \in Seq(Nat) /\ nread[w] \in Nat
      /\ stdin[w] \in Seq(Requests) /\ held[w] \in Seq(Requests) /\ stdout[w] \in Seq(Responses)
  BY DEF TypeOK
<1>e. e \in Responses /\ e.of = held[w][1]
  <2>1. held[w] \in Seq(Requests) /\ held[w] # <<>>
    BY <1>1, <1>2
  <2>2. held[w][1] \in Requests
    BY <2>1
  <2> QED
    BY <2>2 DEF Responses, Requests
<1> HIDE DEF e
<1>3. Fits(batch, nread[w], pending[w], stdout[w], held[w], stdin[w])
  BY DEF Aligned
<1>4. /\ Fits(batch, nread[w], pending[w], Append(stdout[w], e), <<>>, stdin[w])
      /\ Flying(Append(stdout[w], e), <<>>, stdin[w]) = Flying(stdout[w], held[w], stdin[w])
  <2>1. PICK n \in Nat, p \in Seq(Nat), r \in Responses,
               out \in Seq(Responses), h \in Seq(Requests), in \in Seq(Requests) :
          /\ n = nread[w] /\ p = pending[w] /\ r = e
          /\ out = stdout[w] /\ h = held[w] /\ in = stdin[w]
    BY <1>2, <1>e
  <2>2. Fits(batch, n, p, out, h, in) /\ h # <<>> /\ r.of = h[1]
    BY <1>1, <1>2, <1>3, <1>e, <2>1
  <2>3. /\ Fits(batch, n, p, Append(out, r), <<>>, in)
        /\ Flying(Append(out, r), <<>>, in) = Flying(out, h, in)
    BY <2>2, FitsRespond
  <2> QED
    BY <2>1, <2>3
<1> QED
  BY <1>1, <1>4 DEF Aligned

(* A worker that dies takes what it did not answer with it.                *)
LEMMA AlignedDead ==
  ASSUME TypeOK, NEW w \in Workers, Aligned(w), UNCHANGED <<batch, nread, pending, writing, stdout>>,
         alive'[w] = FALSE, held'[w] = <<>>, stdin'[w] = <<>>
  PROVE  Aligned(w)'
<1>1. /\ pending[w] \in Seq(Nat) /\ nread[w] \in Nat
      /\ stdin[w] \in Seq(Requests) /\ held[w] \in Seq(Requests) /\ stdout[w] \in Seq(Responses)
  BY DEF TypeOK
<1>2. Fits(batch, nread[w], pending[w], stdout[w], <<>>, <<>>)
  <2>1. PICK n \in Nat, p \in Seq(Nat),
               out \in Seq(Responses), h \in Seq(Requests), in \in Seq(Requests) :
          /\ n = nread[w] /\ p = pending[w]
          /\ out = stdout[w] /\ h = held[w] /\ in = stdin[w]
    BY <1>1
  <2>2. Fits(batch, n, p, out, h, in)
    BY <2>1 DEF Aligned
  <2> QED
    BY <2>1, <2>2, FitsCrash
<1>3. Fits(batch, nread[w], pending[w], stdout[w], held[w], stdin[w])'
  BY <1>2
<1> QED
  BY <1>3 DEF Aligned

(* With all that was written read back, nothing is left in the streams.    *)
LEMMA AllRead ==
  ASSUME TypeOK, NEW w \in Workers, Aligned(w), ThreadDone(w)
  PROVE  stdout[w] = <<>> /\ held[w] = <<>> /\ stdin[w] = <<>>
<1>1. PICK n \in Nat, p \in Seq(Nat),
             out \in Seq(Responses), h \in Seq(Requests), in \in Seq(Requests) :
        /\ n = nread[w] /\ p = pending[w]
        /\ out = stdout[w] /\ h = held[w] /\ in = stdin[w]
  BY DEF TypeOK
<1>2. n = Len(p) /\ n + Len(out) + Len(h) + Len(in) <= Len(p)
  BY <1>1 DEF Aligned, Fits, ThreadDone
<1>3. Len(out) = 0 /\ Len(h) = 0 /\ Len(in) = 0
  <2>1. PICK a \in Nat, b \in Nat, c \in Nat : a = Len(out) /\ b = Len(h) /\ c = Len(in)
    OBVIOUS
  <2>2. n + a + b + c <= n
    BY <1>2, <2>1
  <2>3. a = 0 /\ b = 0 /\ c = 0
    BY <2>2
  <2> QED
    BY <2>1, <2>3
<1> QED
  BY <1>1, <1>3

(* Whatever a thread records at an index is of that index.                 *)
LEMMA RecordBelongs ==
  ASSUME TypeOK, ResultsBelong, batch' = batch,
         NEW i, NEW r \in {Failure, Evaluation(batch, i)}, Record(i, r)
  PROVE  ResultsBelong'
BY DEF TypeOK, ResultsBelong, Record

LEMMA BelongStep ==
  ASSUME IInv, [Next]_vars PROVE ResultsBelong'
<1> USE DEF IInv
<1>1. ASSUME NEW n \in BatchSizes, BeginBatch(n) PROVE ResultsBelong'
  BY <1>1 DEF BeginBatch, ResultsBelong
<1>2. CASE EndBatch
  BY <1>2 DEF EndBatch, ResultsBelong
<1>3. ASSUME NEW w \in Workers, WriteFails(w) \/ SerialiseFails(w) PROVE ResultsBelong'
  BY <1>3, RecordBelongs DEF WriteFails, SerialiseFails, Advance
<1>4. ASSUME NEW w \in Workers, ReadResponse(w) PROVE ResultsBelong'
  <2> DEFINE i == pending[w][nread[w] + 1]
             r == IF Head(stdout[w]).ok THEN Head(stdout[w]).of ELSE Failure
  <2>1. Head(stdout[w]).of = Evaluation(batch, i)
    BY <1>4, AlignedRead
  <2>2. r \in {Failure, Evaluation(batch, i)} /\ Record(i, r) /\ batch' = batch
    BY <1>4, <2>1 DEF ReadResponse
  <2> HIDE DEF i, r
  <2> QED
    BY <2>2, RecordBelongs
<1>5. ASSUME NEW w \in Workers, ReadFails(w) PROVE ResultsBelong'
  BY <1>5, RecordBelongs DEF ReadFails
<1>6. CASE UNCHANGED <<results, batch>>
  BY <1>6 DEF ResultsBelong
<1>7. ASSUME NEW w \in Workers,
             WriteRequest(w) \/ Flush(w) \/ TakeRequest(w) \/ (\E ok \in BOOLEAN : Respond(w, ok)) \/ Crash(w)
      PROVE  UNCHANGED <<results, batch>>
  BY <1>7 DEF WriteRequest, Advance, Flush, TakeRequest, Respond, Crash
<1>8. Shutdown \/ UNCHANGED vars => UNCHANGED <<results, batch>>
  BY DEF Shutdown, vars
<1> QED
  BY <1>1, <1>2, <1>3, <1>4, <1>5, <1>6, <1>7, <1>8 DEF Next, Thread, Worker

LEMMA AlignedStep ==
  ASSUME IInv, [Next]_vars, NEW v \in Workers PROVE Aligned(v)'
<1> USE DEF IInv
<1>1. ASSUME NEW n \in BatchSizes, BeginBatch(n) PROVE Aligned(v)'
  <2>1. /\ pending'[v] = <<>> /\ nread'[v] = 0
        /\ stdout'[v] = <<>> /\ held'[v] = <<>> /\ stdin'[v] = <<>>
    BY <1>1 DEF BeginBatch, Quiet, processes
  <2> QED
    BY <2>1 DEF Aligned, Fits, Flying
<1>2. CASE EndBatch \/ UNCHANGED vars
  BY <1>2, AlignedFrame DEF EndBatch, vars, threads, processes
<1>3. CASE Shutdown
  BY <1>3, AlignedDead DEF Shutdown, threads
<1>4. ASSUME NEW w \in Workers, WriteRequest(w) PROVE Aligned(v)'
  <2>1. CASE v = w
    BY <1>4, <2>1, AlignedWrite
  <2>2. CASE v # w
    BY <1>4, <2>2, AlignedFrame DEF WriteRequest, Advance, TypeOK
  <2> QED
    BY <2>1, <2>2
<1>5. ASSUME NEW w \in Workers, WriteFails(w) \/ SerialiseFails(w) PROVE Aligned(v)'
  BY <1>5, AlignedFrame DEF WriteFails, SerialiseFails, Advance, processes
<1>6. ASSUME NEW w \in Workers, Flush(w) PROVE Aligned(v)'
  <2>1. /\ UNCHANGED <<batch, pending, nread, alive, stdin, held, stdout>>
        /\ writing'[v] => writing[v]
    BY <1>6 DEF Flush, processes, TypeOK
  <2> QED
    BY <2>1 DEF Aligned
<1>7. ASSUME NEW w \in Workers, ReadResponse(w) PROVE Aligned(v)'
  <2>1. CASE v = w
    BY <1>7, <2>1, AlignedRead
  <2>2. CASE v # w
    BY <1>7, <2>2, AlignedFrame DEF ReadResponse, TypeOK
  <2> QED
    BY <2>1, <2>2
<1>8. ASSUME NEW w \in Workers, ReadFails(w) PROVE Aligned(v)'
  <2>1. CASE v = w
    BY <1>8, <2>1, AlignedReadFails
  <2>2. CASE v # w
    BY <1>8, <2>2, AlignedFrame DEF ReadFails, processes, TypeOK
  <2> QED
    BY <2>1, <2>2
<1>9. ASSUME NEW w \in Workers, TakeRequest(w) PROVE Aligned(v)'
  <2>1. CASE v = w
    BY <1>9, <2>1, AlignedTake
  <2>2. CASE v # w
    BY <1>9, <2>2, AlignedFrame DEF TakeRequest, threads, TypeOK
  <2> QED
    BY <2>1, <2>2
<1>10. ASSUME NEW w \in Workers, NEW ok \in BOOLEAN, Respond(w, ok) PROVE Aligned(v)'
  <2>1. CASE v = w
    BY <1>10, <2>1, AlignedRespond
  <2>2. CASE v # w
    BY <1>10, <2>2, AlignedFrame DEF Respond, threads, TypeOK
  <2> QED
    BY <2>1, <2>2
<1>11. ASSUME NEW w \in Workers, Crash(w) PROVE Aligned(v)'
  <2>1. CASE v = w
    BY <1>11, <2>1, AlignedDead DEF Crash, threads, TypeOK
  <2>2. CASE v # w
    BY <1>11, <2>2, AlignedFrame DEF Crash, threads, TypeOK
  <2> QED
    BY <2>1, <2>2
<1> QED
  BY <1>1, <1>2, <1>3, <1>4, <1>5, <1>6, <1>7, <1>8, <1>9, <1>10, <1>11 DEF Next, Thread, Worker

LEMMA QuietStep ==
  ASSUME IInv, [Next]_vars PROVE Quiet'
<1> USE DEF IInv
<1>1. CASE EndBatch
  BY <1>1, AllRead DEF EndBatch, Quiet, processes
<1>2. CASE Shutdown
  BY <1>2 DEF Shutdown, Quiet
<1>3. CASE \E n \in BatchSizes : BeginBatch(n)
  BY <1>3 DEF BeginBatch, Quiet
<1>4. ASSUME NEW w \in Workers, Thread(w) \/ SerialiseFails(w) PROVE running'
  BY <1>4 DEF Thread, WriteRequest, WriteFails, SerialiseFails, Flush, ReadResponse, ReadFails,
              AtWrite, AtRead, Advance
<1>5. ASSUME NEW w \in Workers, Worker(w) PROVE running /\ running' = running
  <2>1. held[w] # <<>> \/ stdin[w] # <<>>
    BY <1>5 DEF Worker, TakeRequest, Respond
  <2> QED
    BY <1>5, <2>1 DEF Quiet, Worker, TakeRequest, Respond
<1>6. ASSUME NEW w \in Workers, Crash(w) PROVE Quiet'
  BY <1>6 DEF Crash, Quiet, TypeOK
<1>7. CASE UNCHANGED vars
  BY <1>7 DEF vars, Quiet
<1> QED
  BY <1>1, <1>2, <1>3, <1>4, <1>5, <1>6, <1>7 DEF Next, Quiet

-----------------------------------------------------------------------------
LEMMA InvStep == IInv /\ [Next]_vars => IInv'
<1> SUFFICES ASSUME IInv, [Next]_vars PROVE IInv'
  OBVIOUS
<1>1. TypeOK'
  BY TypeStep DEF IInv
<1>2. ResultsBelong' /\ Quiet'
  BY BelongStep, QuietStep
<1>3. \A w \in Workers : Aligned(w)'
  BY AlignedStep
<1> QED
  BY <1>1, <1>2, <1>3 DEF IInv

(* The inductive invariant: in every reachable state the streams of every   *)
(* worker are aligned with what its thread has still to read, the results   *)
(* belong to their chromosomes, and a finished batch leaves nothing behind. *)
THEOREM Invariance == Spec => []IInv
BY InvInit, InvStep, PTL DEF Spec

(* evaluate_batch never returns the fitness of one chromosome as that of   *)
(* another, nor that of an earlier batch.                                  *)
THEOREM ResultsAreTheirOwn == Spec => []ResultsBelong
<1>1. IInv => ResultsBelong
  BY DEF IInv
<1> QED
  BY <1>1, Invariance, PTL

(* When evaluate_batch returns, every pipe is empty and no worker is busy: *)
(* no response is left behind for a request of a later batch.              *)
THEOREM NothingLeftBehind == Spec => []QuietBetweenBatches
<1>1. ASSUME TypeOK, Quiet PROVE QuietBetweenBatches
  <2> SUFFICES ASSUME ~ running, NEW w \in Workers PROVE InFlight(w) = <<>>
    BY DEF QuietBetweenBatches
  <2>1. stdout[w] = <<>> /\ held[w] = <<>> /\ stdin[w] = <<>>
    BY <1>1 DEF Quiet
  <2>2. [k \in DOMAIN stdout[w] |-> stdout[w][k].of] = <<>>
    BY <2>1
  <2>3. <<>> \o <<>> = <<>>
    OBVIOUS
  <2> QED
    BY <2>1, <2>2, <2>3 DEF InFlight
<1>2. IInv => QuietBetweenBatches
  BY <1>1 DEF IInv
<1> QED
  BY <1>2, Invariance, PTL
=============================================================================
