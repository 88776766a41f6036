------------------------- MODULE ClassifierTraining --------------------------
(***************************************************************************)
(* The training of the language classifier                                 *)
(* (pkg/linguist/data/generate_classifier.go): a balancer hands the sample *)
(* files to workers, each with a channel of its own and a count of pending *)
(* requests, taking the least loaded from a heap; a receiver collects the  *)
(* tokens, and main waits for it.                                          *)
(*                                                                         *)
(* A worker's index is the one that it was made with: nothing sets it when *)
(* the heap moves the worker, so that completed removes whoever is there   *)
(* and pushes the worker a second time.                                    *)
(***************************************************************************)
EXTENDS Integers, Sequences, FiniteSets, SequencesExt

CONSTANTS
  Samples,    \* the number of sample files
  WorkerCount \* GOMAXPROCS * 4 in the code

ASSUME TrainingAssumption == Samples \in Nat \ {0} /\ WorkerCount \in Nat \ {0}

Workers == 0 .. WorkerCount - 1   \* a worker is named by its index
Jobs    == 1 .. Samples

VARIABLES
  queued,      \* the samples that main has handed to the balancer
  balancer,    \* where the balancer is, and whom it is sending which job
  pool,        \* the heap of workers, a sequence
  pending,     \* the balancer's count for each worker
  requests,    \* the channel of each worker
  worker,      \* what each worker does: "idle", a job and its stage
  collected,   \* the samples whose tokens the receiver has
  mpc          \* main: "sending", "waiting", "trained" or "panicked"

trainingVars == <<queued, balancer, pool, pending, requests, worker, collected, mpc>>

Idle == [stage |-> "idle", job |-> 0]
Balancer(at) == [at |-> at, to |-> 0, job |-> 0]

InitTraining ==
  /\ queued = 0 /\ balancer = Balancer("select") /\ collected = {} /\ mpc = "sending"
  /\ pool = [i \in 1 .. WorkerCount |-> i - 1]
  /\ pending = [w \in Workers |-> 0]
  /\ requests = [w \in Workers |-> <<>>]
  /\ worker = [w \in Workers |-> Idle]

-----------------------------------------------------------------------------
(* container/heap over pool, ordered by pending.                           *)

Swap(p, i, j) == [p EXCEPT ![i] = p[j], ![j] = p[i]]

RECURSIVE Up(_, _, _)
Up(p, count, j) ==
  LET parent == j \div 2
  IN  IF j = 1 \/ count[p[j]] >= count[p[parent]] THEN p ELSE Up(Swap(p, parent, j), count, parent)

\* Down from i in the first n elements of p.
RECURSIVE Down(_, _, _, _)
Down(p, count, i, n) ==
  LET left  == 2 * i
      child == IF left + 1 <= n /\ count[p[left + 1]] < count[p[left]] THEN left + 1 ELSE left
  IN  IF left > n \/ count[p[child]] >= count[p[i]] THEN p ELSE Down(Swap(p, i, child), count, child, n)

HeapPush(p, count, w) == Up(Append(p, w), count, Len(p) + 1)

\* heap.Remove: the element at i changes places with the last, which sinks or,
\* if it has not moved, rises.
HeapRemove(p, count, i) ==
  LET n == Len(p)
      swapped == Swap(p, i, n)
      sunk == Down(swapped, count, i, n - 1)
  IN  Front(IF i = n THEN p ELSE IF sunk[i] # swapped[i] THEN sunk ELSE Up(sunk, count, i))

\* heap.Pop, which returns p[1].
HeapPop(p, count) == Front(Down(Swap(p, 1, Len(p)), count, 1, Len(p) - 1))

-----------------------------------------------------------------------------

Running == mpc # "panicked"

\* requests <- request: the balancer takes it, pops a worker and sends to it.
Dispatch ==
  /\ mpc = "sending" /\ balancer.at = "select"
  /\ queued' = queued + 1
  /\ mpc' = IF queued' = Samples THEN "waiting" ELSE mpc
  /\ balancer' = [at |-> "sending", to |-> pool[1], job |-> queued']
  /\ pool' = HeapPop(pool, pending)
  /\ UNCHANGED <<pending, requests, worker, collected>>

\* A mutant of ChannelSize: the channels hold one request.
OneRequest == 1

\* The channel of a worker has room for every job.
ChannelSize == Samples

\* w.requests <- req, which waits if the channel is full; then the worker is
\* pushed back with one more pending.
Dispatched ==
  /\ Running /\ balancer.at = "sending"
  /\ LET w == balancer.to IN
       /\ Len(requests[w]) < ChannelSize
       /\ requests' = [requests EXCEPT ![w] = Append(@, balancer.job)]
       /\ pending' = [pending EXCEPT ![w] = @ + 1]
       /\ pool' = HeapPush(pool, pending', w)
  /\ balancer' = Balancer("select")
  /\ UNCHANGED <<queued, worker, collected, mpc>>

WorkerTakes(w) ==
  /\ Running /\ worker[w].stage = "idle" /\ requests[w] # <<>>
  /\ worker' = [worker EXCEPT ![w] = [stage |-> "tokenize", job |-> Head(requests[w])]]
  /\ requests' = [requests EXCEPT ![w] = Tail(@)]
  /\ UNCHANGED <<queued, balancer, pool, pending, collected, mpc>>

\* tokenize: a file that cannot be read panics; its tokens are sent to the
\* receiver, which closes readyChan with the last of them.
Tokenized(w) ==
  /\ Running /\ worker[w].stage = "tokenize"
  /\ \/ mpc' = "panicked" /\ UNCHANGED <<worker, collected>>
     \/ /\ collected' = collected \union {worker[w].job}
        /\ worker' = [worker EXCEPT ![w].stage = "done"]
        /\ UNCHANGED mpc
  /\ UNCHANGED <<queued, balancer, pool, pending, requests>>

\* done <- w, and completed.
Completed(w) ==
  /\ Running /\ worker[w].stage = "done" /\ balancer.at = "select"
  /\ worker' = [worker EXCEPT ![w] = Idle]
  /\ pending' = [pending EXCEPT ![w] = @ - 1]
  /\ pool' = HeapPush(HeapRemove(pool, pending', w + 1), pending', w)
  /\ UNCHANGED <<queued, balancer, requests, collected, mpc>>

\* <-readyChan, close(requests), and the training itself.
Trained ==
  /\ mpc = "waiting" /\ collected = Jobs
  /\ mpc' = "trained"
  /\ UNCHANGED <<queued, balancer, pool, pending, requests, worker, collected>>

BalancerReturns ==
  /\ mpc = "trained" /\ balancer.at = "select" /\ balancer' = Balancer("gone")
  /\ UNCHANGED <<queued, pool, pending, requests, worker, collected, mpc>>

NextTraining ==
  \/ Dispatch \/ Dispatched \/ Trained \/ BalancerReturns
  \/ \E w \in Workers : WorkerTakes(w) \/ Tokenized(w) \/ Completed(w)

-----------------------------------------------------------------------------

\* Although the heap comes to hold one worker twice and another not at all,
\* a training that has begun ends: every sample is tokenized, or the program
\* has panicked.
TrainingEnds ==
  queued > 0 ~> (mpc = "panicked" \/ (mpc = "trained" /\ collected = Jobs))

=============================================================================
