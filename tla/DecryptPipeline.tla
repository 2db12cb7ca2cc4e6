--------------------------- MODULE DecryptPipeline ---------------------------
(***************************************************************************)
(* decryptBlocksParallel (io/decrypt_pipeline.go): a dispatcher reads the  *)
(* data blocks of one entry, workers decrypt them, and the caller hands    *)
(* the plaintexts to the sink in stream order.  decryptBlocksSequential    *)
(* is given as the value it computes, for comparison.                      *)
(***************************************************************************)
EXTENDS Naturals, Sequences, FiniteSets, FiniteSetsExt

CONSTANTS
  Workers,    \* the worker goroutines
  Depth,      \* decryptPipelineDepth, queued blocks per worker
  MaxBlocks,  \* bound on the blocks of an entry
  Idle, Exited

Capacity == Cardinality(Workers) * Depth
Blocks == 1..MaxBlocks

\* What becomes of a block: it decrypts and the sink takes it, it fails to
\* authenticate, or it decrypts and the sink fails.
Kinds == {"good", "bad", "sink"}

VARIABLES
  stream, end,  \* the blocks of the entry, and how next ends: "sentinel" or "err"
  dpc,          \* the dispatcher: "next", "ordered", "jobs", "done", "close", "closeJobs", "exit"
  pos,          \* how many blocks next has returned
  readErrCh, jobs, ordered, closed,
  result,       \* each block's result channel: "empty", or the decryption's outcome
  worker,       \* each worker's block, Idle or Exited
  cpc,          \* the caller: "recv", "wait", "workers", "return", "done"
  cur,          \* the block whose result the caller waits for
  firstErr,     \* "none", "bad" or "sink"
  sunk,         \* the last block the sink accepted
  ret           \* what was returned: "none", "ok", "bad", "sink", "read"

input == <<stream, end>>
caller == <<cpc, cur, firstErr, sunk, ret>>
vars == <<input, dpc, pos, readErrCh, jobs, ordered, closed, result, worker, caller>>

Init ==
  /\ stream \in UNION {[1..n -> Kinds] : n \in 0..MaxBlocks}
  /\ end \in {"sentinel", "err"}
  /\ dpc = "next" /\ pos = 0 /\ readErrCh = <<>>
  /\ jobs = <<>> /\ ordered = <<>> /\ closed = {}
  /\ result = [k \in Blocks |-> "empty"]
  /\ worker = [w \in Workers |-> Idle]
  /\ cpc = "recv" /\ cur = 0 /\ firstErr = "none" /\ sunk = 0 /\ ret = "none"

----------------------------------------------------------------------------
(* The dispatcher *)

NextBlock ==
  /\ dpc = "next"
  /\ IF pos < Len(stream) THEN pos' = pos + 1 /\ dpc' = "ordered"
                          ELSE dpc' = "done" /\ UNCHANGED pos
  /\ UNCHANGED <<input, readErrCh, jobs, ordered, closed, result, worker, caller>>

EnqueueOrdered ==
  /\ dpc = "ordered" /\ Len(ordered) < Capacity
  /\ ordered' = Append(ordered, pos)
  /\ dpc' = "jobs"
  /\ UNCHANGED <<input, pos, readErrCh, jobs, closed, result, worker, caller>>

EnqueueJob ==
  /\ dpc = "jobs" /\ Len(jobs) < Capacity
  /\ jobs' = Append(jobs, pos)
  /\ dpc' = "next"
  /\ UNCHANGED <<input, pos, readErrCh, ordered, closed, result, worker, caller>>

PutReadErr ==
  /\ dpc = "done"
  /\ readErrCh' = <<IF end = "err" THEN "read" ELSE "ok">>
  /\ dpc' = "close"
  /\ UNCHANGED <<input, pos, jobs, ordered, closed, result, worker, caller>>

\* A mutant: jobs is never closed.
Close_NotJobs ==
  /\ \/ dpc = "close" /\ dpc' = "closeJobs" /\ closed' = closed \union {"ordered"}
     \/ dpc = "closeJobs" /\ dpc' = "exit" /\ UNCHANGED closed
  /\ UNCHANGED <<input, pos, readErrCh, jobs, ordered, result, worker, caller>>

\* The deferred closes run in reverse order: ordered, then jobs.
Close ==
  /\ \/ dpc = "close" /\ dpc' = "closeJobs" /\ closed' = closed \union {"ordered"}
     \/ dpc = "closeJobs" /\ dpc' = "exit" /\ closed' = closed \union {"jobs"}
  /\ UNCHANGED <<input, pos, readErrCh, jobs, ordered, result, worker, caller>>

----------------------------------------------------------------------------
(* A worker *)

TakeJob(w) ==
  /\ worker[w] = Idle /\ jobs # <<>>
  /\ worker' = [worker EXCEPT ![w] = Head(jobs)]
  /\ jobs' = Tail(jobs)
  /\ UNCHANGED <<input, dpc, pos, readErrCh, ordered, closed, result, caller>>

DecryptJob(w) ==
  /\ worker[w] \in Blocks
  /\ result' = [result EXCEPT ![worker[w]] = IF stream[worker[w]] = "bad" THEN "bad" ELSE "pt"]
  /\ worker' = [worker EXCEPT ![w] = Idle]
  /\ UNCHANGED <<input, dpc, pos, readErrCh, jobs, ordered, closed, caller>>

WorkerExits(w) ==
  /\ worker[w] = Idle /\ jobs = <<>> /\ "jobs" \in closed
  /\ worker' = [worker EXCEPT ![w] = Exited]
  /\ UNCHANGED <<input, dpc, pos, readErrCh, jobs, ordered, closed, result, caller>>

----------------------------------------------------------------------------
(* The caller *)

\* A mutant: results are taken as they finish.
ReceiveOrdered_AnyFinished ==
  /\ cpc = "recv"
  /\ \/ \E i \in DOMAIN ordered :
          /\ result[ordered[i]] # "empty"
          /\ cur' = ordered[i]
          /\ ordered' = SubSeq(ordered, 1, i - 1) \o SubSeq(ordered, i + 1, Len(ordered))
          /\ cpc' = "wait"
     \/ /\ ordered = <<>> /\ "ordered" \in closed
        /\ cpc' = "workers" /\ UNCHANGED <<cur, ordered>>
  /\ UNCHANGED <<input, dpc, pos, readErrCh, jobs, closed, result, worker, firstErr, sunk, ret>>

ReceiveOrdered ==
  /\ cpc = "recv"
  /\ \/ /\ ordered # <<>>
        /\ cur' = Head(ordered) /\ ordered' = Tail(ordered)
        /\ cpc' = "wait"
     \/ /\ ordered = <<>> /\ "ordered" \in closed
        /\ cpc' = "workers" /\ UNCHANGED <<cur, ordered>>
  /\ UNCHANGED <<input, dpc, pos, readErrCh, jobs, closed, result, worker, firstErr, sunk, ret>>

\* Mutants of ConsumeResult: a later good block is still delivered after a
\* failure; the call returns at the first failure.
ConsumeResult_GoesOn ==
  /\ cpc = "wait" /\ result[cur] # "empty"
  /\ result' = [result EXCEPT ![cur] = "empty"]
  /\ IF result[cur] = "pt" /\ stream[cur] # "sink"
     THEN sunk' = cur ELSE UNCHANGED sunk
  /\ firstErr' = IF firstErr # "none" THEN firstErr
                 ELSE CASE result[cur] = "bad" -> "bad"
                        [] result[cur] = "pt" /\ stream[cur] = "sink" -> "sink"
                        [] OTHER -> "none"
  /\ cpc' = "recv"
  /\ UNCHANGED <<input, dpc, pos, readErrCh, jobs, ordered, closed, worker, cur, ret>>

ConsumeResult_ReturnsEarly ==
  /\ cpc = "wait" /\ result[cur] # "empty"
  /\ result' = [result EXCEPT ![cur] = "empty"]
  /\ IF result[cur] = "pt" /\ stream[cur] # "sink"
     THEN sunk' = cur /\ cpc' = "recv" /\ UNCHANGED <<firstErr, ret>>
     ELSE /\ firstErr' = IF result[cur] = "bad" THEN "bad" ELSE "sink"
          /\ ret' = firstErr' /\ cpc' = "done" /\ UNCHANGED sunk
  /\ UNCHANGED <<input, dpc, pos, readErrCh, jobs, ordered, closed, worker, cur>>

\* The result is dropped after an earlier failure; otherwise a plaintext goes to
\* the sink and a failure is kept as the first.
ConsumeResult ==
  /\ cpc = "wait" /\ result[cur] # "empty"
  /\ result' = [result EXCEPT ![cur] = "empty"]
  /\ IF firstErr = "none" /\ result[cur] = "pt" /\ stream[cur] # "sink"
     THEN sunk' = cur ELSE UNCHANGED sunk
  /\ firstErr' = IF firstErr # "none" THEN firstErr
                 ELSE CASE result[cur] = "bad" -> "bad"
                        [] result[cur] = "pt" /\ stream[cur] = "sink" -> "sink"
                        [] OTHER -> "none"
  /\ cpc' = "recv"
  /\ UNCHANGED <<input, dpc, pos, readErrCh, jobs, ordered, closed, worker, cur, ret>>

WaitWorkers ==
  /\ cpc = "workers" /\ \A w \in Workers : worker[w] = Exited
  /\ cpc' = "return"
  /\ UNCHANGED <<input, dpc, pos, readErrCh, jobs, ordered, closed, result, worker, cur, firstErr, sunk, ret>>

Return ==
  /\ cpc = "return"
  /\ \/ firstErr # "none" /\ ret' = firstErr /\ UNCHANGED readErrCh
     \/ firstErr = "none" /\ readErrCh # <<>> /\ ret' = Head(readErrCh) /\ readErrCh' = <<>>
  /\ cpc' = "done"
  /\ UNCHANGED <<input, dpc, pos, jobs, ordered, closed, result, worker, cur, firstErr, sunk>>

Dispatcher == NextBlock \/ EnqueueOrdered \/ EnqueueJob \/ PutReadErr \/ Close
Worker(w) == TakeJob(w) \/ DecryptJob(w) \/ WorkerExits(w)
Caller == ReceiveOrdered \/ ConsumeResult \/ WaitWorkers \/ Return

Next == Dispatcher \/ Caller \/ \E w \in Workers : Worker(w)

\* Every goroutine that can run does (the Go scheduler).
Spec ==
  /\ Init /\ [][Next]_vars
  /\ WF_vars(Dispatcher) /\ WF_vars(Caller) /\ \A w \in Workers : WF_vars(Worker(w))

----------------------------------------------------------------------------
(* What decryptBlocksSequential computes for the same blocks *)

Failing == {k \in DOMAIN stream : stream[k] # "good"}

\* The last block its sink accepts.
SequentialSunk == IF Failing = {} THEN Len(stream) ELSE Min(Failing) - 1

\* The error it returns: a failing next ends the loop with its own error.
SequentialReturn ==
  CASE end = "err" -> "read"
    [] end # "err" /\ Failing = {} -> "ok"
    [] OTHER -> stream[Min(Failing)]

----------------------------------------------------------------------------
(* Properties *)

\* The parallel call delivers exactly the plaintext the sequential one delivers,
\* and succeeds exactly when it does, whichever worker meets a failure first
\* (io/decrypt_pipeline.go:50-57).
DeliversAsSequential ==
  ret # "none" => sunk = SequentialSunk /\ (ret = "ok" <=> SequentialReturn = "ok")

\* The sequential call has "the same ordering, failure, and draining behaviour as
\* decryptBlocksParallel" (io/decrypt_pipeline.go:121-122): both return the same
\* error.
SameAsSequential == ret # "none" => ret = SequentialReturn

\* When the call returns, all blocks through the sentinel have been read, after
\* a failure too, so the next field of the entry is where the stream stands
\* (io/decrypt_pipeline.go:56-57).
StreamAligned == ret # "none" => pos = Len(stream) /\ dpc = "exit"

\* The call has returned and left no goroutine behind.
WoundDown == cpc = "done" /\ dpc = "exit" /\ \A w \in Workers : worker[w] = Exited
=============================================================================
