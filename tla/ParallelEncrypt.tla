--------------------------- MODULE ParallelEncrypt ---------------------------
(***************************************************************************)
(* encryptAndStreamParallel (io/pipeline.go) and encryptAndStreamMmap      *)
(* (io/mmap_pipeline.go) with two or more workers: a dispatcher goroutine  *)
(* reads and hashes chunks and hands them to workers, and the caller       *)
(* writes the results in dispatch order.  Buffers circulate through        *)
(* freeList.  Block k is the k-th chunk, in plaintext or encrypted.        *)
(***************************************************************************)
EXTENDS Naturals, Sequences, FiniteSets

CONSTANTS
  Workers,    \* the worker goroutines
  Depth,      \* parallelPipelineDepth, buffers per worker
  MaxBlocks,  \* bound on the chunks of the file
  Idle,       \* a worker without a job
  Exited      \* a worker that has returned

BufCount == Cardinality(Workers) * Depth
Buffers == 1..BufCount
Blocks == 1..MaxBlocks
Jobs == [blk : Blocks, buf : Buffers]

VARIABLES
  mapped,    \* the file is memory-mapped: encryptAndStreamMmap runs
  dpc,       \* the dispatcher: "check", "take", "read", "ordered", "jobs",
             \* "outcome", "close", "closeJobs", "exit"
  hold,      \* the buffer the dispatcher holds; 0 for none
  read,      \* how many chunks it has hashed
  after,     \* how its loop goes on: "more", "eof", "err"
  freeList, jobs, ordered, outcomeCh,  \* the channels
  closed,    \* which of "ordered", "jobs" and "cancel" are closed
  result,    \* the buffer in each block's result channel; 0 while empty
  worker,    \* each worker's job, Idle, or Exited
  content,   \* what each buffer holds: a block and whether it is encrypted
  cpc,       \* the caller: "recv", "wait", "send", "give", "workers", "outcome", "done"
  cur, res,  \* the block and the buffer the caller is at
  sendErr,   \* a send has failed
  sent,      \* the last block written
  ret        \* what the caller returned: "none", "ok", "err"

dispatcher == <<dpc, hold, read, after>>
caller == <<cpc, cur, res, sendErr, sent, ret>>
vars == <<mapped, dispatcher, freeList, jobs, ordered, outcomeCh, closed, result,
          worker, content, caller>>

Init ==
  /\ mapped \in BOOLEAN
  /\ dpc = "check" /\ hold = 0 /\ read = 0 /\ after = "more"
  /\ freeList = [b \in Buffers |-> b] /\ jobs = <<>> /\ ordered = <<>> /\ outcomeCh = <<>>
  /\ closed = {}
  /\ result = [k \in Blocks |-> 0]
  /\ worker = [w \in Workers |-> Idle]
  /\ content = [b \in Buffers |-> [blk |-> 0, enc |-> FALSE]]
  /\ cpc = "recv" /\ cur = 0 /\ res = 0 /\ sendErr = FALSE /\ sent = 0 /\ ret = "none"

----------------------------------------------------------------------------
(* The dispatcher *)

\* The loop's select on cancel, with the size test of the mapped loop before it.
CheckCancel ==
  /\ dpc = "check"
  /\ IF "cancel" \in closed
     THEN dpc' = "outcome" /\ after' = "err" /\ UNCHANGED read
     ELSE /\ dpc' = "take" /\ UNCHANGED after
          /\ IF mapped THEN read < MaxBlocks /\ read' = read + 1 ELSE UNCHANGED read
  /\ UNCHANGED <<mapped, hold, freeList, jobs, ordered, outcomeCh, closed, result, worker, content, caller>>

\* The mapped loop ends at the end of the data, without looking at cancel.
MapEnds ==
  /\ dpc = "check" /\ mapped
  /\ dpc' = "outcome" /\ after' = "eof"
  /\ UNCHANGED <<mapped, hold, read, freeList, jobs, ordered, outcomeCh, closed, result, worker, content, caller>>

\* The mapped loop draws its nonce before it takes a buffer.
MapNonceFails ==
  /\ dpc = "take" /\ mapped
  /\ dpc' = "outcome" /\ after' = "err"
  /\ UNCHANGED <<mapped, hold, read, freeList, jobs, ordered, outcomeCh, closed, result, worker, content, caller>>

TakeBuffer ==
  /\ dpc = "take" /\ freeList # <<>>
  /\ hold' = Head(freeList) /\ freeList' = Tail(freeList)
  /\ dpc' = IF mapped THEN "ordered" ELSE "read"
  /\ UNCHANGED <<mapped, read, after, jobs, ordered, outcomeCh, closed, result, worker, content, caller>>

\* io.ReadFull fills the buffer; the chunk is hashed and gets its nonce.
ReadChunk ==
  /\ dpc = "read" /\ read < MaxBlocks
  /\ read' = read + 1
  /\ content' = [content EXCEPT ![hold] = [blk |-> read + 1, enc |-> FALSE]]
  /\ after' \in {"more", "eof", "err"}
  /\ dpc' = "ordered"
  /\ UNCHANGED <<mapped, hold, freeList, jobs, ordered, outcomeCh, closed, result, worker, caller>>

\* A mutant: the buffer is kept on the early returns.
ReadNothing_KeepsBuffer ==
  /\ dpc = "read"
  /\ \/ after' \in {"eof", "err"} /\ UNCHANGED read
     \/ read < MaxBlocks /\ after' = "err" /\ read' = read + 1
  /\ hold' = 0
  /\ dpc' = "outcome"
  /\ UNCHANGED <<mapped, freeList, jobs, ordered, outcomeCh, closed, result, worker, content, caller>>

\* The read gave no bytes, or (having hashed the chunk) no nonce could be drawn.
ReadNothing ==
  /\ dpc = "read"
  /\ \/ after' \in {"eof", "err"} /\ UNCHANGED read
     \/ read < MaxBlocks /\ after' = "err" /\ read' = read + 1
  /\ freeList' = Append(freeList, hold) /\ hold' = 0
  /\ dpc' = "outcome"
  /\ UNCHANGED <<mapped, jobs, ordered, outcomeCh, closed, result, worker, content, caller>>

EnqueueOrdered ==
  /\ dpc = "ordered" /\ Len(ordered) < BufCount
  /\ ordered' = Append(ordered, read)
  /\ dpc' = "jobs"
  /\ UNCHANGED <<mapped, hold, read, after, freeList, jobs, outcomeCh, closed, result, worker, content, caller>>

EnqueueJob ==
  /\ dpc = "jobs" /\ Len(jobs) < BufCount
  /\ jobs' = Append(jobs, [blk |-> read, buf |-> hold])
  /\ hold' = 0
  /\ dpc' = IF after = "more" THEN "check" ELSE "outcome"
  /\ UNCHANGED <<mapped, read, after, freeList, ordered, outcomeCh, closed, result, worker, content, caller>>

PutOutcome ==
  /\ dpc = "outcome" /\ outcomeCh = <<>>
  /\ outcomeCh' = <<IF after = "eof" THEN "ok" ELSE "err">>
  /\ dpc' = "close"
  /\ UNCHANGED <<mapped, hold, read, after, freeList, jobs, ordered, closed, result, worker, content, caller>>

\* The deferred closes run in reverse order: ordered, then jobs.
Close ==
  /\ \/ dpc = "close" /\ dpc' = "closeJobs" /\ closed' = closed \union {"ordered"}
     \/ dpc = "closeJobs" /\ dpc' = "exit" /\ closed' = closed \union {"jobs"}
  /\ UNCHANGED <<mapped, hold, read, after, freeList, jobs, ordered, outcomeCh, result, worker, content, caller>>

----------------------------------------------------------------------------
(* A worker *)

TakeJob(w) ==
  /\ worker[w] = Idle /\ jobs # <<>>
  /\ worker' = [worker EXCEPT ![w] = Head(jobs)]
  /\ jobs' = Tail(jobs)
  /\ UNCHANGED <<mapped, dispatcher, freeList, ordered, outcomeCh, closed, result, content, caller>>

\* The plaintext comes from the buffer itself, or from the mapping.
EncryptJob(w) ==
  /\ worker[w] \in Jobs
  /\ LET j == worker[w]
     IN  /\ content' = [content EXCEPT ![j.buf] =
                          [blk |-> IF mapped THEN j.blk ELSE content[j.buf].blk, enc |-> TRUE]]
         /\ result' = [result EXCEPT ![j.blk] = j.buf]
  /\ worker' = [worker EXCEPT ![w] = Idle]
  /\ UNCHANGED <<mapped, dispatcher, freeList, jobs, ordered, outcomeCh, closed, caller>>

WorkerExits(w) ==
  /\ worker[w] = Idle /\ jobs = <<>> /\ "jobs" \in closed
  /\ worker' = [worker EXCEPT ![w] = Exited]
  /\ UNCHANGED <<mapped, dispatcher, freeList, jobs, ordered, outcomeCh, closed, result, content, caller>>

----------------------------------------------------------------------------
(* The caller *)

\* A mutant: results are taken as they finish.
ReceiveOrdered_AnyFinished ==
  /\ cpc = "recv"
  /\ \/ \E i \in DOMAIN ordered :
          /\ result[ordered[i]] # 0
          /\ cur' = ordered[i]
          /\ ordered' = SubSeq(ordered, 1, i - 1) \o SubSeq(ordered, i + 1, Len(ordered))
          /\ cpc' = "wait"
     \/ /\ ordered = <<>> /\ "ordered" \in closed
        /\ cpc' = "workers" /\ UNCHANGED <<cur, ordered>>
  /\ UNCHANGED <<mapped, dispatcher, freeList, jobs, outcomeCh, closed, result, worker, content, res, sendErr, sent, ret>>

ReceiveOrdered ==
  /\ cpc = "recv"
  /\ \/ /\ ordered # <<>>
        /\ cur' = Head(ordered) /\ ordered' = Tail(ordered)
        /\ cpc' = "wait"
     \/ /\ ordered = <<>> /\ "ordered" \in closed
        /\ cpc' = "workers" /\ UNCHANGED <<cur, ordered>>
  /\ UNCHANGED <<mapped, dispatcher, freeList, jobs, outcomeCh, closed, result, worker, content, res, sendErr, sent, ret>>

\* A mutant: the buffer goes back to freeList before its block is written.
ReceiveResult_FreesEarly ==
  /\ cpc = "wait" /\ result[cur] # 0
  /\ res' = result[cur] /\ result' = [result EXCEPT ![cur] = 0]
  /\ freeList' = Append(freeList, result[cur])
  /\ cpc' = IF sendErr THEN "give" ELSE "send"
  /\ UNCHANGED <<mapped, dispatcher, jobs, ordered, outcomeCh, closed, worker, content, cur, sendErr, sent, ret>>

ReceiveResult ==
  /\ cpc = "wait" /\ result[cur] # 0
  /\ res' = result[cur] /\ result' = [result EXCEPT ![cur] = 0]
  /\ cpc' = IF sendErr THEN "give" ELSE "send"
  /\ UNCHANGED <<mapped, dispatcher, freeList, jobs, ordered, outcomeCh, closed, worker, content, cur, sendErr, sent, ret>>

SendBlock ==
  /\ cpc = "send"
  /\ sent' = content[res].blk
  /\ cpc' = "give"
  /\ UNCHANGED <<mapped, dispatcher, freeList, jobs, ordered, outcomeCh, closed, result, worker, content, cur, res, sendErr, ret>>

SendFails ==
  /\ cpc = "send"
  /\ sendErr' = TRUE /\ closed' = closed \union {"cancel"}
  /\ cpc' = "give"
  /\ UNCHANGED <<mapped, dispatcher, freeList, jobs, ordered, outcomeCh, result, worker, content, cur, res, sent, ret>>

\* A mutant: buffers are no longer returned after a send error.
GiveBack_NotAfterError ==
  /\ cpc = "give" /\ Len(freeList) < BufCount
  /\ freeList' = IF sendErr THEN freeList ELSE Append(freeList, res)
  /\ res' = 0 /\ cpc' = "recv"
  /\ UNCHANGED <<mapped, dispatcher, jobs, ordered, outcomeCh, closed, result, worker, content, cur, sendErr, sent, ret>>

GiveBack ==
  /\ cpc = "give" /\ Len(freeList) < BufCount
  /\ freeList' = Append(freeList, res) /\ res' = 0
  /\ cpc' = "recv"
  /\ UNCHANGED <<mapped, dispatcher, jobs, ordered, outcomeCh, closed, result, worker, content, cur, sendErr, sent, ret>>

WaitWorkers ==
  /\ cpc = "workers" /\ \A w \in Workers : worker[w] = Exited
  /\ cpc' = "outcome"
  /\ UNCHANGED <<mapped, dispatcher, freeList, jobs, ordered, outcomeCh, closed, result, worker, content, cur, res, sendErr, sent, ret>>

\* A mutant: the send error is not looked at.
TakeOutcome_DropsSendErr ==
  /\ cpc = "outcome" /\ outcomeCh # <<>>
  /\ outcomeCh' = <<>>
  /\ ret' = Head(outcomeCh)
  /\ cpc' = "done"
  /\ UNCHANGED <<mapped, dispatcher, freeList, jobs, ordered, closed, result, worker, content, cur, res, sendErr, sent>>

TakeOutcome ==
  /\ cpc = "outcome" /\ outcomeCh # <<>>
  /\ outcomeCh' = <<>>
  /\ ret' = IF sendErr THEN "err" ELSE Head(outcomeCh)
  /\ cpc' = "done"
  /\ UNCHANGED <<mapped, dispatcher, freeList, jobs, ordered, closed, result, worker, content, cur, res, sendErr, sent>>

Dispatcher ==
  \/ CheckCancel \/ MapEnds \/ MapNonceFails \/ TakeBuffer \/ ReadChunk \/ ReadNothing
  \/ EnqueueOrdered \/ EnqueueJob \/ PutOutcome \/ Close

Worker(w) == TakeJob(w) \/ EncryptJob(w) \/ WorkerExits(w)

Caller ==
  \/ ReceiveOrdered \/ ReceiveResult \/ SendBlock \/ SendFails \/ GiveBack
  \/ WaitWorkers \/ TakeOutcome

Next == Dispatcher \/ Caller \/ \E w \in Workers : Worker(w)

\* Every goroutine that can run does (the Go scheduler).
Spec ==
  /\ Init /\ [][Next]_vars
  /\ WF_vars(Dispatcher) /\ WF_vars(Caller) /\ \A w \in Workers : WF_vars(Worker(w))

----------------------------------------------------------------------------
(* Properties *)

\* While the caller writes a block, its buffer holds that block's ciphertext and
\* nobody else can touch it: a buffer goes back to freeList only after the write
\* (io/pipeline.go:251-260).
SendsOwnCiphertext ==
  cpc = "send" => content[res] = [blk |-> cur, enc |-> TRUE]

\* How many places hold buffer b: freeList, the dispatcher, a queued or running
\* job, a finished result, the caller.
Holders(b) ==
  Cardinality({i \in DOMAIN freeList : freeList[i] = b})
  + Cardinality({i \in DOMAIN jobs : jobs[i].buf = b})
  + Cardinality({w \in Workers : worker[w] \in Jobs /\ worker[w].buf = b})
  + Cardinality({k \in Blocks : result[k] = b})
  + (IF hold = b THEN 1 ELSE 0) + (IF res = b THEN 1 ELSE 0)

\* Every buffer is in exactly one place, on the error paths too, so freeList can
\* neither run dry for good nor overflow (io/pipeline.go:247-249).
BuffersConserved == \A b \in Buffers : Holders(b) = 1

\* A successful return means every hashed chunk was written, so the returned HMAC
\* is that of the blocks in the archive (io/pipeline.go:262-270).
OkMeansComplete == ret = "ok" => sent = read /\ after = "eof"

\* The call has returned and left no goroutine behind: "the
\* pipeline can wind down cleanly instead of deadlocking" (io/pipeline.go:247-249).
WoundDown == cpc = "done" /\ dpc = "exit" /\ \A w \in Workers : worker[w] = Exited
=============================================================================
