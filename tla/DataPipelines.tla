---------------------------- MODULE DataPipelines ----------------------------
(***************************************************************************)
(* The ways the data blocks of one entry are written and read.             *)
(* addFileStreaming (io/streaming.go) encrypts with one goroutine or with  *)
(* workers, from a reader or from a memory-mapped file; streamDataBlocks   *)
(* (io/extractor.go) decrypts.  A behaviour is one call, of one of them;   *)
(* the state of the others stays as it starts.                             *)
(***************************************************************************)
EXTENDS EncryptPipeline, FiniteSets

CONSTANTS
  Workers,                     \* GOMAXPROCS goroutines
  Depth, ParallelBlocks,       \* the bounds of ParallelEncrypt
  DecryptDepth, DecryptBlocks, \* and of DecryptPipeline
  Idle, Exited

ASSUME PipelinesAssumption ==
  /\ IsFiniteSet(Workers) /\ Cardinality(Workers) >= 2
  /\ Depth \in Nat \ {0} /\ ParallelBlocks \in Nat
  /\ DecryptDepth \in Nat \ {0} /\ DecryptBlocks \in Nat

VARIABLES
  chosen,  \* the call: "sequential", "mapped", "parallel" or "decrypt"
  pMapped, pDpc, pHold, pRead, pAfter, pFreeList, pJobs, pOrdered, pOutcomeCh,
  pClosed, pResult, pWorker, pContent, pCpc, pCur, pRes, pSendErr, pSent, pRet,
  dStream, dEnd, dDpc, dPos, dReadErrCh, dJobs, dOrdered, dClosed, dResult,
  dWorker, dCpc, dCur, dFirstErr, dSunk, dRet

P == INSTANCE ParallelEncrypt WITH
  MaxBlocks <- ParallelBlocks,
  mapped <- pMapped, dpc <- pDpc, hold <- pHold, read <- pRead, after <- pAfter,
  freeList <- pFreeList, jobs <- pJobs, ordered <- pOrdered, outcomeCh <- pOutcomeCh,
  closed <- pClosed, result <- pResult, worker <- pWorker, content <- pContent,
  cpc <- pCpc, cur <- pCur, res <- pRes, sendErr <- pSendErr, sent <- pSent, ret <- pRet

D == INSTANCE DecryptPipeline WITH
  Depth <- DecryptDepth, MaxBlocks <- DecryptBlocks,
  stream <- dStream, end <- dEnd, dpc <- dDpc, pos <- dPos, readErrCh <- dReadErrCh,
  jobs <- dJobs, ordered <- dOrdered, closed <- dClosed, result <- dResult,
  worker <- dWorker, cpc <- dCpc, cur <- dCur, firstErr <- dFirstErr,
  sunk <- dSunk, ret <- dRet

pVars == <<pMapped, pDpc, pHold, pRead, pAfter, pFreeList, pJobs, pOrdered, pOutcomeCh,
           pClosed, pResult, pWorker, pContent, pCpc, pCur, pRes, pSendErr, pSent, pRet>>
dVars == <<dStream, dEnd, dDpc, dPos, dReadErrCh, dJobs, dOrdered, dClosed, dResult,
           dWorker, dCpc, dCur, dFirstErr, dSunk, dRet>>
allVars == <<chosen, vars, pVars, dVars>>

\* Small files and single processors go without workers, files above the mapping
\* threshold are mapped when the platform can.
ChoosePipeline ==
  /\ chosen \in {"sequential", "mapped", "parallel", "decrypt"}
  /\ Init
  /\ P!Init /\ (chosen # "parallel" => ~pMapped)
  /\ D!Init /\ (chosen # "decrypt" => dStream = <<>> /\ dEnd = "sentinel")

----------------------------------------------------------------------------
(* encryptMmapSequential, on the variables of encryptAndStream *)

\* A chunk is hashed and its block written; drawing its nonce or writing fails;
\* the data ends.
EncryptMmapSequential ==
  /\ cpc = "recv"
  /\ \/ /\ read < MaxBlocks /\ read' = read + 1 /\ sent' = read + 1
        /\ UNCHANGED <<after, cpc, ret>>
     \/ /\ read < MaxBlocks /\ read' = read + 1
        /\ after' = "err" /\ cpc' = "done" /\ ret' = "err"
        /\ UNCHANGED sent
     \/ /\ after' = "eof" /\ cpc' = "done" /\ ret' = "ok"
        /\ UNCHANGED <<read, sent>>
  /\ UNCHANGED <<ppc, blockCh, closed, macCh, res>>

----------------------------------------------------------------------------

Sequentially(step) == chosen = "sequential" /\ step /\ UNCHANGED <<chosen, pVars, dVars>>
Mapped == chosen = "mapped" /\ EncryptMmapSequential /\ UNCHANGED <<chosen, pVars, dVars>>
InParallel(step) == chosen = "parallel" /\ step /\ UNCHANGED <<chosen, vars, dVars>>
Decrypting(step) == chosen = "decrypt" /\ step /\ UNCHANGED <<chosen, vars, pVars>>

Step ==
  \/ Sequentially(Goroutine) \/ Sequentially(Caller)
  \/ Mapped
  \/ InParallel(P!Dispatcher) \/ InParallel(P!Caller)
  \/ Decrypting(D!Dispatcher) \/ Decrypting(D!Caller)
  \/ \E w \in Workers : InParallel(P!Worker(w)) \/ Decrypting(D!Worker(w))

\* While some goroutine can run, one does: less than the Go scheduler gives, and
\* enough, because no call goes on for ever.
PipelinesSpec == ChoosePipeline /\ [][Step]_allVars /\ WF_allVars(Step)

----------------------------------------------------------------------------
(* Properties: those of the pipelines, for the call that is made.           *)
(* OkMeansComplete and BlocksInOrder are EncryptPipeline's own.             *)

\* The buffer written is the block's own ciphertext, which no worker can still
\* touch, because every buffer is in exactly one place, on the error paths too
\* (io/pipeline.go:247-260).
BuffersOwned == P!SendsOwnCiphertext /\ P!BuffersConserved

\* Encrypting with workers promises what encrypting without them does: blocks are
\* written in the order of their chunks, and success means that every hashed chunk
\* was written (io/pipeline.go:162-164, 262-270).
ParallelWritesAll ==
  [][pSent' \in {pSent, pSent + 1} /\ P!OkMeansComplete']_pVars

\* Decrypting with workers delivers what decrypting without them does, in stream
\* order, succeeds exactly when that does, and returns with the stream just after
\* the entry's blocks, after a failure too (io/decrypt_pipeline.go:49-57).  That
\* both report the same error is SameAsSequential, which does not hold.
DecryptsAsSequential ==
  [][dSunk' \in {dSunk, dSunk + 1} /\ D!DeliversAsSequential' /\ D!StreamAligned']_dVars

Returned ==
  \/ chosen \in {"sequential", "mapped"} /\ ReturnedUnlessFull
  \/ chosen = "parallel" /\ P!WoundDown
  \/ chosen = "decrypt" /\ D!WoundDown

\* Every call returns and leaves no goroutine behind, whatever failed, except that
\* a call without workers may be left waiting for room in the channel after a
\* failed send (io/pipeline.go:113-119, 247-249, io/decrypt_pipeline.go:56-57).
PipelinesReturn == <>Returned
=============================================================================
