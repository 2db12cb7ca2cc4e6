--------------------------- MODULE EncryptPipeline ---------------------------
(***************************************************************************)
(* encryptAndStream (io/pipeline.go): one goroutine reads, hashes and      *)
(* encrypts chunks, the caller writes the blocks it receives over a        *)
(* bounded channel.  Block k is the ciphertext of the k-th chunk.          *)
(***************************************************************************)
EXTENDS Naturals, Sequences

CONSTANTS
  MaxBlocks,      \* bound on the chunks of the file
  PipelineDepth   \* capacity of blockCh

ASSUME PipelineAssumption ==
  /\ MaxBlocks \in Nat
  /\ PipelineDepth \in Nat \ {0}

VARIABLES
  ppc,      \* the goroutine: "read", "put", "puterr", "mac", "close", "exit"
  read,     \* how many chunks it has read and hashed
  after,    \* what io.ReadFull reported with the current chunk: "more", "eof", "err"
  blockCh,  \* the channel of blocks; 0 stands for an encResult with an error
  closed,   \* blockCh is closed
  macCh,    \* the channel of the final result: "ok" or "err", capacity 1
  cpc,      \* the caller: "recv", "send", "drain", "mac", "done"
  res,      \* the block the caller holds; 0 for none
  sent,     \* how many blocks the caller has written
  ret       \* what the caller returned: "none", "ok", "err"

vars == <<ppc, read, after, blockCh, closed, macCh, cpc, res, sent, ret>>
caller == <<cpc, res, sent, ret>>

Init ==
  /\ ppc = "read" /\ read = 0 /\ after = "more"
  /\ blockCh = <<>> /\ closed = FALSE /\ macCh = <<>>
  /\ cpc = "recv" /\ res = 0 /\ sent = 0 /\ ret = "none"

----------------------------------------------------------------------------
(* The goroutine *)

\* io.ReadFull returns n > 0 bytes, alone or with the end or an error; the
\* chunk is hashed and encrypted.
ReadChunk ==
  /\ ppc = "read" /\ read < MaxBlocks
  /\ read' = read + 1
  /\ after' \in {"more", "eof", "err"}
  /\ ppc' = "put"
  /\ UNCHANGED <<blockCh, closed, macCh, caller>>

\* It returns no bytes: the file ended at a chunk boundary, or the read failed.
ReadNothing ==
  /\ ppc = "read"
  /\ \/ ppc' = "mac" /\ after' = "eof"
     \/ ppc' = "puterr" /\ after' = "err"
  /\ UNCHANGED <<read, blockCh, closed, macCh, caller>>

\* Mutants of EncryptFails: the failed chunk is skipped; the failure ends the
\* file as its end would.
EncryptFails_Skips ==
  /\ ppc = "put"
  /\ ppc' = "read"
  /\ UNCHANGED <<read, after, blockCh, closed, macCh, caller>>

EncryptFails_EndsFile ==
  /\ ppc = "put"
  /\ ppc' = "mac" /\ after' = "eof"
  /\ UNCHANGED <<read, blockCh, closed, macCh, caller>>

\* Encrypting the chunk failed: it is hashed but never sent.
EncryptFails ==
  /\ ppc = "put"
  /\ ppc' = "puterr" /\ after' = "err"
  /\ UNCHANGED <<read, blockCh, closed, macCh, caller>>

PutBlock ==
  /\ ppc = "put" /\ Len(blockCh) < PipelineDepth
  /\ blockCh' = Append(blockCh, read)
  /\ ppc' = CASE after = "more" -> "read" [] after = "eof" -> "mac" [] after = "err" -> "puterr"
  /\ UNCHANGED <<read, after, closed, macCh, caller>>

PutError ==
  /\ ppc = "puterr" /\ Len(blockCh) < PipelineDepth
  /\ blockCh' = Append(blockCh, 0)
  /\ ppc' = "mac"
  /\ UNCHANGED <<read, after, closed, macCh, caller>>

PutMac ==
  /\ ppc = "mac" /\ macCh = <<>>
  /\ macCh' = <<IF after = "err" THEN "err" ELSE "ok">>
  /\ ppc' = "close"
  /\ UNCHANGED <<read, after, blockCh, closed, caller>>

\* A mutant: the goroutine returns without closing blockCh.
CloseBlocks_Forgotten ==
  /\ ppc = "close"
  /\ ppc' = "exit"
  /\ UNCHANGED <<read, after, blockCh, closed, macCh, caller>>

CloseBlocks ==
  /\ ppc = "close"
  /\ closed' = TRUE /\ ppc' = "exit"
  /\ UNCHANGED <<read, after, blockCh, macCh, caller>>

----------------------------------------------------------------------------
(* The caller *)

ReceiveBlock ==
  /\ cpc = "recv" /\ blockCh # <<>>
  /\ blockCh' = Tail(blockCh)
  /\ res' = Head(blockCh)
  /\ cpc' = IF Head(blockCh) = 0 THEN "drain" ELSE "send"
  /\ UNCHANGED <<ppc, read, after, closed, macCh, sent, ret>>

BlocksClosed ==
  /\ cpc = "recv" /\ blockCh = <<>> /\ closed
  /\ cpc' = "mac"
  /\ UNCHANGED <<ppc, read, after, blockCh, closed, macCh, res, sent, ret>>

SendBlock ==
  /\ cpc = "send"
  /\ sent' = res /\ res' = 0
  /\ cpc' = "recv"
  /\ UNCHANGED <<ppc, read, after, blockCh, closed, macCh, ret>>

\* send failed: the caller waits for the goroutine's result before it returns.
SendFails ==
  /\ cpc = "send"
  /\ res' = 0 /\ cpc' = "drain"
  /\ UNCHANGED <<ppc, read, after, blockCh, closed, macCh, sent, ret>>

\* The error path: <-macCh, then the error is returned.
DrainMac ==
  /\ cpc = "drain" /\ macCh # <<>>
  /\ macCh' = <<>>
  /\ ret' = "err" /\ cpc' = "done"
  /\ UNCHANGED <<ppc, read, after, blockCh, closed, res, sent>>

TakeMac ==
  /\ cpc = "mac" /\ macCh # <<>>
  /\ macCh' = <<>>
  /\ ret' = Head(macCh) /\ cpc' = "done"
  /\ UNCHANGED <<ppc, read, after, blockCh, closed, res, sent>>

Goroutine ==
  ReadChunk \/ ReadNothing \/ EncryptFails \/ PutBlock \/ PutError \/ PutMac \/ CloseBlocks

Caller ==
  ReceiveBlock \/ BlocksClosed \/ SendBlock \/ SendFails \/ DrainMac \/ TakeMac

Next == Goroutine \/ Caller

\* Both sides keep running while they can (the Go scheduler runs every
\* runnable goroutine).
Spec == Init /\ [][Next]_vars /\ WF_vars(Goroutine) /\ WF_vars(Caller)

----------------------------------------------------------------------------
(* Properties *)

\* The types of the variables of encryptAndStream.
TypeOK ==
  /\ ppc \in {"read", "put", "puterr", "mac", "close", "exit"}
  /\ read \in 0..MaxBlocks /\ after \in {"more", "eof", "err"}
  /\ blockCh \in Seq(0..MaxBlocks) /\ Len(blockCh) <= PipelineDepth
  /\ closed \in BOOLEAN
  /\ macCh \in Seq({"ok", "err"}) /\ Len(macCh) <= 1
  /\ cpc \in {"recv", "send", "drain", "mac", "done"}
  /\ res \in 0..MaxBlocks /\ sent \in 0..MaxBlocks
  /\ ret \in {"none", "ok", "err"}

\* Blocks reach the archive in the order of their chunks, none skipped and none
\* written twice (io/pipeline.go:105-124).
BlocksInOrder == [][sent' = sent + 1]_sent

\* A successful return means every hashed chunk was written, so the HMAC that
\* is returned is that of the blocks in the archive (io/pipeline.go:126-127).
OkMeansComplete == ret = "ok" => sent = read /\ after = "eof"

\* The call has returned, with one exception: after a failed send
\* the caller waits for the MAC and no longer empties blockCh, so the goroutine
\* may be left waiting for room in it (io/pipeline.go:113-119).
ReturnedUnlessFull ==
  \/ cpc = "done"
  \/ cpc = "drain" /\ Len(blockCh) = PipelineDepth /\ ppc \in {"put", "puterr"}

\* The call returns: a failing send surfaces "as an error instead of hanging"
\* (io/pipeline_test.go:107-109).
Returns == <>(cpc = "done")
=============================================================================
