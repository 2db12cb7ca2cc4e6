------------------------ MODULE EncryptPipelineProofs ------------------------
(***************************************************************************)
(* encryptAndStream for files of any length and channels of any depth:     *)
(* blocks are written in order, and a successful return means that every   *)
(* chunk that was hashed was written.                                      *)
(***************************************************************************)
EXTENDS EncryptPipeline, TLAPS

\* The blocks the caller has taken from the channel and not given up.
Taken == IF cpc = "send" THEN sent + 1 ELSE sent

\* The goroutine's step tells what its last read reported, and the MAC it
\* leaves is good only at the end of the file.
GoroutineInv ==
  /\ ppc = "read" => after = "more"
  /\ ppc = "put" => read > 0
  /\ ppc = "puterr" => after = "err"
  /\ ppc \in {"mac", "close", "exit"} => after # "more"
  /\ closed => ppc = "exit"
  /\ macCh # <<>> => ppc \in {"close", "exit"}
  /\ macCh # <<>> => (macCh[1] = "ok" => after = "eof")

\* The channel holds the blocks that follow the caller's last one, in order; an
\* error stands last in it.
ChannelInv ==
  cpc \in {"recv", "send", "mac"} =>
    /\ \A i \in 1..Len(blockCh) :
         IF blockCh[i] = 0
         THEN after = "err" /\ ppc \in {"mac", "close", "exit"}
         ELSE blockCh[i] = Taken + i
    /\ ppc = "put" => read = Taken + Len(blockCh) + 1
    /\ ppc # "put" /\ after # "err" => read = Taken + Len(blockCh)

CallerInv ==
  /\ cpc = "send" => res = sent + 1
  /\ cpc = "mac" => closed /\ blockCh = <<>>
  /\ ret = "ok" => cpc = "done" /\ ppc = "exit" /\ after = "eof" /\ sent = read

IInv == TypeOK /\ GoroutineInv /\ ChannelInv /\ CallerInv

LEMMA TailFacts ==
  ASSUME NEW S, NEW s \in Seq(S), s # <<>>
  PROVE  /\ Head(s) = s[1] /\ s[1] \in S /\ Len(s) \in Nat /\ Len(s) > 0
         /\ Tail(s) \in Seq(S) /\ Len(Tail(s)) = Len(s) - 1
         /\ \A i \in 1..Len(Tail(s)) : Tail(s)[i] = s[i + 1] /\ i + 1 \in 1..Len(s)
  OBVIOUS

LEMMA AppendFacts ==
  ASSUME NEW S, NEW s \in Seq(S), NEW e \in S
  PROVE  /\ Append(s, e) \in Seq(S) /\ Len(s) \in Nat /\ Len(Append(s, e)) = Len(s) + 1
         /\ \A i \in 1..Len(s) : Append(s, e)[i] = s[i]
         /\ Append(s, e)[Len(s) + 1] = e
  OBVIOUS

LEMMA InitIInv == Init => IInv
<1> SUFFICES ASSUME Init PROVE IInv
  OBVIOUS
<1>1. closed \in BOOLEAN
  BY Zenon DEF Init
<1>2. TypeOK
  BY <1>1, PipelineAssumption DEF Init, TypeOK
<1>3. GoroutineInv /\ ChannelInv /\ CallerInv
  BY DEF Init, GoroutineInv, ChannelInv, CallerInv, Taken
<1> QED
  BY <1>2, <1>3 DEF IInv

\* One step per action of the goroutine and of the caller.
LEMMA NextIInv == IInv /\ [Next]_vars => IInv'
<1> SUFFICES ASSUME IInv, [Next]_vars PROVE IInv'
  OBVIOUS
<1> USE PipelineAssumption
<1> USE DEF IInv, TypeOK, GoroutineInv, ChannelInv, CallerInv, Taken
<1>1. CASE ReadChunk
  BY <1>1 DEF ReadChunk, caller
<1>2. CASE ReadNothing
  BY <1>2 DEF ReadNothing, caller
<1>3. CASE EncryptFails
  BY <1>3 DEF EncryptFails, caller
<1>4. CASE PutBlock
  <2>1. /\ blockCh' = Append(blockCh, read) /\ Len(blockCh) \in Nat
        /\ blockCh' \in Seq(0..MaxBlocks) /\ Len(blockCh') = Len(blockCh) + 1
        /\ \A i \in 1..Len(blockCh) : blockCh'[i] = blockCh[i]
        /\ blockCh'[Len(blockCh) + 1] = read
    BY <1>4, AppendFacts DEF PutBlock
  <2>2. TypeOK' /\ GoroutineInv' /\ CallerInv'
    BY <1>4, <2>1 DEF PutBlock, caller
  <2>3. ChannelInv'
    <3> SUFFICES ASSUME cpc' \in {"recv", "send", "mac"} PROVE ChannelInv'
      OBVIOUS
    <3>1. Taken' = Taken /\ Taken \in Nat
      BY <1>4 DEF PutBlock, caller
    <3>2. ASSUME NEW i \in 1..Len(blockCh')
          PROVE  IF blockCh'[i] = 0 THEN after' = "err" /\ ppc' \in {"mac", "close", "exit"}
                                    ELSE blockCh'[i] = Taken' + i
      <4>1. CASE i = Len(blockCh) + 1
        BY <1>4, <2>1, <3>1, <4>1 DEF PutBlock, caller
      <4>2. CASE i \in 1..Len(blockCh)
        BY <1>4, <2>1, <3>1, <4>2, SMTT(30) DEF PutBlock, caller
      <4> QED
        BY <2>1, <4>1, <4>2
    <3>3. /\ ppc' = "put" => read' = Taken' + Len(blockCh') + 1
          /\ ppc' # "put" /\ after' # "err" => read' = Taken' + Len(blockCh')
      BY <1>4, <2>1, <3>1 DEF PutBlock, caller
    <3> QED
      BY <3>2, <3>3
  <2> QED
    BY <2>2, <2>3, Zenon
<1>5. CASE PutError
  <2>1. /\ blockCh' = Append(blockCh, 0) /\ Len(blockCh) \in Nat
        /\ blockCh' \in Seq(0..MaxBlocks) /\ Len(blockCh') = Len(blockCh) + 1
        /\ \A i \in 1..Len(blockCh) : blockCh'[i] = blockCh[i]
        /\ blockCh'[Len(blockCh) + 1] = 0
    BY <1>5, AppendFacts DEF PutError
  <2>2. TypeOK' /\ GoroutineInv' /\ CallerInv'
    BY <1>5, <2>1 DEF PutError, caller
  <2>3. ChannelInv'
    <3> SUFFICES ASSUME cpc' \in {"recv", "send", "mac"} PROVE ChannelInv'
      OBVIOUS
    <3>1. Taken' = Taken /\ Taken \in Nat
      BY <1>5 DEF PutError, caller
    <3>2. ASSUME NEW i \in 1..Len(blockCh')
          PROVE  IF blockCh'[i] = 0 THEN after' = "err" /\ ppc' \in {"mac", "close", "exit"}
                                    ELSE blockCh'[i] = Taken' + i
      <4>1. CASE i = Len(blockCh) + 1
        BY <1>5, <2>1, <3>1, <4>1 DEF PutError, caller
      <4>2. CASE i \in 1..Len(blockCh)
        BY <1>5, <2>1, <3>1, <4>2 DEF PutError, caller
      <4> QED
        BY <2>1, <4>1, <4>2
    <3>3. /\ ppc' = "put" => read' = Taken' + Len(blockCh') + 1
          /\ ppc' # "put" /\ after' # "err" => read' = Taken' + Len(blockCh')
      BY <1>5, <2>1, <3>1 DEF PutError, caller
    <3> QED
      BY <3>2, <3>3
  <2> QED
    BY <2>2, <2>3, Zenon
<1>6. CASE PutMac
  BY <1>6 DEF PutMac, caller
<1>7. CASE CloseBlocks
  BY <1>7 DEF CloseBlocks, caller
<1>8. CASE ReceiveBlock
  <2>1. /\ Head(blockCh) = blockCh[1] /\ blockCh[1] \in 0..MaxBlocks
        /\ Len(blockCh) \in Nat /\ Len(blockCh) > 0
        /\ Tail(blockCh) \in Seq(0..MaxBlocks) /\ Len(Tail(blockCh)) = Len(blockCh) - 1
        /\ \A i \in 1..Len(Tail(blockCh)) :
             Tail(blockCh)[i] = blockCh[i + 1] /\ i + 1 \in 1..Len(blockCh)
    BY <1>8, TailFacts DEF ReceiveBlock
  <2>2. TypeOK' /\ GoroutineInv'
    BY <1>8, <2>1 DEF ReceiveBlock
  <2>3. blockCh[1] # 0 => res' = sent + 1 /\ cpc' = "send" /\ Taken' = Taken + 1
    BY <1>8, <2>1 DEF ReceiveBlock
  <2>4. ChannelInv'
    <3> SUFFICES ASSUME cpc' \in {"recv", "send", "mac"} PROVE ChannelInv'
      OBVIOUS
    <3>1. blockCh[1] # 0 /\ UNCHANGED <<ppc, after, read>> /\ blockCh' = Tail(blockCh)
      BY <1>8, <2>1 DEF ReceiveBlock
    <3>2. /\ Taken \in Nat /\ read \in Nat /\ Taken' = Taken + 1
          /\ \A i \in 1..Len(blockCh) :
               IF blockCh[i] = 0 THEN after = "err" /\ ppc \in {"mac", "close", "exit"}
                                 ELSE blockCh[i] = Taken + i
          /\ ppc = "put" => read = Taken + Len(blockCh) + 1
          /\ ppc # "put" /\ after # "err" => read = Taken + Len(blockCh)
      BY <1>8, <2>3, <3>1 DEF ReceiveBlock
    <3> HIDE DEF IInv, TypeOK, GoroutineInv, ChannelInv, CallerInv, Taken
    <3>3. ASSUME NEW i \in 1..Len(blockCh')
          PROVE  IF blockCh'[i] = 0 THEN after' = "err" /\ ppc' \in {"mac", "close", "exit"}
                                    ELSE blockCh'[i] = Taken' + i
      BY <2>1, <3>1, <3>2
    <3>4. /\ ppc' = "put" => read' = Taken' + Len(blockCh') + 1
          /\ ppc' # "put" /\ after' # "err" => read' = Taken' + Len(blockCh')
      <4>1. Len(blockCh') + 1 = Len(blockCh)
        BY <2>1, <3>1
      <4>2. Taken' + Len(blockCh') = Taken + Len(blockCh)
        BY <2>1, <3>1, <3>2, <4>1
      <4> QED
        BY <3>1, <3>2, <4>2, Zenon
    <3> QED
      BY <3>3, <3>4 DEF ChannelInv
  <2>5. CallerInv'
    BY <1>8, <2>1, <2>3 DEF ReceiveBlock
  <2> QED
    BY <2>2, <2>4, <2>5, Zenon
<1>9. CASE BlocksClosed
  BY <1>9 DEF BlocksClosed, caller
<1>10. CASE SendBlock
  BY <1>10 DEF SendBlock, caller
<1>11. CASE SendFails
  BY <1>11 DEF SendFails, caller
<1>12. CASE DrainMac
  BY <1>12 DEF DrainMac, caller
<1>13. CASE TakeMac
  BY <1>13 DEF TakeMac, caller
<1>14. CASE UNCHANGED vars
  BY <1>14 DEF vars
<1> QED
  BY <1>1, <1>2, <1>3, <1>4, <1>5, <1>6, <1>7, <1>8, <1>9, <1>10, <1>11, <1>12, <1>13, <1>14, Zenon DEF Next, Goroutine, Caller

\* The invariant holds in every state of every behaviour.
THEOREM Invariant == Spec => []IInv
<1> QED
  BY InitIInv, NextIInv, PTL DEF Spec

\* The variables of encryptAndStream keep their types: in particular neither
\* channel ever holds more than its capacity (io/pipeline.go:62-63).
THEOREM TypeCorrect == Spec => []TypeOK
<1>1. IInv => TypeOK
  BY DEF IInv
<1> QED
  BY <1>1, Invariant, PTL

\* A successful return means that every hashed chunk was written, whatever the
\* length of the file and the depth of the channel (io/pipeline.go:126-127).
THEOREM ReturnsOnlyComplete == Spec => []OkMeansComplete
<1>1. IInv => OkMeansComplete
  BY DEF IInv, CallerInv, OkMeansComplete
<1> QED
  BY <1>1, Invariant, PTL

\* Blocks are written in chunk order, none skipped or repeated
\* (io/pipeline.go:105-124).
THEOREM WritesInOrder == Spec => BlocksInOrder
<1>1. IInv /\ [Next]_vars => [sent' = sent + 1]_sent
  BY DEF IInv, CallerInv, Next, Goroutine, Caller, ReadChunk, ReadNothing, EncryptFails,
         PutBlock, PutError, PutMac, CloseBlocks, ReceiveBlock, BlocksClosed, SendBlock,
         SendFails, DrainMac, TakeMac, caller, vars
<1> QED
  BY <1>1, Invariant, PTL DEF Spec, BlocksInOrder
=============================================================================
