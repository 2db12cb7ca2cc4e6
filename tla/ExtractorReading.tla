-------------------------- MODULE ExtractorReading --------------------------
(***************************************************************************)
(* The actions that read an entry, up to its trailer, keep the invariant.  *)
(***************************************************************************)
EXTENDS ExtractorInvariant

\* The stream ends at an entry type: nothing of an entry is pending.
LEMMA TypeAtEndKeeps ==
  ASSUME IInv, TypeAtEnd
  PROVE  IInv'
<1> USE DEF IInv, stream, body
<1>1. ControlOK'
  BY DEF TypeAtEnd, Stop, ControlOK
<1>2. PlaceOK'
  BY DEF TypeAtEnd, Stop, PlaceOK
<1>3. CountOK'
  BY Bounds, AtEntry, DamageKeeps, SMTT(40) DEF TypeAtEnd, Stop, CountOK, BodyInv, EntryInv, InBody,
     ControlOK, PlaceOK, Reading, Entries
<1>4. TreeOK'
  BY DEF TypeAtEnd, Stop, TreeOK
<1>5. OutputOK'
  BY Bounds, AtEntry DEF TypeAtEnd, Stop, OutputOK, TempInv, ControlOK, PlaceOK, EntryInv, Reading,
     Writing
<1>6. StreamAligned'
  BY DEF TypeAtEnd, Stop, StreamAligned, ControlOK, PlaceOK, InBody, EntryInv
<1>7. EntryInv'
  BY DEF TypeAtEnd, Stop, EntryInv, InBody, Reading, Writing, ControlOK, PlaceOK, CountOK, Entries
<1>8. TempInv'
  BY DEF TypeAtEnd, Stop, TempInv, InBody, EntryInv, ControlOK, PlaceOK, NoTemp
<1>9. FreshInv'
  BY AtEntry, Bounds DEF TypeAtEnd, Stop, FreshInv, EntryInv, InBody, Reading, CountOK, PlaceOK
<1>10. BodyInv'
  BY AtEntry, Bounds DEF TypeAtEnd, Stop, BodyInv, FreshInv, InBody, EntryInv, Reading, Writing,
     CountOK, ControlOK, PlaceOK, Entries
<1>11. EndInv'
  BY AtEntry DEF TypeAtEnd, Stop, EndInv, EntryInv, ControlOK, PlaceOK, OutputOK, StreamAligned,
     InBody, Reading, Writing
<1>12. TreeInv'
  BY TreeKeeps DEF TypeAtEnd, Stop, Reading
<1>13. SeenInv'
  BY AtEntry, Bounds DEF TypeAtEnd, Stop, SeenInv, EntryInv, InBody, Reading, Writing, ControlOK,
     PlaceOK, OutputOK, CountOK
<1>14. FailInv'
  BY AtEntry, Bounds DEF TypeAtEnd, Stop, FailInv, EntryInv, InBody, Reading, Writing, ControlOK,
     PlaceOK, OutputOK, CountOK
<1>15. OkInv'
  BY AtEntry, Bounds DEF TypeAtEnd, Stop, OkInv, BodyInv, SeenInv, FailInv, EntryInv, InBody,
     Reading, Writing, ControlOK, PlaceOK, OutputOK, CountOK
<1>16. TruncationNoticed'
  BY DEF TypeAtEnd, Stop, TruncationNoticed, EndInv, StreamAligned
<1> QED
  BY <1>1, <1>2, <1>3, <1>4, <1>5, <1>6, <1>7, <1>8, <1>9, <1>10, <1>11, <1>12, <1>13, <1>14, <1>15,
     <1>16

\* A new entry: none of its blocks has been read and none of its names has a result.
LEMMA NextEntryTypeKeeps ==
  ASSUME IInv, NextEntryType
  PROVE  IInv'
<1> USE DEF IInv, stream, body
<1>1. ControlOK'
  BY DEF NextEntryType, Kinds, Available, GoOn, Stop, ControlOK
<1>2. PlaceOK'
  BY DEF NextEntryType, Kinds, Available, GoOn, Stop, PlaceOK
<1>3. CountOK'
  <2>1. n \in Nat /\ n' \in 0..MaxEntries /\ n <= n'
    BY Bounds DEF NextEntryType, CountOK
  <2>2. damaged' \subseteq 1..n' /\ UNCHANGED <<size, buf>>
    BY <2>1 DEF NextEntryType, CountOK
  <2> QED
    BY <2>1, <2>2 DEF CountOK
<1>4. TreeOK'
  BY DEF NextEntryType, Kinds, Available, GoOn, Stop, TreeOK
<1>5. OutputOK'
  BY Bounds, AtEntry DEF NextEntryType, Kinds, Available, GoOn, Stop, OutputOK, TempInv, ControlOK,
     PlaceOK, EntryInv, Reading, Writing
<1>6. StreamAligned'
  BY DEF NextEntryType, Kinds, Available, GoOn, Stop, StreamAligned, ControlOK, PlaceOK, InBody,
     EntryInv
<1>7. EntryInv'
  BY Bounds DEF NextEntryType, Kinds, Available, GoOn, Stop, EntryInv, InBody, Reading, Writing,
     PlaceOK, CountOK, Entries
<1>8. TempInv'
  BY DEF NextEntryType, Kinds, Available, GoOn, Stop, TempInv, InBody, EntryInv, ControlOK, PlaceOK,
     NoTemp
<1>9. FreshInv'
  <2>1. n \in Nat /\ size' = size
    BY Bounds DEF NextEntryType, CountOK
  <2>2. CASE n' = n
    BY <2>1, <2>2 DEF NextEntryType, GoOn, Stop, FreshInv
  <2>3. CASE n' = n + 1 /\ n < MaxEntries
    <3>1. n + 1 \in Entries /\ n + 1 > n /\ \A e \in Entries : e > n + 1 => e > n
      BY <2>1, <2>3, Bounds DEF Entries
    <3> QED
      BY <2>1, <2>3, <3>1 DEF FreshInv
  <2> QED
    BY <2>2, <2>3 DEF NextEntryType
<1>10. BodyInv'
  BY AtEntry, Bounds DEF NextEntryType, Kinds, Available, GoOn, Stop, BodyInv, FreshInv, InBody,
     EntryInv, Reading, Writing, CountOK, ControlOK, PlaceOK, Entries
<1>11. EndInv'
  BY AtEntry DEF NextEntryType, Kinds, Available, GoOn, Stop, EndInv, EntryInv, ControlOK, PlaceOK,
     OutputOK, StreamAligned, InBody, Reading, Writing
<1>12. TreeInv'
  <2>1. n \in Nat /\ UNCHANGED <<tree, damaged, size>>
    BY Bounds DEF NextEntryType, CountOK
  <2>2. \/ n' = n + 1
        \/ n' = n /\ (pc' \in Reading => kind' = "directory")
    BY DEF NextEntryType, GoOn, Stop, Reading
  <2> SUFFICES ASSUME NEW x \in Names, tree[x] \notin NoData
               PROVE  Sound(tree[x])'
    BY <2>1 DEF TreeInv, Sound
  <2> DEFINE e == tree[x].of[1]
  <2>3. e \in Nat /\ e \notin damaged /\ tree[x].blocks = size[e] /\ (e < n \/ e = n)
    BY ContentsOf, Bounds DEF TreeInv, Sound, Entries
  <2> HIDE DEF e
  <2>4. e < n' \/ (e = n' /\ (pc' \in Reading => kind' = "directory"))
    BY <2>1, <2>2, <2>3
  <2> QED
    BY <2>1, <2>3, <2>4 DEF Sound, e
<1>13. SeenInv'
  <2>1. CASE n' = n + 1 /\ pc' = "head" /\ kind' \in Kinds /\ kind \notin {"directory", "locator"}
    <3>1. n \in Nat /\ result' = result
      BY <2>1, Bounds DEF NextEntryType, GoOn, CountOK
    <3>2. \A x \in Names : x[1] < n + 1 /\ x[2] = 1 => result[x] # "none"
      <4> SUFFICES ASSUME NEW x \in Names, x[1] < n + 1, x[2] = 1 PROVE result[x] # "none"
        OBVIOUS
      <4>1. x[1] < n \/ x = <<n, 1>>
        BY <3>1, NameParts
      <4>2. CASE x[1] < n
        BY <4>2 DEF SeenInv
      <4>3. CASE x = <<n, 1>>
        <5>1. n # 0
          BY <4>3, Bounds DEF Names, Entries
        <5> QED
          BY <2>1, <4>3, <5>1 DEF NextEntryType, SeenInv
      <4> QED
        BY <4>1, <4>2, <4>3
    <3>3. \A x \in Names : x[1] > n => result[x] = "none"
      BY DEF SeenInv
    <3>4. \A x \in Names : x[1] > n + 1 \/ x[1] = n + 1 => x[1] > n
      BY <3>1, NameParts
    <3>5. kind' # "none"
      BY <2>1 DEF Kinds
    <3> QED
      BY <2>1, <3>1, <3>2, <3>3, <3>4, <3>5 DEF SeenInv
  <2>2. CASE n' = n /\ pc' = "head" /\ kind' = "directory"
    BY <2>2 DEF NextEntryType, GoOn, SeenInv
  <2>3. CASE n' = n /\ kind = "directory" /\ kind' = "locator" /\ UNCHANGED <<pc, result>>
    BY <2>3 DEF NextEntryType, SeenInv, Reading
  <2>4. CASE n' = n /\ kind' = kind /\ pc' = "done" /\ UNCHANGED result
    BY <2>4 DEF SeenInv, Reading
  <2> QED
    BY <2>1, <2>2, <2>3, <2>4 DEF NextEntryType, GoOn, Stop
<1>14. FailInv'
  <2>1. \A x \in failed : x[1] \in Nat /\ x[1] <= n
    BY NameParts DEF FailInv, OutputOK
  <2> QED
    BY <2>1, Bounds DEF NextEntryType, Kinds, Available, GoOn, Stop, FailInv, InBody, CountOK
<1>15. OkInv'
  BY AtEntry, Bounds DEF NextEntryType, Kinds, Available, GoOn, Stop, OkInv, BodyInv, SeenInv,
     FailInv, EntryInv, InBody, Reading, Writing, ControlOK, PlaceOK, OutputOK, CountOK
<1>16. TruncationNoticed'
  BY DEF NextEntryType, Kinds, Available, GoOn, Stop, TruncationNoticed, EndInv, EntryInv,
     ControlOK, PlaceOK
<1> QED
  BY <1>1, <1>2, <1>3, <1>4, <1>5, <1>6, <1>7, <1>8, <1>9, <1>10, <1>11, <1>12, <1>13, <1>14, <1>15,
     <1>16

\* The head decides how the body is read; a head that does not open is a failure.
LEMMA ReadEntryHeadKeeps ==
  ASSUME IInv, ReadEntryHead
  PROVE  IInv'
<1> USE DEF IInv, stream, body
<1>1. ControlOK'
  BY ZenonT(30) DEF ReadEntryHead, EndOfStream, Damage, Damaged, Available, Consume, Fails, Fatal, Stop,
     Recoverable, SkipEntryBody, GoOn, Read, ControlOK
<1>2. PlaceOK'
  BY DEF ReadEntryHead, EndOfStream, Damage, Damaged, Available, Consume, Fails, Fatal, Stop,
     Recoverable, SkipEntryBody, GoOn, Read, PlaceOK
<1>3. CountOK'
  BY Bounds, AtEntry, DamageKeeps, SMTT(40) DEF ReadEntryHead, EndOfStream, Damage, Damaged, Available,
     Consume, Fails, Fatal, Stop, Recoverable, SkipEntryBody, GoOn, Read, CountOK, BodyInv,
     EntryInv, InBody, ControlOK, PlaceOK, Reading, Entries
<1>4. TreeOK'
  BY DEF ReadEntryHead, EndOfStream, Damage, Damaged, Available, Consume, Fails, Fatal, Stop,
     Recoverable, SkipEntryBody, GoOn, Read, TreeOK
<1>5. OutputOK'
  BY Bounds, AtEntry, SMTT(40) DEF ReadEntryHead, EndOfStream, Damage, Damaged, Available, Consume, Fails,
     Fatal, Stop, Recoverable, SkipEntryBody, GoOn, Read, OutputOK, TempInv, ControlOK, PlaceOK,
     EntryInv, Reading, Writing
<1>6. StreamAligned'
  BY DEF ReadEntryHead, EndOfStream, Damage, Damaged, Available, Consume, Fails, Fatal, Stop,
     Recoverable, SkipEntryBody, GoOn, Read, StreamAligned, ControlOK, PlaceOK, InBody, EntryInv
<1>7. EntryInv'
  BY DEF ReadEntryHead, EndOfStream, Damage, Damaged, Available, Consume, Fails, Fatal, Stop,
     Recoverable, SkipEntryBody, GoOn, Read, EntryInv, InBody, Reading, Writing, ControlOK, PlaceOK,
     CountOK, Entries
<1>8. TempInv'
  BY DEF ReadEntryHead, EndOfStream, Damage, Damaged, Available, Consume, Fails, Fatal, Stop,
     Recoverable, SkipEntryBody, GoOn, Read, TempInv, InBody, EntryInv, ControlOK, PlaceOK, NoTemp
<1>9. FreshInv'
  BY AtEntry, Bounds DEF ReadEntryHead, EndOfStream, Damage, Damaged, Available, Consume, Fails,
     Fatal, Stop, Recoverable, SkipEntryBody, GoOn, Read, FreshInv, EntryInv, InBody, Reading,
     CountOK, PlaceOK
<1>10. BodyInv'
  BY AtEntry, Bounds, SMTT(40) DEF ReadEntryHead, EndOfStream, Damage, Damaged, Available, Consume, Fails,
     Fatal, Stop, Recoverable, SkipEntryBody, GoOn, Read, BodyInv, FreshInv, InBody, EntryInv,
     Reading, Writing, CountOK, ControlOK, PlaceOK, Entries
<1>11. EndInv'
  BY AtEntry DEF ReadEntryHead, EndOfStream, Damage, Damaged, Available, Consume, Fails, Fatal,
     Stop, Recoverable, SkipEntryBody, GoOn, Read, EndInv, EntryInv, ControlOK, PlaceOK, OutputOK,
     StreamAligned, InBody, Reading, Writing
<1>12. TreeInv'
  BY TreeKeeps DEF ReadEntryHead, EndOfStream, Damage, Damaged, Available, Consume, Fails, Fatal,
     Stop, Recoverable, SkipEntryBody, GoOn, Read, Reading
<1>13. SeenInv'
  BY AtEntry, Bounds DEF ReadEntryHead, EndOfStream, Damage, Damaged, Available, Consume, Fails,
     Fatal, Stop, Recoverable, SkipEntryBody, GoOn, Read, SeenInv, EntryInv, InBody, Reading,
     Writing, ControlOK, PlaceOK, OutputOK, CountOK
<1>14. FailInv'
  BY AtEntry, Bounds DEF ReadEntryHead, EndOfStream, Damage, Damaged, Available, Consume, Fails,
     Fatal, Stop, Recoverable, SkipEntryBody, GoOn, Read, FailInv, EntryInv, InBody, Reading,
     Writing, ControlOK, PlaceOK, OutputOK, CountOK
<1>15. OkInv'
  BY AtEntry, Bounds DEF ReadEntryHead, EndOfStream, Damage, Damaged, Available, Consume, Fails,
     Fatal, Stop, Recoverable, SkipEntryBody, GoOn, Read, OkInv, BodyInv, SeenInv, FailInv,
     EntryInv, InBody, Reading, Writing, ControlOK, PlaceOK, OutputOK, CountOK
<1>16. TruncationNoticed'
  BY Zenon DEF ReadEntryHead, EndOfStream, Damage, Damaged, Available, Consume, Fails, Fatal, Stop,
     Recoverable, SkipEntryBody, GoOn, Read, TruncationNoticed, EndInv, EntryInv, ControlOK, PlaceOK
<1> QED
  BY <1>1, <1>2, <1>3, <1>4, <1>5, <1>6, <1>7, <1>8, <1>9, <1>10, <1>11, <1>12, <1>13, <1>14, <1>15,
     <1>16

\* The temporary file, or the error the entry is then passed over with.
LEMMA NewVerifiedFileKeeps ==
  ASSUME IInv, NewVerifiedFile
  PROVE  IInv'
<1> USE DEF IInv, stream, body
<1>1. ControlOK'
  BY Zenon DEF NewVerifiedFile, SkipEntryBody, GoOn, Fatal, Stop, ControlOK
<1>2. PlaceOK'
  BY Zenon DEF NewVerifiedFile, SkipEntryBody, GoOn, Fatal, Stop, PlaceOK
<1>3. CountOK'
  <2>1. 0 \in 0..MaxBlocks
    BY Bounds
  <2> QED
    BY <2>1, ZenonT(30) DEF NewVerifiedFile, SkipEntryBody, GoOn, CountOK
<1>4. TreeOK'
  BY DEF NewVerifiedFile, SkipEntryBody, GoOn, Fatal, Stop, TreeOK
<1>5. OutputOK'
  BY Bounds, AtEntry, Zenon DEF NewVerifiedFile, SkipEntryBody, GoOn, Fatal, Stop, OutputOK, TempInv,
     ControlOK, PlaceOK, EntryInv, Reading, Writing
<1>6. StreamAligned'
  BY Zenon DEF NewVerifiedFile, SkipEntryBody, GoOn, Fatal, Stop, StreamAligned, ControlOK, PlaceOK,
     InBody, EntryInv
<1>7. EntryInv'
  BY Zenon DEF NewVerifiedFile, SkipEntryBody, GoOn, Fatal, Stop, EntryInv, InBody, Reading, Writing,
     ControlOK, PlaceOK, CountOK, Entries
<1>8. TempInv'
  BY ZenonT(30) DEF NewVerifiedFile, SkipEntryBody, GoOn, Fatal, Stop, TempInv, InBody, EntryInv, ControlOK,
     PlaceOK, NoTemp
<1>9. FreshInv'
  BY AtEntry, Bounds DEF NewVerifiedFile, SkipEntryBody, GoOn, Fatal, Stop, FreshInv, EntryInv,
     InBody, Reading, CountOK, PlaceOK
<1>10. BodyInv'
  <2>1. n \in Entries /\ size[n] \in Nat /\ 0 <= size[n]
    BY AtEntry, Bounds DEF NewVerifiedFile, Reading, CountOK, EntryInv
  <2> QED
    BY <2>1, Zenon DEF NewVerifiedFile, SkipEntryBody, GoOn, Fatal, Stop, BodyInv, FreshInv, InBody,
       EntryInv
<1>11. EndInv'
  BY AtEntry, Zenon DEF NewVerifiedFile, SkipEntryBody, GoOn, Fatal, Stop, EndInv, EntryInv, ControlOK,
     PlaceOK, OutputOK, StreamAligned, InBody, Reading, Writing
<1>12. TreeInv'
  BY TreeKeeps DEF NewVerifiedFile, SkipEntryBody, GoOn, Fatal, Stop, Reading
<1>13. SeenInv'
  BY AtEntry, Bounds, ZenonT(30) DEF NewVerifiedFile, SkipEntryBody, GoOn, Fatal, Stop, SeenInv, EntryInv,
     InBody, Reading, Writing, ControlOK, PlaceOK, OutputOK, CountOK
<1>14. FailInv'
  <2>1. n \in Nat /\ <<n, 1>>[1] = n /\ kind = "file"
    BY Bounds DEF NewVerifiedFile, CountOK, EntryInv
  <2>2. CASE failed' = failed /\ pc' = "pad" /\ err' = "none" /\ UNCHANGED result
    BY <2>1, <2>2 DEF NewVerifiedFile, FailInv, InBody
  <2>3. CASE failed' = failed \union {<<n, 1>>} /\ SkipEntryBody("err")
    BY <2>1, <2>3 DEF NewVerifiedFile, SkipEntryBody, GoOn, FailInv, InBody
  <2>4. CASE failed' = failed \union {<<n, 1>>} /\ Fatal
    BY <2>1, <2>4 DEF NewVerifiedFile, Fatal, Stop, FailInv, InBody
  <2> QED
    BY <2>2, <2>3, <2>4, Zenon DEF NewVerifiedFile
<1>15. OkInv'
  BY AtEntry, Bounds, ZenonT(30) DEF NewVerifiedFile, SkipEntryBody, GoOn, Fatal, Stop, OkInv, BodyInv, SeenInv,
     FailInv, EntryInv, InBody, Reading, Writing, ControlOK, PlaceOK, OutputOK, CountOK
<1>16. TruncationNoticed'
  BY Zenon DEF NewVerifiedFile, SkipEntryBody, GoOn, Fatal, Stop, TruncationNoticed, EndInv, EntryInv,
     ControlOK, PlaceOK
<1> QED
  BY <1>1, <1>2, <1>3, <1>4, <1>5, <1>6, <1>7, <1>8, <1>9, <1>10, <1>11, <1>12, <1>13, <1>14, <1>15,
     <1>16

\* The padding, before the first block.
LEMMA SkipPaddingKeeps ==
  ASSUME IInv, SkipPadding
  PROVE  IInv'
<1> USE DEF IInv, stream, body
<1>1. ControlOK'
  BY Zenon DEF SkipPadding, EndOfStream, Damage, Available, Fatal, Stop, Recoverable, GoOn, DataFields,
     ControlOK
<1>2. PlaceOK'
  BY DEF SkipPadding, EndOfStream, Damage, Available, Fatal, Stop, Recoverable, GoOn, DataFields,
     PlaceOK
<1>3. CountOK'
  BY Bounds, AtEntry, DamageKeeps, ZenonT(30) DEF SkipPadding, EndOfStream, Damage, Available, Fatal, Stop,
     Recoverable, GoOn, DataFields, CountOK, BodyInv, EntryInv, InBody, ControlOK, PlaceOK, Reading,
     Entries
<1>4. TreeOK'
  BY DEF SkipPadding, EndOfStream, Damage, Available, Fatal, Stop, Recoverable, GoOn, DataFields,
     TreeOK
<1>5. OutputOK'
  BY Bounds, AtEntry DEF SkipPadding, EndOfStream, Damage, Available, Fatal, Stop, Recoverable,
     GoOn, DataFields, OutputOK, TempInv, ControlOK, PlaceOK, EntryInv, Reading, Writing
<1>6. StreamAligned'
  BY DEF SkipPadding, EndOfStream, Damage, Available, Fatal, Stop, Recoverable, GoOn, DataFields,
     StreamAligned, ControlOK, PlaceOK, InBody, EntryInv
<1>7. EntryInv'
  BY DEF SkipPadding, EndOfStream, Damage, Available, Fatal, Stop, Recoverable, GoOn, DataFields,
     EntryInv, InBody, Reading, Writing, ControlOK, PlaceOK, CountOK, Entries
<1>8. TempInv'
  BY DEF SkipPadding, EndOfStream, Damage, Available, Fatal, Stop, Recoverable, GoOn, DataFields,
     TempInv, InBody, EntryInv, ControlOK, PlaceOK, NoTemp
<1>9. FreshInv'
  BY AtEntry, Bounds DEF SkipPadding, EndOfStream, Damage, Available, Fatal, Stop, Recoverable,
     GoOn, DataFields, FreshInv, EntryInv, InBody, Reading, CountOK, PlaceOK
<1>10. BodyInv'
  BY AtEntry, Bounds, SMTT(40) DEF SkipPadding, EndOfStream, Damage, Available, Fatal, Stop, Recoverable,
     GoOn, DataFields, BodyInv, FreshInv, InBody, EntryInv, Reading, Writing, CountOK, ControlOK,
     PlaceOK, Entries
<1>11. EndInv'
  BY AtEntry DEF SkipPadding, EndOfStream, Damage, Available, Fatal, Stop, Recoverable, GoOn,
     DataFields, EndInv, EntryInv, ControlOK, PlaceOK, OutputOK, StreamAligned, InBody, Reading,
     Writing
<1>12. TreeInv'
  BY TreeKeeps DEF SkipPadding, EndOfStream, Damage, Available, Fatal, Stop, Recoverable, GoOn,
     DataFields, Reading
<1>13. SeenInv'
  BY AtEntry, Bounds DEF SkipPadding, EndOfStream, Damage, Available, Fatal, Stop, Recoverable,
     GoOn, DataFields, SeenInv, EntryInv, InBody, Reading, Writing, ControlOK, PlaceOK, OutputOK,
     CountOK
<1>14. FailInv'
  BY AtEntry, Bounds DEF SkipPadding, EndOfStream, Damage, Available, Fatal, Stop, Recoverable,
     GoOn, DataFields, FailInv, EntryInv, InBody, Reading, Writing, ControlOK, PlaceOK, OutputOK,
     CountOK
<1>15. OkInv'
  BY AtEntry, Bounds DEF SkipPadding, EndOfStream, Damage, Available, Fatal, Stop, Recoverable,
     GoOn, DataFields, OkInv, BodyInv, SeenInv, FailInv, EntryInv, InBody, Reading, Writing,
     ControlOK, PlaceOK, OutputOK, CountOK
<1>16. TruncationNoticed'
  BY Zenon DEF SkipPadding, EndOfStream, Damage, Available, Fatal, Stop, Recoverable, GoOn, DataFields,
     TruncationNoticed, EndInv, EntryInv, ControlOK, PlaceOK
<1> QED
  BY <1>1, <1>2, <1>3, <1>4, <1>5, <1>6, <1>7, <1>8, <1>9, <1>10, <1>11, <1>12, <1>13, <1>14, <1>15,
     <1>16

\* A block is kept only as long as there is no error, so what is kept is all there was.
LEMMA StreamDataBlocksKeeps ==
  ASSUME IInv, StreamDataBlocks
  PROVE  IInv'
<1> USE DEF IInv, stream, body
<1>a. /\ UNCHANGED <<n, kind, op, tree, mode>> /\ mode = "body" /\ kind \in {"file", "solid"}
      /\ pc = "blocks" /\ pc' \in {"blocks", "trailer", "done"}
  BY DEF StreamDataBlocks, EndOfStream, Consume, Fatal, Stop, GoOn, DecryptFails, EntryInv, InBody
<1>b. \A x \in Names : result'[x] = result[x] /\ (x[1] = n => result[x] = "none")
  <2>1. \A x \in Names : x[1] = n => result[x] = "none"
    BY <1>a DEF SeenInv, Reading
  <2> QED
    BY <2>1 DEF StreamDataBlocks, Fatal, GoOn, DecryptFails
<1>1. ControlOK'
  BY ZenonT(30) DEF StreamDataBlocks, EndOfStream, Damage, Damaged, Available, Consume, Fatal, Stop, GoOn,
     DataFields, DecryptFails, ControlOK
<1>2. PlaceOK'
  BY DEF StreamDataBlocks, EndOfStream, Damage, Damaged, Available, Consume, Fatal, Stop, GoOn,
     DataFields, DecryptFails, PlaceOK
<1>3. CountOK'
  <2>1. n \in Entries /\ size[n] \in 0..MaxBlocks
    BY AtEntry DEF StreamDataBlocks, Reading, EntryInv, InBody, CountOK
  <2>2. damaged' \subseteq 1..n'
    BY DamageKeeps DEF StreamDataBlocks, Reading, Damaged, EndOfStream, Consume
  <2>3. size' \in [Entries -> 0..MaxBlocks] /\ buf' \in 0..MaxBlocks
    BY <2>1, Bounds DEF StreamDataBlocks, EndOfStream, Available, Consume, CountOK, BodyInv,
       EntryInv, InBody
  <2> QED
    BY <2>2, <2>3 DEF StreamDataBlocks, EndOfStream, Consume, CountOK
<1>4. TreeOK'
  BY SMTT(40) DEF StreamDataBlocks, EndOfStream, Damage, Damaged, Available, Consume, Fatal, Stop, GoOn,
     DataFields, DecryptFails, TreeOK
<1>5. OutputOK'
  BY Bounds, AtEntry DEF StreamDataBlocks, EndOfStream, Damage, Damaged, Available, Consume, Fatal,
     Stop, GoOn, DataFields, DecryptFails, OutputOK, TempInv, ControlOK, PlaceOK, EntryInv, Reading,
     Writing
<1>6. StreamAligned'
  BY DEF StreamDataBlocks, EndOfStream, Damage, Damaged, Available, Consume, Fatal, Stop, GoOn,
     DataFields, DecryptFails, StreamAligned, ControlOK, PlaceOK, InBody, EntryInv
<1>7. EntryInv'
  BY DEF StreamDataBlocks, EndOfStream, Damage, Damaged, Available, Consume, Fatal, Stop, GoOn,
     DataFields, DecryptFails, EntryInv, InBody, Reading, Writing, ControlOK, PlaceOK, CountOK,
     Entries
<1>8. TempInv'
  BY DEF StreamDataBlocks, EndOfStream, Damage, Damaged, Available, Consume, Fatal, Stop, GoOn,
     DataFields, DecryptFails, TempInv, InBody, EntryInv, ControlOK, PlaceOK, NoTemp
<1>9. FreshInv'
  BY AtEntry, Bounds DEF StreamDataBlocks, EndOfStream, Damage, Damaged, Available, Consume, Fatal,
     Stop, GoOn, DataFields, DecryptFails, FreshInv, EntryInv, InBody, Reading, CountOK, PlaceOK
<1>10. BodyInv'
  <2>1. n \in Entries /\ size[n] \in Nat /\ kind \in {"file", "solid"}
    BY AtEntry, Bounds DEF StreamDataBlocks, Reading, EntryInv, InBody, CountOK
  <2>2. CASE Available("block") /\ size' = [size EXCEPT ![n] = @ + 1] /\ field' \in DataFields /\ GoOn("blocks")
    <3>1. size'[n] = size[n] + 1 /\ size'[n] \in 0..MaxBlocks /\ UNCHANGED <<n, kind, eof, mode>>
      BY <1>3, <2>1, <2>2 DEF StreamDataBlocks, Available, Consume, EndOfStream, CountOK, GoOn
    <3>2. field' = "block" => size'[n] < MaxBlocks
      BY <2>1, <2>2, <3>1, Bounds DEF DataFields
    <3>4. err' = "none" => err = "none" /\ buf' = buf + 1 /\ damaged' = damaged
      BY <2>2 DEF StreamDataBlocks, Available, DecryptFails, GoOn, Fatal, Stop
    <3>3. err' = "none" => buf' = size'[n] /\ (~eof => n \notin damaged')
      BY <3>1, <3>4 DEF StreamDataBlocks, BodyInv, InBody
    <3> QED
      BY <2>1, <2>2, <3>1, <3>2, <3>3 DEF GoOn, BodyInv, InBody
  <2>3. CASE \/ Damaged("block") /\ Fatal /\ UNCHANGED <<stream, body, failed>>
             \/ Available("end") /\ Consume("trailer") /\ GoOn("trailer") /\ UNCHANGED <<body, damaged, failed>>
             \/ EndOfStream /\ GoOn("trailer") /\ err' \in {err, "err"} /\ UNCHANGED <<mode, buf, failed>>
    BY <2>1, <2>3 DEF StreamDataBlocks, Fatal, Stop, Available, Consume, GoOn, EndOfStream, BodyInv,
       InBody
  <2> QED
    BY <2>2, <2>3 DEF StreamDataBlocks, DecryptFails
<1>11. EndInv'
  BY AtEntry DEF StreamDataBlocks, EndOfStream, Damage, Damaged, Available, Consume, Fatal, Stop,
     GoOn, DataFields, DecryptFails, EndInv, EntryInv, ControlOK, PlaceOK, OutputOK, StreamAligned,
     InBody, Reading, Writing
<1>12. TreeInv'
  BY TreeKeeps DEF StreamDataBlocks, EndOfStream, Damaged, Available, Consume, Reading, EntryInv,
     InBody
<1>13. SeenInv'
  BY <1>a, <1>b DEF SeenInv, Reading
<1>14. FailInv'
  <2>1. /\ damaged \subseteq damaged' /\ failed \subseteq failed'
        /\ failed' \subseteq failed \union {<<n, 1>>}
    BY DEF StreamDataBlocks, EndOfStream, Damage, Damaged
  <2>2. err' = "err" /\ pc' # "done" => n \in damaged' \/ <<n, 1>> \in failed'
    BY <1>a, <2>1 DEF StreamDataBlocks, EndOfStream, Damage, Damaged, Fatal, Stop, FailInv, InBody
  <2>3. err' = "none" /\ pc' # "done" => err = "none" /\ failed' = failed
    BY DEF StreamDataBlocks, DecryptFails, Fatal, Stop
  <2>4. n \in Nat
    BY Bounds DEF CountOK
  <2> QED
    BY <1>a, <1>b, <2>1, <2>2, <2>3, <2>4 DEF FailInv, InBody
<1>15. OkInv'
  <2>1. \A x \in Names : x[1] # n => /\ x[1] \notin damaged => x[1] \notin damaged'
                                     /\ x \notin failed => x \notin failed'
    BY DEF StreamDataBlocks, EndOfStream, Damage, Damaged
  <2> QED
    BY <1>a, <1>b, <2>1 DEF OkInv, InBody
<1>16. TruncationNoticed'
  BY Zenon DEF StreamDataBlocks, EndOfStream, Damage, Damaged, Available, Consume, Fatal, Stop, GoOn,
     DataFields, DecryptFails, TruncationNoticed, EndInv, EntryInv, ControlOK, PlaceOK
<1> QED
  BY <1>1, <1>2, <1>3, <1>4, <1>5, <1>6, <1>7, <1>8, <1>9, <1>10, <1>11, <1>12, <1>13, <1>14, <1>15,
     <1>16
=============================================================================
