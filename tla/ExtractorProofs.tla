-------------------------- MODULE ExtractorProofs ---------------------------
(***************************************************************************)
(* For archives of any number of entries, blocks and members, with any     *)
(* damage, truncation, output error or kill: the reader keeps its place,   *)
(* only whole and verified files appear, a truncated archive is noticed,   *)
(* and no temporary file is left.  How blocks are passed over and how an   *)
(* entry is accepted or fails at its trailer come first.                   *)
(***************************************************************************)
EXTENDS ExtractorReading, ExtractorWriting

\* Blocks are passed over: what is in place is of other entries.
LEMMA SkipDataBlocksKeeps ==
  ASSUME IInv, SkipDataBlocks
  PROVE  IInv'
<1> USE DEF IInv, stream, body
<1>1. ControlOK'
  BY ZenonT(40) DEF SkipDataBlocks, EndOfStream, Damage, Damaged, Available, Consume, Fatal, Stop, GoOn,
     DataFields, Fails, Recoverable, ControlOK
<1>2. PlaceOK'
  BY DEF SkipDataBlocks, EndOfStream, Damage, Damaged, Available, Consume, Fatal, Stop, GoOn,
     DataFields, Fails, Recoverable, PlaceOK
<1>3. CountOK'
  <2>1. kind # "directory" => n \in Entries /\ size[n] \in 0..MaxBlocks
    BY AtEntry DEF SkipDataBlocks, Reading, CountOK
  <2>2. damaged' \subseteq 1..n'
    BY DamageKeeps DEF SkipDataBlocks, Reading, Damaged, EndOfStream, Consume
  <2>3. size' \in [Entries -> 0..MaxBlocks]
    BY <2>1, Bounds DEF SkipDataBlocks, EndOfStream, Available, Consume, CountOK, BodyInv
  <2> QED
    BY <2>2, <2>3 DEF SkipDataBlocks, EndOfStream, Consume, CountOK
<1>4. TreeOK'
  BY DEF SkipDataBlocks, EndOfStream, Damage, Damaged, Available, Consume, Fatal, Stop, GoOn,
     DataFields, Fails, Recoverable, TreeOK
<1>5. OutputOK'
  BY Bounds, AtEntry DEF SkipDataBlocks, EndOfStream, Damage, Damaged, Available, Consume, Fatal,
     Stop, GoOn, DataFields, Fails, Recoverable, OutputOK, TempInv, ControlOK, PlaceOK, EntryInv,
     Reading, Writing
<1>6. StreamAligned'
  BY DEF SkipDataBlocks, EndOfStream, Damage, Damaged, Available, Consume, Fatal, Stop, GoOn,
     DataFields, Fails, Recoverable, StreamAligned, ControlOK, PlaceOK, InBody, EntryInv
<1>7. EntryInv'
  BY DEF SkipDataBlocks, EndOfStream, Damage, Damaged, Available, Consume, Fatal, Stop, GoOn,
     DataFields, Fails, Recoverable, EntryInv, InBody, Reading, Writing, ControlOK, PlaceOK,
     CountOK, Entries
<1>8. TempInv'
  BY SMTT(40) DEF SkipDataBlocks, EndOfStream, Damage, Damaged, Available, Consume, Fatal, Stop, GoOn,
     DataFields, Fails, Recoverable, TempInv, InBody, EntryInv, ControlOK, PlaceOK, NoTemp
<1>9. FreshInv'
  BY AtEntry, Bounds DEF SkipDataBlocks, EndOfStream, Damage, Damaged, Available, Consume, Fatal,
     Stop, GoOn, DataFields, Fails, Recoverable, FreshInv, EntryInv, InBody, Reading, CountOK,
     PlaceOK
<1>10. BodyInv'
  <2>1. kind # "directory" => n \in Entries
    BY AtEntry DEF SkipDataBlocks, Reading
  <2>2. CASE Available("block") /\ field' \in DataFields /\ UNCHANGED <<n, kind, eof>> /\ GoOn("blocks")
    <3>1. kind # "directory" => size'[n] \in 0..MaxBlocks
      BY <1>3, <2>1, <2>2 DEF CountOK
    <3>2. field' = "block" /\ kind' # "directory" => n' \in Entries /\ size'[n'] < MaxBlocks
      BY <2>1, <2>2, <3>1, Bounds DEF DataFields
    <3> QED
      BY <2>2, <3>2 DEF SkipDataBlocks, GoOn, BodyInv, InBody
  <2>3. CASE \/ Damaged("block") /\ Fatal /\ UNCHANGED stream
             \/ Available("end") /\ Consume("trailer") /\ GoOn("trailer") /\ UNCHANGED damaged
             \/ EndOfStream /\ Fails
    BY <2>3 DEF SkipDataBlocks, Fatal, Stop, Available, Consume, GoOn, EndOfStream, Fails,
       Recoverable,
       BodyInv, InBody
  <2> QED
    BY <2>2, <2>3 DEF SkipDataBlocks
<1>11. EndInv'
  BY AtEntry DEF SkipDataBlocks, EndOfStream, Damage, Damaged, Available, Consume, Fatal, Stop,
     GoOn, DataFields, Fails, Recoverable, EndInv, EntryInv, ControlOK, PlaceOK, OutputOK,
     StreamAligned, InBody, Reading, Writing
<1>12. TreeInv'
  BY TreeKeeps, SMTT(40) DEF SkipDataBlocks, EndOfStream, Damage, Damaged, Available, Consume, Fatal, Stop,
     GoOn, DataFields, Fails, Recoverable, Reading
<1>13. SeenInv'
  BY AtEntry, Bounds, SMTT(40) DEF SkipDataBlocks, EndOfStream, Damage, Damaged, Available, Consume, Fatal,
     Stop, GoOn, DataFields, Fails, Recoverable, SeenInv, EntryInv, InBody, Reading, Writing,
     ControlOK, PlaceOK, OutputOK, CountOK
<1>14. FailInv'
  BY AtEntry, Bounds, SMTT(40) DEF SkipDataBlocks, EndOfStream, Damage, Damaged, Available, Consume, Fatal,
     Stop, GoOn, DataFields, Fails, Recoverable, FailInv, EntryInv, InBody, Reading, Writing,
     ControlOK, PlaceOK, OutputOK, CountOK
<1>15. OkInv'
  BY AtEntry, Bounds, SMTT(40) DEF SkipDataBlocks, EndOfStream, Damage, Damaged, Available, Consume, Fatal,
     Stop, GoOn, DataFields, Fails, Recoverable, OkInv, BodyInv, SeenInv, FailInv, EntryInv, InBody,
     Reading, Writing, ControlOK, PlaceOK, OutputOK, CountOK
<1>16. TruncationNoticed'
  BY Zenon DEF SkipDataBlocks, EndOfStream, Damage, Damaged, Available, Consume, Fatal, Stop, GoOn,
     DataFields, Fails, Recoverable, TruncationNoticed, EndInv, EntryInv, ControlOK, PlaceOK
<1> QED
  BY <1>1, <1>2, <1>3, <1>4, <1>5, <1>6, <1>7, <1>8, <1>9, <1>10, <1>11, <1>12, <1>13, <1>14, <1>15,
     <1>16

(* What the two ways to read a trailer come to, with their CASEs resolved. *)

TrailerSkipped ==
  /\ pc = "trailer" /\ (mode = "skip" \/ err = "err")
  /\ \/ EndOfStream /\ Fatal
     \/ Damaged("trailer") /\ Fatal /\ UNCHANGED stream
     \/ /\ Available("trailer") /\ Consume("type") /\ UNCHANGED damaged
        /\ \/ err = "err" /\ kind = "directory" /\ Fatal
           \/ err = "err" /\ kind # "directory" /\ Recoverable
           \/ err = "none" /\ kind = "directory" /\ GoOn("type")
           \/ err = "none" /\ kind \notin {"directory", "file", "solid"} /\ GoOn("special")
  /\ UNCHANGED <<version, op, body, member, opened, tree, failed>>

TrailerRead ==
  /\ pc = "trailer" /\ mode # "skip" /\ err = "none" /\ kind # "directory"
  /\ \/ EndOfStream /\ Recoverable /\ UNCHANGED member
     \/ Damaged("trailer") /\ Fatal /\ UNCHANGED <<stream, member>>
     \/ Damaged("trailer") /\ Consume("type") /\ Recoverable /\ UNCHANGED member
     \/ /\ Available("trailer") /\ Consume("type") /\ UNCHANGED damaged
        /\ \/ mode = "list" /\ Succeeds /\ UNCHANGED member
           \/ /\ mode = "body" /\ buf = size[n] /\ kind = "file"
              /\ GoOn("publish") /\ UNCHANGED member
           \/ /\ mode = "body" /\ buf = size[n] /\ kind = "solid" /\ op = "extract"
              /\ GoOn("members") /\ member' = 1
           \/ /\ mode = "body" /\ kind = "solid" /\ op = "list"
              /\ \E m \in 1..MaxMembers :
                   result' = [x \in Names |-> IF x[1] = n /\ x[2] <= m THEN "ok" ELSE result[x]]
              /\ pc' = "type" /\ UNCHANGED <<tmp, ret, member>>
  /\ UNCHANGED <<version, op, body, opened, tree, failed>>

\* SkipTrailer is one of these cases.
LEMMA SkipTrailerCases ==
  ASSUME IInv, SkipTrailer
  PROVE  TrailerSkipped
<1> USE DEF IInv
<1>1. err \in {"none", "err"} /\ (mode = "skip" /\ err = "none" => kind \notin {"file", "solid"})
  BY DEF SkipTrailer, ControlOK, EntryInv, InBody
<1>2. ASSUME Skipped
      PROVE  \/ err = "err" /\ kind = "directory" /\ Fatal
             \/ err = "err" /\ kind # "directory" /\ Recoverable
             \/ err = "none" /\ kind = "directory" /\ GoOn("type")
             \/ err = "none" /\ kind # "directory" /\ GoOn("special")
  BY <1>1, <1>2, Zenon DEF Skipped, Fails
<1> QED
  BY <1>1, <1>2 DEF SkipTrailer, TrailerSkipped

\* ReadTrailer is one of these cases: BodyInv excludes a trailer that does not match.
LEMMA ReadTrailerCases ==
  ASSUME IInv, ReadTrailer
  PROVE  TrailerRead
<1> USE DEF IInv
<1>1. /\ mode \in {"body", "list"} /\ kind # "directory"
      /\ mode = "body" => kind \in {"file", "solid"} /\ buf = size[n]
      /\ op \in {"extract", "list"}
  BY DEF ReadTrailer, ControlOK, EntryInv, BodyInv, InBody
<1>2. ASSUME Verified
      PROVE  \/ mode = "list" /\ Succeeds /\ UNCHANGED member
             \/ mode = "body" /\ kind = "file" /\ GoOn("publish") /\ UNCHANGED member
             \/ mode = "body" /\ kind = "solid" /\ op = "extract" /\ GoOn("members") /\ member' = 1
             \/ /\ mode = "body" /\ kind = "solid" /\ op = "list"
                /\ \E m \in 1..MaxMembers :
                     result' = [x \in Names |-> IF x[1] = n /\ x[2] <= m THEN "ok" ELSE result[x]]
                /\ pc' = "type" /\ UNCHANGED <<tmp, ret, member>>
  BY <1>1, <1>2, Zenon DEF Verified
<1> QED
  BY <1>1, <1>2 DEF ReadTrailer, TrailerRead, TrailerFails

\* The entry has been passed over: its error is its result.
LEMMA SkipTrailerKeeps ==
  ASSUME IInv, SkipTrailer
  PROVE  IInv'
<1> USE DEF IInv, stream, body
<1>0. TrailerSkipped
  BY SkipTrailerCases
<1>a. /\ UNCHANGED <<n, kind, size, mode, err, buf>>
      /\ pc = "trailer" /\ pc' \in {"done", "type", "special"} /\ field' \in {field, "type"}
  BY <1>0 DEF TrailerSkipped, EndOfStream, Damaged, Available, Consume, Fatal, Stop, GoOn, Recoverable
<1>b. Damage \/ damaged' = damaged
  BY <1>0, Zenon DEF TrailerSkipped, EndOfStream, Damaged
<1>1. ControlOK'
  BY <1>0, ZenonT(40) DEF TrailerSkipped, EndOfStream, Damage, Damaged, Available, Consume, Fatal, Stop, GoOn,
     Recoverable, ControlOK
<1>2. PlaceOK'
  BY <1>a DEF PlaceOK
<1>3. CountOK'
  BY <1>a, <1>b, DamageKeeps DEF CountOK, Reading
<1>4. TreeOK'
  BY <1>0 DEF TrailerSkipped, EndOfStream, Damage, Damaged, Available, Consume, Fatal, Stop, GoOn,
     Recoverable, TreeOK
<1>5. OutputOK'
  BY <1>0, Bounds, AtEntry, SMTT(40) DEF TrailerSkipped, EndOfStream, Damage, Damaged, Available, Consume,
     Fatal, Stop, GoOn, Recoverable, OutputOK, TempInv, ControlOK, PlaceOK, EntryInv, Reading,
     Writing
<1>6. StreamAligned'
  BY <1>0 DEF TrailerSkipped, EndOfStream, Damage, Damaged, Available, Consume, Fatal, Stop, GoOn,
     Recoverable, StreamAligned, ControlOK, PlaceOK, InBody, EntryInv
<1>7. EntryInv'
  BY <1>0 DEF TrailerSkipped, EndOfStream, Damage, Damaged, Available, Consume, Fatal, Stop, GoOn,
     Recoverable, EntryInv, InBody, Reading, Writing, ControlOK, PlaceOK, CountOK, Entries
<1>8. TempInv'
  BY <1>0 DEF TrailerSkipped, EndOfStream, Damage, Damaged, Available, Consume, Fatal, Stop, GoOn,
     Recoverable, TempInv, InBody, EntryInv, ControlOK, PlaceOK, NoTemp
<1>9. FreshInv'
  BY <1>a DEF FreshInv
<1>10. BodyInv'
  BY <1>a DEF BodyInv, InBody
<1>11. EndInv'
  BY <1>0, SMTT(40) DEF TrailerSkipped, EndOfStream, Damaged, Available, Consume, Fatal, Stop, GoOn,
     Recoverable, EndInv, Writing
<1>12. TreeInv'
  BY <1>0, TreeKeeps, SMTT(40) DEF TrailerSkipped, EndOfStream, Damage, Damaged, Available, Consume, Fatal,
     Stop, GoOn, Recoverable, Reading
<1>13. SeenInv'
  BY <1>0, AtEntry, Bounds, SMTT(40) DEF TrailerSkipped, EndOfStream, Damage, Damaged, Available, Consume,
     Fatal, Stop, GoOn, Recoverable, SeenInv, EntryInv, InBody, Reading, Writing, ControlOK,
     PlaceOK, OutputOK, CountOK
<1>14. FailInv'
  BY <1>0, AtEntry, Bounds, SMTT(40) DEF TrailerSkipped, EndOfStream, Damage, Damaged, Available, Consume,
     Fatal, Stop, GoOn, Recoverable, FailInv, EntryInv, InBody, Reading, Writing, ControlOK,
     PlaceOK, OutputOK, CountOK
<1>15. OkInv'
  <2>1. \A x \in Names : result'[x] = "ok" => result[x] = "ok"
    BY <1>0 DEF TrailerSkipped, Fatal, GoOn, Recoverable, OutputOK
  <2>2. \A x \in Names : result[x] = "ok" /\ x[1] \notin damaged => x[1] \notin damaged'
    BY <1>0 DEF TrailerSkipped, EndOfStream, Damage, Damaged, SeenInv, Reading
  <2>3. UNCHANGED <<n, kind, op, tree, failed>> /\ (field' = "block" => field = "block")
    BY <1>0, Zenon DEF TrailerSkipped, EndOfStream, Consume
  <2>4. pc' \in {"done", "type", "special"} /\ (pc' = "special" => n \notin damaged')
    BY <1>0 DEF TrailerSkipped, Fatal, Stop, GoOn, Recoverable, OkInv, InBody
  <2> QED
    BY <2>1, <2>2, <2>3, <2>4 DEF OkInv, InBody
<1>16. TruncationNoticed'
  BY <1>0 DEF TrailerSkipped, EndOfStream, Damage, Damaged, Available, Consume, Fatal, Stop, GoOn,
     Recoverable, TruncationNoticed, EndInv, EntryInv, ControlOK, PlaceOK
<1> QED
  BY <1>1, <1>2, <1>3, <1>4, <1>5, <1>6, <1>7, <1>8, <1>9, <1>10, <1>11, <1>12, <1>13, <1>14, <1>15,
     <1>16

\* Only behind a trailer that matches does the entry go to the output.
LEMMA ReadTrailerKeeps ==
  ASSUME IInv, ReadTrailer
  PROVE  IInv'
<1> USE DEF IInv, stream, body
<1>0. TrailerRead
  BY ReadTrailerCases
<1>a. /\ UNCHANGED <<n, kind, size, mode, err, buf>>
      /\ pc = "trailer" /\ pc' \in {"done", "type", "publish", "members"} /\ field' \in {field, "type"}
  BY <1>0 DEF TrailerRead, EndOfStream, Damaged, Available, Consume, Fatal, Stop, GoOn, Recoverable, Succeeds
<1>b. Damage \/ damaged' = damaged
  BY <1>0, Zenon DEF TrailerRead, EndOfStream, Damaged
<1>1. ControlOK'
  BY <1>0, Zenon DEF TrailerRead, EndOfStream, Damage, Damaged, Available, Consume, Fatal, Stop, GoOn,
     Recoverable, Succeeds, ControlOK
<1>2. PlaceOK'
  BY <1>a DEF PlaceOK
<1>3. CountOK'
  BY <1>a, <1>b, DamageKeeps DEF CountOK, Reading
<1>4. TreeOK'
  BY <1>0, SMTT(40) DEF TrailerRead, EndOfStream, Damage, Damaged, Available, Consume, Fatal, Stop, GoOn,
     Recoverable, Succeeds, TreeOK
<1>5. OutputOK'
  BY <1>0, Bounds, AtEntry, SMTT(40) DEF TrailerRead, EndOfStream, Damage, Damaged, Available, Consume, Fatal,
     Stop, GoOn, Recoverable, Succeeds, OutputOK, TempInv, ControlOK, PlaceOK, EntryInv, Reading,
     Writing
<1>6. StreamAligned'
  BY <1>0, SMTT(40) DEF TrailerRead, EndOfStream, Damage, Damaged, Available, Consume, Fatal, Stop, GoOn,
     Recoverable, Succeeds, StreamAligned, ControlOK, PlaceOK, InBody, EntryInv
<1>7. EntryInv'
  BY <1>0, SMTT(40) DEF TrailerRead, EndOfStream, Damage, Damaged, Available, Consume, Fatal, Stop, GoOn,
     Recoverable, Succeeds, EntryInv, InBody, Reading, Writing, ControlOK, PlaceOK, CountOK, Entries
<1>8. TempInv'
  BY <1>0, SMTT(40) DEF TrailerRead, EndOfStream, Damage, Damaged, Available, Consume, Fatal, Stop, GoOn,
     Recoverable, Succeeds, TempInv, InBody, EntryInv, ControlOK, PlaceOK, NoTemp
<1>9. FreshInv'
  BY <1>a DEF FreshInv
<1>10. BodyInv'
  <2>1. pc' \in {"publish", "members"} => n \notin damaged' /\ buf = size[n]
    BY <1>0 DEF TrailerRead, EndOfStream, Available, Fatal, Stop, Recoverable, Succeeds, BodyInv, InBody
  <2> QED
    BY <1>a, <2>1 DEF BodyInv, InBody
<1>11. EndInv'
  <2>1. <<n, 1>> \in Names /\ n' = n
    BY <1>0, AtEntry DEF TrailerRead, EndOfStream, Damaged, Consume, EntryInv, InBody, Reading,
       ControlOK
  <2>2. CASE EndOfStream /\ Recoverable
    BY <2>1, <2>2 DEF Recoverable, EndInv, Writing, OutputOK
  <2>3. CASE pc' = "done" \/ (~eof /\ UNCHANGED eof /\ field' = "type")
    BY <2>3, SMTT(40) DEF EndInv, Writing
  <2> QED
    BY <1>0, <2>2, <2>3 DEF TrailerRead, Damaged, Available, Consume, Fatal, Stop
<1>12. TreeInv'
  BY <1>0, TreeKeeps DEF TrailerRead, EndOfStream, Damage, Damaged, Available, Consume, Fatal, Stop,
     GoOn, Recoverable, Succeeds, Reading
<1>13. SeenInv'
  <2>1. n \in Nat /\ <<n, 1>> \in Names /\ UNCHANGED <<n, kind>>
    BY <1>0, AtEntry, ZenonT(40) DEF TrailerRead, EndOfStream, Consume, Reading
  <2>2. \A x \in Names : x[1] = n => result[x] = "none"
    BY <1>0, ZenonT(40) DEF TrailerRead, SeenInv, Reading
  <2>3. CASE Recoverable \/ Succeeds \/ Fatal
    BY <1>0, <2>1, <2>3, NameParts, SMTT(40) DEF TrailerRead, Recoverable, Succeeds, Fatal, Stop, SeenInv,
       Reading, OutputOK
  <2>4. CASE GoOn("publish")
    BY <2>1, <2>2, <2>4 DEF GoOn, SeenInv
  <2>5. CASE GoOn("members") /\ member' = 1
    <3>1. \A x \in Names : x[2] >= 1
      BY NameParts
    <3> QED
      BY <2>1, <2>2, <2>5, <3>1 DEF GoOn, SeenInv, Reading
  <2>6. CASE pc' = "type" /\ \E m \in 1..MaxMembers :
               result' = [x \in Names |-> IF x[1] = n /\ x[2] <= m THEN "ok" ELSE result[x]]
    <3>1. PICK m \in 1..MaxMembers :
            result' = [x \in Names |-> IF x[1] = n /\ x[2] <= m THEN "ok" ELSE result[x]]
      BY <2>6
    <3>2. m \in Nat /\ 1 <= m /\ <<n, 1>>[1] = n /\ <<n, 1>>[2] = 1
      BY Bounds
    <3>3. result'[<<n, 1>>] = "ok"
      BY <2>1, <3>1, <3>2
    <3>4. \A x \in Names : x[1] # n => result'[x] = result[x]
      BY <3>1, SMTT(40)
    <3> QED
      BY <2>1, <2>6, <3>3, <3>4, NameParts DEF SeenInv, Reading
  <2> QED
    BY <1>0, <2>3, <2>4, <2>5, <2>6, ZenonT(40) DEF TrailerRead
<1>14. FailInv'
  <2>1. /\ UNCHANGED <<n, kind, failed>> /\ damaged \subseteq damaged'
        /\ pc' \in {"done", "type", "publish", "members"}
    BY <1>0 DEF TrailerRead, EndOfStream, Damage, Damaged, Consume, Fatal, Stop, GoOn, Recoverable,
       Succeeds
  <2>2. \A x \in Names : result'[x] = "err" =>
          result[x] = "err" \/ (x[1] = n /\ n \in damaged')
    <3>1. CASE Recoverable /\ Damage
      BY <1>0, <3>1 DEF TrailerRead, Recoverable, Damage, OutputOK
    <3>2. CASE Fatal \/ Succeeds \/ UNCHANGED result
      BY <3>2 DEF Fatal, Succeeds, OutputOK
    <3>3. CASE \E m \in 1..MaxMembers :
                 result' = [x \in Names |-> IF x[1] = n /\ x[2] <= m THEN "ok" ELSE result[x]]
      BY <3>3
    <3> QED
      BY <1>0, <3>1, <3>2, <3>3, Zenon DEF TrailerRead, EndOfStream, Damaged, GoOn
  <2>3. \A x \in failed : x[1] # n
    BY <1>0, Zenon DEF TrailerRead, FailInv, InBody
  <2> QED
    BY <2>1, <2>2, <2>3 DEF FailInv, InBody
<1>15. OkInv'
  BY <1>0, AtEntry, Bounds, ZenonT(30) DEF TrailerRead, EndOfStream, Damage, Damaged, Available, Consume, Fatal,
     Stop, GoOn, Recoverable, Succeeds, OkInv, BodyInv, SeenInv, FailInv, EntryInv, InBody, Reading,
     Writing, ControlOK, PlaceOK, OutputOK, CountOK
<1>16. TruncationNoticed'
  BY <1>0, Zenon DEF TrailerRead, EndOfStream, Damage, Damaged, Available, Consume, Fatal, Stop, GoOn,
     Recoverable, Succeeds, TruncationNoticed, EndInv, EntryInv, ControlOK, PlaceOK
<1> QED
  BY <1>1, <1>2, <1>3, <1>4, <1>5, <1>6, <1>7, <1>8, <1>9, <1>10, <1>11, <1>12, <1>13, <1>14, <1>15,
     <1>16

----------------------------------------------------------------------------
(* The invariant is inductive. *)

\* Before the first entry.
LEMMA InitIInv ==
  ASSUME Init
  PROVE  IInv
<1>1. 0 \in 0..MaxEntries /\ 0 \in 0..MaxBlocks /\ 1 \in 1..MaxMembers
  BY Bounds
<1>2. ControlOK /\ PlaceOK /\ CountOK /\ OutputOK
  BY <1>1, Zenon DEF Init, ControlOK, PlaceOK, CountOK, OutputOK
<1>3. TreeOK /\ TreeInv
  BY DEF Init, TreeOK, TreeInv, Contents, NoData, Sound
<1>4. StreamAligned /\ EntryInv /\ TempInv /\ FreshInv /\ BodyInv /\ EndInv /\ TruncationNoticed
  BY DEF Init, StreamAligned, EntryInv, TempInv, FreshInv, BodyInv, EndInv, TruncationNoticed,
     InBody, Reading, Writing
<1>5. SeenInv /\ FailInv /\ OkInv
  <2>1. \A x \in Names : x[1] > 0
    BY DEF Names, Entries
  <2>2. \A x \in Names : ~(x[1] < 0) /\ result[x] = "none"
    BY <2>1, NameParts DEF Init
  <2> QED
    BY <2>2 DEF Init, SeenInv, FailInv, OkInv, InBody, Reading, Writing
<1> QED
  BY <1>2, <1>3, <1>4, <1>5 DEF IInv

\* Every step keeps the invariant.
LEMMA NextIInv ==
  ASSUME IInv, [Next]_vars
  PROVE  IInv'
<1>1. CASE Next
  BY <1>1, TypeAtEndKeeps, NextEntryTypeKeeps, ReadEntryHeadKeeps, NewVerifiedFileKeeps,
     SkipPaddingKeeps, StreamDataBlocksKeeps, SkipDataBlocksKeeps, SkipTrailerKeeps,
     ReadTrailerKeeps, PublishKeeps, CreateMemberKeeps, WriteMemberKeeps, SpecialKeeps, KillKeeps
     DEF Next
<1>2. CASE UNCHANGED vars
  <2> USE <1>2 DEF vars, stream, body, IInv
  <2>1. ControlOK' /\ PlaceOK' /\ CountOK' /\ TreeOK' /\ OutputOK'
    BY DEF ControlOK, PlaceOK, CountOK, TreeOK, OutputOK
  <2>2. StreamAligned' /\ EntryInv' /\ TempInv'
    BY DEF StreamAligned, EntryInv, TempInv, InBody
  <2>5. FreshInv' /\ BodyInv'
    BY DEF FreshInv, BodyInv, InBody
  <2>3. TreeInv' /\ EndInv' /\ TruncationNoticed'
    BY Zenon DEF TreeInv, Sound, EndInv, TruncationNoticed
  <2>4. SeenInv' /\ FailInv'
    BY DEF SeenInv, FailInv, InBody
  <2>6. OkInv'
    BY DEF OkInv, InBody
  <2> QED
    BY <2>1, <2>2, <2>3, <2>4, <2>5, <2>6
<1> QED
  BY <1>1, <1>2

----------------------------------------------------------------------------
(* Theorems *)

\* The inductive invariant holds at every step of Extract and List.
THEOREM Invariant ==
  Spec => []IInv
  BY InitIInv, NextIInv, PTL DEF Spec

\* TypeOK: the reader's counters stay within their ranges and everything in the
\* output directory is the beginning of an entry of the archive, or was there.
THEOREM TypeCorrect ==
  Spec => []TypeOK
<1>1. ASSUME IInv PROVE TypeOK
  <2>1. damaged \subseteq Entries
    BY <1>1, Bounds DEF IInv, CountOK, Entries
  <2> QED
    BY <1>1, <2>1 DEF IInv, TypeOK, ControlOK, PlaceOK, CountOK, TreeOK, OutputOK, Contents
<1> QED
  BY <1>1, Invariant, PTL

\* StreamAligned: as long as the stream has not ended, the field the reader expects
\* is the one that comes next, whatever an entry failed with (readEntry,
\* skipEntryBody).
THEOREM KeepsPlace ==
  Spec => []StreamAligned
<1>1. IInv => StreamAligned
  BY DEF IInv
<1> QED
  BY <1>1, Invariant, PTL

\* OnlyVerifiedPublished: what stands under a name, at any moment and after a kill, is
\* what was there before, a link or directory, or all of an undamaged entry
\* (verifiedFile, extractSolidBody).
THEOREM PublishesOnlyVerified ==
  Spec => []OnlyVerifiedPublished
<1>1. IInv => OnlyVerifiedPublished
  BY DEF IInv, TreeInv, Sound, OnlyVerifiedPublished
<1> QED
  BY <1>1, Invariant, PTL

\* ResultsFaithful: every entry passed has a result, every reported failure has
\* its cause, and what is reported as extracted is undamaged and there.
THEOREM ReportsFaithfully ==
  Spec => []ResultsFaithful
<1>1. IInv => ResultsFaithful
  BY DEF IInv, SeenInv, FailInv, OkInv, ResultsFaithful
<1> QED
  BY <1>1, Invariant, PTL

\* TruncationNoticed: Extract and List return success on a stream that was cut
\* short only for version 1, and then with the entry it was cut in as failed.
THEOREM NoticesTruncation ==
  Spec => []TruncationNoticed
<1>1. IInv => TruncationNoticed
  BY DEF IInv
<1> QED
  BY <1>1, Invariant, PTL

\* NoTempLeft: the deferred discard leaves no temporary file behind an entry.
THEOREM LeavesNoTemp ==
  Spec => []NoTempLeft
<1>1. IInv => NoTempLeft
  BY DEF IInv, TempInv, InBody, NoTempLeft
<1> QED
  BY <1>1, Invariant, PTL
=============================================================================
