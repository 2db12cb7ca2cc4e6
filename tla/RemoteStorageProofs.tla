------------------------- MODULE RemoteStorageProofs -------------------------
(***************************************************************************)
(* For every bound, any number of parts and slots and any mix of faults:   *)
(* the command's answer about an upload is true, and an upload that was    *)
(* not excused leaves nothing in the store.                                *)
(***************************************************************************)
EXTENDS ArchiveOutput, TLAPS

Cleared == ~server.open /\ server.parts = {}

\* What is known of the writer: which fields it has; only S3 splits an archive
\* into parts; parts are under way only between the request that starts the
\* upload and the wait that ends it.
WriterInv ==
  /\ "multipart" \in DOMAIN w
  /\ upc = "flush" => backend = "s3"
  /\ w.multipart => backend = "s3"
  /\ upc = "slot" => w.multipart
  /\ upc = "put" => ~w.multipart
  /\ ~w.multipart => flight = {}
  /\ upc \in {"idle", "complete", "abort"} => flight = {}

\* A writer without an upload ID has nothing in the store, unless the reply that
\* held the ID was lost.
StoreInv ==
  (upc # "idle" /\ ~w.multipart /\ "lost ID" \notin excused) => Cleared

\* While a writer is at work its archive is not in place, unless a reply was lost.
PlaceInv ==
  (upc # "idle" /\ "lost reply" \notin excused) => object.version # upload

\* What stands under the key came from this upload or an earlier one.
VersionInv ==
  upload \in Nat /\ object.version \in Nat /\ object.version <= upload

UploadInv == WriterInv /\ StoreInv /\ PlaceInv /\ VersionInv /\ NoUploadLeft /\ AnswerTrue

----------------------------------------------------------------------------

LEMMA NoWriterFacts == "multipart" \in DOMAIN NoWriter /\ ~NoWriter.multipart
  BY DEF NoWriter

LEMMA ClosedFacts ==
  ASSUME NEW s, s = [open |-> FALSE, parts |-> {}]
  PROVE  ~s.open /\ s.parts = {}
  OBVIOUS

LEMMA ObjectFacts ==
  ASSUME NEW o, NEW v, NEW d, o = [version |-> v, data |-> d]
  PROVE  o.version = v
  OBVIOUS

\* The one place for arithmetic: a new upload has a new number, and what it puts
\* in place is at most its own.
LEMMA VersionKeeps ==
  ASSUME VersionInv
  PROVE  /\ (upload' = upload + 1 /\ object' = object) => VersionInv' /\ object'.version # upload'
         /\ (upload' = upload /\ object'.version = upload) => VersionInv'
         /\ (upload' = upload /\ object' = object) => VersionInv'
  BY DEF VersionInv

LEMMA InitUpload == RemoteInit => UploadInv
<1> SUFFICES ASSUME RemoteInit PROVE UploadInv
  OBVIOUS
<1>1. VersionInv
  BY DEF RemoteInit, VersionInv, NoObject
<1>2. WriterInv /\ StoreInv /\ PlaceInv /\ NoUploadLeft /\ AnswerTrue
  BY NoWriterFacts, ClosedFacts
     DEF RemoteInit, WriterInv, StoreInv, PlaceInv, NoUploadLeft, AnswerTrue, Cleared
<1> QED
  BY <1>1, <1>2 DEF UploadInv

\* The writer takes units and splits them into parts.
LEMMA WritingKeeps ==
  ASSUME UploadInv, CreateObject \/ WriteUnit \/ TakePart \/ SendPart \/ CloseObject
  PROVE  UploadInv'
<1> USE NoWriterFacts, VersionKeeps DEF UploadInv, WriterInv, StoreInv, PlaceInv, NoUploadLeft, AnswerTrue, Cleared
<1>1. CASE CreateObject
  <2>1. Cleared'
    BY <1>1, ClosedFacts DEF CreateObject
  <2>2. VersionInv' /\ object'.version # upload'
    BY <1>1, VersionKeeps DEF CreateObject
  <2> QED
    BY <1>1, <2>1, <2>2 DEF CreateObject
<1>2. CASE WriteUnit
  BY <1>2 DEF WriteUnit
<1>3. CASE TakePart
  BY <1>3 DEF TakePart
<1>4. CASE SendPart
  BY <1>4 DEF SendPart, FlushError
<1>5. CASE CloseObject
  BY <1>5 DEF CloseObject
<1> QED
  BY <1>1, <1>2, <1>3, <1>4, <1>5

\* The upload is started, its parts arrive or fail.
LEMMA PartsKeep ==
  ASSUME UploadInv, StartUpload \/ WaitParts \/ \E p \in flight : PartDone(p) \/ PartFails(p)
  PROVE  UploadInv'
<1> USE NoWriterFacts, VersionKeeps DEF UploadInv, WriterInv, StoreInv, PlaceInv, NoUploadLeft, AnswerTrue, Cleared
<1>1. CASE StartUpload
  BY <1>1 DEF StartUpload, FlushError
<1>2. CASE WaitParts
  BY <1>2 DEF WaitParts
<1>3. CASE \E p \in flight : PartDone(p) \/ PartFails(p)
  <2>1. PICK p \in flight : PartDone(p) \/ PartFails(p)
    BY <1>3
  <2>2. w.multipart /\ upc \notin {"idle", "complete", "abort"}
    BY <2>1
  <2>3. CASE PartDone(p)
    BY <2>2, <2>3 DEF PartDone
  <2>4. CASE PartFails(p)
    BY <2>2, <2>4 DEF PartFails
  <2> QED
    BY <2>1, <2>3, <2>4
<1> QED
  BY <1>1, <1>2, <1>3

\* The object is put in place.
LEMMA CommittingKeeps ==
  ASSUME UploadInv, PutObject \/ CommitStream \/ CommitFile \/ CompleteUpload
  PROVE  UploadInv'
<1> USE NoWriterFacts, VersionKeeps DEF UploadInv, WriterInv, StoreInv, PlaceInv, NoUploadLeft, AnswerTrue, Cleared, Return
<1>1. ASSUME upc = "put", UNCHANGED <<upload, flight, server, backend>>, upc' = "idle", w' = NoWriter,
             \/ object'.version = upload /\ uret' = "ok" /\ UNCHANGED excused
             \/ object' = object /\ uret' = "err" /\ UNCHANGED excused
             \/ object'.version = upload /\ uret' = "err" /\ excused' = excused \union {"lost reply"}
      PROVE  UploadInv'
  <2>1. VersionInv'
    BY <1>1
  <2>2. WriterInv' /\ StoreInv' /\ PlaceInv'
    BY <1>1
  <2>3. NoUploadLeft'
    <3>1. Cleared \/ "lost ID" \in excused
      BY <1>1
    <3>2. excused \subseteq excused' /\ server' = server
      BY <1>1
    <3> HIDE DEF UploadInv
    <3> QED
      BY <3>1, <3>2
  <2>4. AnswerTrue'
    BY <1>1
  <2> QED
    BY <2>1, <2>2, <2>3, <2>4
<1>2. CASE PutObject
  BY <1>1, <1>2, ObjectFacts DEF PutObject, CreatingRequest
<1>3. CASE CommitStream
  BY <1>1, <1>3, ObjectFacts DEF CommitStream, CreatingRequest
<1>4. CASE CommitFile
  BY <1>1, <1>4, ObjectFacts DEF CommitFile
<1>5. CASE CompleteUpload
  <2>1. CASE object' = [version |-> upload, data |-> Joined] /\ server' = [open |-> FALSE, parts |-> {}]
    <3>1. object'.version = upload /\ Cleared'
      BY <2>1, ObjectFacts, ClosedFacts
    <3> QED
      BY <1>5, <3>1 DEF CompleteUpload
  <2>2. CASE upc' = "abort" /\ UNCHANGED <<object, w, server, uret, excused>>
    BY <1>5, <2>2 DEF CompleteUpload
  <2> QED
    BY <1>5, <2>1, <2>2 DEF CompleteUpload
<1> QED
  BY <1>2, <1>3, <1>4, <1>5

\* The upload is given up, interrupted or killed.
LEMMA StoppingKeeps ==
  ASSUME UploadInv,
         \/ ArchiverFails \/ StopUpload \/ Drained \/ AbortUpload \/ DiscardWriter
         \/ Interrupt \/ KillUpload
  PROVE  UploadInv'
<1> USE NoWriterFacts, VersionKeeps DEF UploadInv, WriterInv, StoreInv, PlaceInv, NoUploadLeft, AnswerTrue, Cleared, Return
<1>1. CASE ArchiverFails
  BY <1>1 DEF ArchiverFails
<1>2. CASE StopUpload
  BY <1>2 DEF StopUpload
<1>3. CASE Drained
  BY <1>3 DEF Drained
<1>4. CASE AbortUpload
  <2>1. CASE server' = [open |-> FALSE, parts |-> {}]
    <3>1. Cleared'
      BY <2>1, ClosedFacts
    <3> QED
      BY <1>4, <2>1, <3>1 DEF AbortUpload
  <2>2. CASE excused' = excused \union {"abort failed"}
    <3>1. NoUploadLeft'
      BY <2>2
    <3> QED
      BY <1>4, <2>2, <3>1 DEF AbortUpload
  <2> QED
    BY <1>4, <2>1, <2>2 DEF AbortUpload
<1>5. CASE DiscardWriter
  BY <1>5 DEF DiscardWriter
<1>6. CASE Interrupt
  BY <1>6 DEF Interrupt
<1>7. CASE KillUpload
  BY <1>7 DEF KillUpload
<1> QED
  BY <1>1, <1>2, <1>3, <1>4, <1>5, <1>6, <1>7

\* Reading changes nothing the upload is about.
LEMMA UnchangedKeeps ==
  ASSUME UploadInv, UNCHANGED <<backend, uploadVars>>
  PROVE  UploadInv'
  BY VersionKeeps DEF uploadVars, UploadInv, WriterInv, StoreInv, PlaceInv, NoUploadLeft, AnswerTrue, Cleared

LEMMA RemoteKeeps ==
  ASSUME UploadInv, RemoteNext
  PROVE  UploadInv'
<1>1. CASE CreateObject \/ WriteUnit \/ TakePart \/ SendPart \/ CloseObject
  BY <1>1, WritingKeeps
<1>2. CASE StartUpload \/ WaitParts \/ \E p \in flight : PartDone(p) \/ PartFails(p)
  BY <1>2, PartsKeep
<1>3. CASE PutObject \/ CommitStream \/ CommitFile \/ CompleteUpload
  BY <1>3, CommittingKeeps
<1>4. CASE \/ ArchiverFails \/ StopUpload \/ Drained \/ AbortUpload \/ DiscardWriter
           \/ Interrupt \/ KillUpload
  BY <1>4, StoppingKeeps
<1>5. CASE OpenObject \/ ReadStep
  <2>1. UNCHANGED <<backend, uploadVars>>
    BY <1>5 DEF OpenObject, ReadStep, NewRangeReader, ReadBody, ReadEof
  <2> QED
    BY <2>1, UnchangedKeeps
<1> QED
  BY <1>1, <1>2, <1>3, <1>4, <1>5 DEF RemoteNext, UploadStep

----------------------------------------------------------------------------

\* Every output satisfies the invariant of uploads; one to volumes changes nothing
\* of it.
THEOREM UploadInvariant == OutputSpec => []UploadInv
<1>1. CreateArchiveOutput => UploadInv
  BY InitUpload DEF CreateArchiveOutput
<1>2. UploadInv /\ [OutputNext]_outputVars => UploadInv'
  <2> SUFFICES ASSUME UploadInv, [OutputNext]_outputVars PROVE UploadInv'
    OBVIOUS
  <2>1. CASE RemoteNext
    BY <2>1, RemoteKeeps
  <2>2. CASE UNCHANGED remoteVars
    BY <2>2, UnchangedKeeps DEF remoteVars
  <2> QED
    BY <2>1, <2>2 DEF OutputNext, outputVars
<1> QED
  BY <1>1, <1>2, PTL DEF OutputSpec

\* The command's answer is true: success means the new archive is in place, a
\* failure that the old one is, unless the store's reply was lost (Close and Abort
\* of storage/s3, azblob, gcs and local; closeOnError of cmd/sarc/stdio.go).
THEOREM AnswersTruly == OutputSpec => []AnswerTrue
<1>1. UploadInv => AnswerTrue
  BY DEF UploadInv
<1> QED
  BY <1>1, UploadInvariant, PTL

\* Once the command has returned, no unfinished upload and no part of one is left
\* in the store, unless it was killed, the upload's ID was lost or the request that
\* discards it failed (abortUpload of storage/s3/s3.go).
THEOREM LeavesNoUpload == OutputSpec => []NoUploadLeft
<1>1. UploadInv => NoUploadLeft
  BY DEF UploadInv
<1> QED
  BY <1>1, UploadInvariant, PTL
=============================================================================
