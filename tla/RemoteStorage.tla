---------------------------- MODULE RemoteStorage ----------------------------
(***************************************************************************)
(* Archives in storage backends (storage/, cmd/sarc/stdio.go): a Writer    *)
(* uploads an object that appears only when Close commits it, in S3 as     *)
(* parts uploaded concurrently, while a rangeReader reads a version of it, *)
(* reopening it where a response broke off.  Requests may fail, or take    *)
(* effect and lose their reply; the command may be interrupted or killed.  *)
(* Unit k of upload v is <<v, k>>.                                         *)
(***************************************************************************)
EXTENDS Naturals, Sequences, SequencesExt, FiniteSets, FiniteSetsExt

CONSTANTS
  ArchiveUnits,        \* bound on the units of an archive
  FirstPart, MaxPart,  \* the backend's partSize, maxPartSize, in units
  GrowEvery,           \* partGrowthInterval
  MaxParts,            \* maxParts
  UploadSlots,         \* uploadConcurrency
  MaxUploads,          \* bound on the uploads
  MaxResumes,          \* maxConsecutiveResumes
  StoreFaults          \* subset of {"request", "reply", "signal", "kill"}

ASSUME RemoteAssumption ==
  /\ {FirstPart, MaxPart, GrowEvery, MaxParts, UploadSlots} \subseteq Nat \ {0}
  /\ {ArchiveUnits, MaxUploads, MaxResumes} \subseteq Nat
  /\ StoreFaults \subseteq {"request", "reply", "signal", "kill"}

Backends == {"s3", "stream", "file"}   \* "stream": azblob and gcs
NoObject == [version |-> 0, data |-> <<>>]
NoPart == [number |-> 0, data |-> <<>>]

NoWriter == [taken |-> 0, buf |-> <<>>, part |-> NoPart, multipart |-> FALSE, nextPart |-> 0,
             parts |-> <<>>, err |-> FALSE, canceled |-> FALSE, failing |-> FALSE]
NoDownload == [state |-> "none", version |-> 0, from |-> 0, off |-> 0, end |-> 0, body |-> <<>>,
               got |-> <<>>, resumes |-> 0]

VARIABLES
  backend,
  object,     \* what stands under the key
  upload,     \* the number of the current upload
  total,      \* the units of each upload whose output was closed: <<n>>, or <<>>
  upc,        \* the writer: "idle", "write", "flush", "slot", "put", "wait",
              \* "complete", "stop", "drain", "abort"
  w,          \* its fields: units taken, buf, the part waiting for a slot, whether it has
              \* an upload ID, nextPart, parts (acknowledged, in that order), err # nil,
              \* whether its context is done, whether Close has met an error
  flight,     \* the parts being uploaded
  server,     \* the store: whether an upload exists, the parts it holds
  uret,       \* what the command returned: "none", "ok", "err"
  excused,    \* mishaps that may leave an upload, or make the answer wrong
  rd          \* a reader: the version Open saw, the rangeReader's fields, the units
              \* returned; state is "none", "open", "body", "done" or "err"

uploadVars == <<object, upload, total, upc, w, flight, server, uret, excused>>
remoteVars == <<backend, uploadVars, rd>>

----------------------------------------------------------------------------
(* The writer *)

\* partSize: doubles every GrowEvery parts up to MaxPart.
PartSize(n) == Min({FirstPart * 2 ^ ((n - 1) \div GrowEvery), MaxPart})

CreateObject ==
  /\ upc = "idle" /\ upload < MaxUploads
  /\ upload' = upload + 1 /\ upc' = "write" /\ w' = NoWriter /\ flight' = {}
  /\ server' = [open |-> FALSE, parts |-> {}] /\ uret' = "none" /\ excused' = {}
  /\ UNCHANGED <<object, total, backend, rd>>

\* Write, one unit: an upload error stops it, a full part is flushed.
WriteUnit ==
  /\ upc = "write" /\ w.taken < ArchiveUnits
  /\ IF w.err
       THEN upc' = "stop" /\ UNCHANGED w
       ELSE /\ w' = [w EXCEPT !.taken = @ + 1, !.buf = Append(@, <<upload, w.taken + 1>>)]
            /\ upc' = IF backend = "s3" /\ Len(w'.buf) = PartSize(w.nextPart + 1) THEN "flush" ELSE "write"
  /\ UNCHANGED <<object, upload, total, flight, server, uret, excused, backend, rd>>

Closing == total[upload] # <<>>

\* flushPart returns an error: Write passes it on and the command aborts, Close
\* keeps it and waits for the parts in flight.
FlushError == upc' = (IF Closing THEN "wait" ELSE "stop") /\ w' = [w EXCEPT !.failing = TRUE, !.part = NoPart]

\* The first part starts the upload.
StartUpload ==
  /\ upc = "flush" /\ ~w.multipart
  /\ \/ /\ w' = [w EXCEPT !.multipart = TRUE]
        /\ server' = [server EXCEPT !.open = TRUE]
        /\ UNCHANGED <<upc, excused>>
     \/ /\ "request" \in StoreFaults
        /\ FlushError
        /\ UNCHANGED <<server, excused>>
     \/ /\ "reply" \in StoreFaults
        /\ FlushError
        /\ server' = [server EXCEPT !.open = TRUE]
        /\ excused' = excused \union {"lost ID"}
  /\ UNCHANGED <<object, upload, total, flight, uret, backend, rd>>

\* The buffered part is taken, unless the store's limit on parts is reached; an
\* empty buffer for the next part is allocated at once, before the wait for a slot.
TakePart ==
  /\ upc = "flush" /\ w.multipart
  /\ IF w.nextPart >= MaxParts
       THEN upc' = (IF Closing THEN "wait" ELSE "stop")
            /\ w' = [w EXCEPT !.failing = TRUE, !.nextPart = @ + 1]
       ELSE upc' = "slot"
            /\ w' = [w EXCEPT !.nextPart = @ + 1, !.buf = <<>>,
                              !.part = [number |-> w.nextPart + 1, data |-> w.buf]]
  /\ UNCHANGED <<object, upload, total, flight, server, uret, excused, backend, rd>>

\* A slot is free, or the context is done; with both, either may be chosen.
SendPart ==
  /\ upc = "slot"
  /\ \/ /\ Cardinality(flight) < UploadSlots
        /\ flight' = flight \union {w.part}
        /\ w' = [w EXCEPT !.part = NoPart]
        /\ upc' = IF Closing THEN "wait" ELSE "write"
     \/ /\ w.canceled
        /\ FlushError
        /\ UNCHANGED flight
  /\ UNCHANGED <<object, upload, total, server, uret, excused, backend, rd>>

PartDone(p) ==
  /\ flight' = flight \ {p}
  /\ server' = [server EXCEPT !.parts = @ \union {p}]
  /\ w' = [w EXCEPT !.parts = Append(@, p.number)]
  /\ UNCHANGED <<object, upload, total, upc, uret, excused, backend, rd>>

\* A part that fails, or is canceled, cancels the others; it may have arrived.  (The
\* store is taken to be done with a canceled request before it answers the one that
\* discards the upload.)
PartFails(p) ==
  /\ w.canceled \/ StoreFaults \intersect {"request", "reply"} # {}
  /\ flight' = flight \ {p}
  /\ w' = [w EXCEPT !.err = TRUE, !.canceled = TRUE]
  /\ server' \in {server, [server EXCEPT !.parts = @ \union {p}]}
  /\ UNCHANGED <<object, upload, total, upc, uret, excused, backend, rd>>

\* The archiver is done and the output is closed: what was never split into parts
\* is put whole, otherwise the rest is the last part.
CloseObject ==
  /\ upc = "write"
  /\ total' = [total EXCEPT ![upload] = <<w.taken>>]
  /\ upc' = CASE backend # "s3" \/ ~w.multipart -> "put"
              [] backend = "s3" /\ w.multipart /\ w.buf # <<>> -> "flush"
              [] OTHER -> "wait"
  /\ UNCHANGED <<object, upload, w, flight, server, uret, excused, backend, rd>>

\* The command ends, and with it the writer.
Return(r) == upc' = "idle" /\ uret' = r /\ w' = NoWriter

\* A mutant: the error of the single request is dropped.
PutObject_ErrorDropped ==
  /\ upc = "put" /\ backend = "s3"
  /\ Return("ok") /\ UNCHANGED excused
  /\ \/ object' = [version |-> upload, data |-> w.buf]
     \/ "request" \in StoreFaults /\ UNCHANGED object
  /\ UNCHANGED <<upload, total, flight, server, backend, rd>>

\* A request that creates the object: all or nothing, though its reply may be lost.
CreatingRequest ==
  \/ /\ ~w.canceled
     /\ object' = [version |-> upload, data |-> w.buf]
     /\ Return("ok") /\ UNCHANGED excused
  \/ /\ "request" \in StoreFaults \/ w.canceled
     /\ Return("err") /\ UNCHANGED <<object, excused>>
  \/ /\ "reply" \in StoreFaults
     /\ object' = [version |-> upload, data |-> w.buf]
     /\ excused' = excused \union {"lost reply"}
     /\ Return("err")

\* What was never split into parts is put in one request.
PutObject ==
  /\ upc = "put" /\ backend = "s3" /\ CreatingRequest
  /\ UNCHANGED <<upload, total, flight, server, backend, rd>>

\* azblob's UploadStream meets the end of the pipe and commits the block list, gcs's
\* Close finalizes the upload.
CommitStream ==
  /\ upc = "put" /\ backend = "stream" /\ CreatingRequest
  /\ UNCHANGED <<upload, total, flight, server, backend, rd>>

\* The temporary file is synced, closed and renamed, or removed; no context is asked.
CommitFile ==
  /\ upc = "put" /\ backend = "file"
  /\ \/ object' = [version |-> upload, data |-> w.buf] /\ Return("ok")
     \/ "request" \in StoreFaults /\ Return("err") /\ UNCHANGED object
  /\ UNCHANGED <<upload, total, flight, server, excused, backend, rd>>

\* A mutant: Close waits until every part is acknowledged.
WaitParts_AllAcknowledged ==
  /\ upc = "wait" /\ Len(w.parts) = w.nextPart
  /\ upc' = IF w.failing \/ w.err THEN "abort" ELSE "complete"
  /\ UNCHANGED <<object, upload, total, w, flight, server, uret, excused, backend, rd>>

\* Close waits for the parts in flight, then completes the upload or discards it.
WaitParts ==
  /\ upc = "wait" /\ flight = {}
  /\ upc' = IF w.failing \/ w.err THEN "abort" ELSE "complete"
  /\ UNCHANGED <<object, upload, total, w, flight, server, uret, excused, backend, rd>>

\* A mutant: the parts as they were acknowledged.
PartList_Unsorted == w.parts

\* The parts CompleteMultipartUpload is given, sorted by number.
PartList == SortSeq(w.parts, LAMBDA a, b : a < b)

\* The store joins the parts in the order of the list.
Joined == FlattenSeq([i \in DOMAIN PartList |-> (CHOOSE p \in server.parts : p.number = PartList[i]).data])

CompleteUpload ==
  /\ upc = "complete"
  /\ \/ /\ ~w.canceled
        /\ object' = [version |-> upload, data |-> Joined]
        /\ server' = [open |-> FALSE, parts |-> {}]
        /\ Return("ok") /\ UNCHANGED excused
     \/ /\ "request" \in StoreFaults \/ w.canceled
        /\ upc' = "abort" /\ UNCHANGED <<object, w, server, uret, excused>>
     \/ /\ "reply" \in StoreFaults
        /\ object' = [version |-> upload, data |-> Joined]
        /\ server' = [open |-> FALSE, parts |-> {}]
        /\ excused' = excused \union {"lost reply"}
        /\ upc' = "abort" /\ UNCHANGED <<w, uret>>
  /\ UNCHANGED <<upload, total, flight, backend, rd>>

\* The archiver fails, or the write to a pipe or file does: the command stops.
ArchiverFails ==
  /\ upc = "write" /\ upc' = "stop"
  /\ UNCHANGED <<object, upload, total, w, flight, server, uret, excused, backend, rd>>

\* closeOnError: Abort cancels the parts in flight and waits for them.
StopUpload ==
  /\ upc = "stop" /\ upc' = "drain"
  /\ w' = [w EXCEPT !.canceled = TRUE]
  /\ UNCHANGED <<object, upload, total, flight, server, uret, excused, backend, rd>>

\* A mutant: Abort does not wait for the parts in flight.
Drained_NoWait ==
  /\ upc = "drain"
  /\ upc' = "abort"
  /\ UNCHANGED <<object, upload, total, w, flight, server, uret, excused, backend, rd>>

Drained ==
  /\ upc = "drain" /\ flight = {}
  /\ upc' = "abort"
  /\ UNCHANGED <<object, upload, total, w, flight, server, uret, excused, backend, rd>>

\* abortUpload: the upload and its parts go, unless the request fails.
AbortUpload ==
  /\ upc = "abort" /\ w.multipart /\ Return("err")
  /\ \/ server' = [open |-> FALSE, parts |-> {}] /\ UNCHANGED excused
     \/ "request" \in StoreFaults /\ excused' = excused \union {"abort failed"} /\ UNCHANGED server
  /\ UNCHANGED <<object, upload, total, flight, backend, rd>>

\* The other writers, and one that started no upload, have nothing to discard that
\* could ever appear: blocks never committed, a temporary file.
DiscardWriter ==
  /\ upc = "abort" /\ ~w.multipart /\ Return("err")
  /\ UNCHANGED <<object, upload, total, flight, server, excused, backend, rd>>

\* The first signal ends the command's context.
Interrupt ==
  /\ upc # "idle" /\ ~w.canceled /\ "signal" \in StoreFaults
  /\ w' = [w EXCEPT !.canceled = TRUE]
  /\ UNCHANGED <<object, upload, total, upc, flight, server, uret, excused, backend, rd>>

\* A second signal, or a crash: the process is gone, the store keeps what it has.
KillUpload ==
  /\ upc # "idle" /\ "kill" \in StoreFaults
  /\ Return("none") /\ excused' = excused \union {"killed"}
  /\ flight' = {}
  /\ UNCHANGED <<object, upload, total, server, backend, rd>>

UploadStep ==
  \/ WriteUnit \/ StartUpload \/ TakePart \/ SendPart \/ CloseObject
  \/ PutObject \/ CommitStream \/ CommitFile \/ WaitParts \/ CompleteUpload \/ StopUpload
  \/ Drained \/ AbortUpload \/ DiscardWriter
  \/ \E p \in flight : PartDone(p) \/ PartFails(p)

----------------------------------------------------------------------------
(* The reader *)

\* Open, then NewReader over the object or ReadAt over a range of it.
OpenObject ==
  /\ rd.state = "none" /\ object # NoObject
  /\ \E lo \in 0..Len(object.data) : \E hi \in lo..Len(object.data) :
       rd' = [NoDownload EXCEPT !.state = "open", !.version = object.version, !.from = lo, !.off = lo, !.end = hi]
  /\ UNCHANGED <<backend, uploadVars>>

\* A mutant: the attempts are not counted.
Backoff_Endless == rd' = [rd EXCEPT !.state = "open", !.body = <<>>]

\* backoff: reopened later, unless MaxResumes attempts in a row brought nothing.
Backoff ==
  rd' = [rd EXCEPT !.state = IF rd.resumes >= MaxResumes THEN "err" ELSE "open",
                 !.resumes = @ + 1, !.body = <<>>]

\* A mutant: the range is read of whatever stands under the key.
NewRangeReader_Unpinned ==
  /\ rd.state = "open" /\ rd.off < rd.end
  /\ \/ rd' = [rd EXCEPT !.state = "body", !.body = object.data]
     \/ "request" \in StoreFaults /\ Backoff
  /\ UNCHANGED <<backend, uploadVars>>

\* The version that Open saw is gone: If-Match fails, the generation is not found.
ObjectChanged == object.version # rd.version

\* A range of the version that Open saw; a replaced object fails for good.
RangeOfVersion ==
  \/ ObjectChanged /\ rd' = [rd EXCEPT !.state = "err"]
  \/ ~ObjectChanged /\ rd' = [rd EXCEPT !.state = "body", !.body = object.data]

\* A local file carries no version: it is read as it is.
RangeOfFile == rd' = [rd EXCEPT !.state = "body", !.body = object.data]

NewRangeReader ==
  /\ rd.state = "open" /\ rd.off < rd.end
  /\ \/ backend # "file" /\ RangeOfVersion
     \/ backend = "file" /\ RangeOfFile
     \/ "request" \in StoreFaults /\ Backoff
  /\ UNCHANGED <<backend, uploadVars>>

\* A response gives a unit, and may break off with it; it may break off, or end
\* early, without one.
ReadBody ==
  /\ rd.state = "body"
  /\ \/ /\ rd.off < Len(rd.body)
        /\ \E broken \in {FALSE} \union {"request" \in StoreFaults} :
             rd' = [rd EXCEPT !.got = Append(@, rd.body[rd.off + 1]), !.off = @ + 1, !.resumes = 0,
                            !.state = IF broken \/ rd.off + 1 = rd.end THEN "open" ELSE "body",
                            !.body = IF broken \/ rd.off + 1 = rd.end THEN <<>> ELSE @]
     \/ /\ rd.off >= Len(rd.body) \/ "request" \in StoreFaults
        /\ Backoff
  /\ UNCHANGED <<backend, uploadVars>>

\* The range has been read: io.EOF.
ReadEof ==
  /\ rd.state = "open" /\ rd.off = rd.end
  /\ rd' = [rd EXCEPT !.state = "done"]
  /\ UNCHANGED <<backend, uploadVars>>

ReadStep == NewRangeReader \/ ReadBody \/ ReadEof

----------------------------------------------------------------------------

RemoteInit ==
  /\ backend \in Backends
  /\ object = NoObject /\ upload = 0 /\ total = [v \in 1..MaxUploads |-> <<>>]
  /\ upc = "idle" /\ w = NoWriter /\ flight = {} /\ server = [open |-> FALSE, parts |-> {}]
  /\ uret = "none" /\ excused = {} /\ rd = NoDownload

RemoteNext ==
  \/ CreateObject \/ UploadStep \/ ArchiverFails \/ Interrupt \/ KillUpload
  \/ OpenObject \/ ReadStep

----------------------------------------------------------------------------
(* Properties *)

UnitsOf(v) == [k \in 1..total[v][1] |-> <<v, k>>]

\* "Nothing appears under key until the Writer is closed successfully"
\* (storage/storage.go:21): what stands under the key is always the whole archive
\* of an upload whose output was closed, its parts in order, whatever parts
\* failed, overtook one another or were canceled.
ObjectWhole ==
  object # NoObject => total[object.version] # <<>> /\ object.data = UnitsOf(object.version)

\* "Abort, or any failure, discards its parts" (storage/s3/s3.go:110): once the
\* command has returned, the store holds no unfinished upload and no part of one,
\* unless it was killed, or the reply that names the upload or the request that
\* discards it was lost.
NoUploadLeft ==
  (upc = "idle" /\ excused \subseteq {"lost reply"}) => ~server.open /\ server.parts = {}

\* The command's answer is true: success means the new archive is in place, and a
\* failure, unless the store's reply was lost, that the old one still is.
AnswerTrue ==
  upc = "idle" =>
    /\ uret = "ok" => object.version = upload
    /\ (uret = "err" /\ "lost reply" \notin excused) => object.version # upload

\* The buffers of a part's size: one for each part under way, the part that waits
\* for a slot, and the buffer being filled, which is never without one.
PartBuffers == Cardinality(flight) + (IF w.part = NoPart THEN 0 ELSE 1) + 1

\* "memory is bounded by (uploadConcurrency+1) parts" (storage/s3/s3.go:45-46).
PartsBounded == backend = "s3" /\ upc # "idle" => PartBuffers <= UploadSlots + 1

\* "a reader never mixes versions" (storage/storage.go:38): what a reader returns is
\* the range it asked for of the version that Open saw, from its start and without
\* a gap or repetition, however often it was reopened and whenever the object was
\* replaced.  (Local files carry no version: storage/local/local.go:89.)
OneVersionRead ==
  (rd.state # "none" /\ backend # "file") =>
    /\ rd.got = SubSeq(UnitsOf(rd.version), rd.from + 1, rd.off)
    /\ rd.state = "done" => rd.off = rd.end

\* Every transfer ends: the writer does not wait for a slot, a part or itself for
\* ever (storage/s3/s3.go:189-193), and a reader comes to the end or to an error
\* though responses may break off at any unit, because attempts without progress
\* are bounded (storage/reader.go:83-97).
TransfersEnd ==
  /\ []<>(upc = "idle")
  /\ []<>(rd.state \in {"none", "done", "err"})
=============================================================================
