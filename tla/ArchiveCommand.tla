--------------------------- MODULE ArchiveCommand ---------------------------
(***************************************************************************)
(* runArchive (cmd/sarc/archive.go): the inputs go through the concurrent  *)
(* archiver or, with one worker, the streaming one, and the output is then *)
(* committed or given up.                                                  *)
(***************************************************************************)
EXTENDS ConcurrentArchiver, StreamingArchiver

CONSTANTS
  ConcurrentInputs, StreamingInputs  \* the inputs each archiver is run on

VARIABLES
  archiver,  \* "concurrent" or "streaming"
  exit       \* how the command ended: "none", "ok", "err"

vars == <<inputs, solid, archive, ret, concurrentVars, streamingVars, archiver, exit>>

Init ==
  /\ archiver \in {"concurrent", "streaming"}
  /\ inputs \in (IF archiver = "concurrent" THEN ConcurrentInputs ELSE StreamingInputs)
  /\ solid \in BOOLEAN
  /\ archive = NewArchive /\ ret = "none" /\ exit = "none"
  /\ IF archiver = "concurrent" THEN StartJobs
     ELSE /\ jobs = <<>> /\ next = 1 /\ dpc = "exit" /\ slots = 0 /\ done = TRUE
          /\ worker = [w \in Workers |-> Exited] /\ result = <<>>
          /\ wpc = "done" /\ at = 1 /\ got = NoResult
  /\ NewStreamingArchiver

Concurrently(step) == archiver = "concurrent" /\ step /\ UNCHANGED <<streamingVars, archiver, exit>>

StreamingSteps == archiver = "streaming" /\ Streaming /\ UNCHANGED <<concurrentVars, archiver, exit>>

\* finishOutput commits the output, which may fail; after an error closeOnError
\* gives it up.
FinishOutput ==
  /\ ret # "none" /\ exit = "none"
  /\ exit' \in (IF ret = "ok" THEN {"ok", "err"} ELSE {"err"})
  /\ UNCHANGED <<inputs, solid, archive, ret, concurrentVars, streamingVars, archiver>>

Next ==
  \/ Concurrently(Dispatcher) \/ Concurrently(Writer)
  \/ \E w \in Workers : Concurrently(Worker(w))
  \/ StreamingSteps \/ FinishOutput

\* While some goroutine can run, one does (the Go scheduler).
Spec == Init /\ [][Next]_vars /\ WF_vars(Next)

----------------------------------------------------------------------------
(* Properties *)

Names(s) == FlattenSeq([i \in DOMAIN EntriesOf(s) |-> EntriesOf(s)[i].holds])

\* Every input of a successful command is in exactly one whole entry or is
\* reported, never both and never neither: no file is lost between the plan, the
\* group it was queued for, the worker that read it and the writer
\* (io/streaming.go:122-152, io/concurrent.go:195-224).  An archive that went on
\* after a fatal error is excepted, see CommittedReadsBack: the rest of the argument
\* and the members of a group that could not be written are then missing and not
\* reported by name.  Even then no input is stored twice, and a failed write is
\* never followed by success (archive/writer.go:20-21).
NothingLost ==
  exit = "ok" =>
    LET names == Names(archive.stream)
    IN  /\ ~archive.broken
        /\ Len(names) = Cardinality(ToSet(names))
        /\ ~logged => /\ ToSet(names) = DOMAIN inputs \ archive.reported
                      /\ \A i \in DOMAIN archive.stream : archive.stream[i].whole

\* Listing by the directory gives what "scanning the entries would"
\* (io/directory.go:163), name for name, also when files failed, groups were
\* written in part or the directory was given up; and each record points at the
\* entry that holds the name (archive/directory.go:47-48).
ListingsAgree ==
  exit = "ok" /\ ~logged =>
    /\ ListRandom(archive.stream) = ScanList(archive.stream)
    /\ \A i \in DOMAIN archive.dir.recs :
         LET r == archive.dir.recs[i]
         IN  /\ r.offset < Len(archive.stream)
             /\ r.name \in ToSet(archive.stream[r.offset].holds)

\* A group's record stream stays within what readers accept, although its members
\* may grow after they were planned or queued (archive/solid.go:24-26).
GroupsReadable ==
  \A i \in DOMAIN archive.stream :
    archive.stream[i].type = "solid" => archive.stream[i].size \in 1..MaxSolidStreamSize

WoundDown ==
  \/ exit # "none" /\ dpc = "exit" /\ \A w \in Workers : worker[w] = Exited
  \/ "stuck" \in {wpc, spc}

\* The command ends and its dispatcher and workers with it, after a fatal error in
\* the middle of the run too (io/concurrent.go:117-144), unless a file that is
\* encrypted without workers is left waiting after a failed write
\* (io/pipeline.go:113-119), which EncryptPipeline's Returns is about.
WindsDown == <>WoundDown

\* A fatal error means "the archive cannot be processed further"
\* (io/errors.go:12): what a successful command leaves has no entry cut short.
CommittedReadsBack == exit = "ok" => ScanList(archive.stream) # NoListing
=============================================================================
