------------------------------ MODULE Archiving ------------------------------
(***************************************************************************)
(* Writing an archive, at the two grains it is modelled at: the archive    *)
(* command with all its files, where addFileStreaming is one step          *)
(* (ArchiveCommand), and the call that writes or reads the blocks of one   *)
(* entry (DataPipelines).  A behaviour is one of them; the state of the    *)
(* other stays as it starts.                                               *)
(***************************************************************************)
EXTENDS DataPipelines, ArchiveInputs

CONSTANTS
  SolidMemberMaxSize, MaxSolidStreamSize, InlineStreamThreshold, OverflowSize,
  MaxDirectorySize, ResultLookahead, Processors

VARIABLES
  grain,  \* "command" or "entry"
  inputs, solid, archive, aRet, jobs, dpc, next, slots, done, worker, result,
  wpc, at, got, spc, arg, todo, pending, special, logged, archiver, exit

A == INSTANCE ArchiveCommand WITH
  ConcurrentInputs <- MCConcurrentInputs, StreamingInputs <- MCStreamingInputs,
  ret <- aRet

ASSUME CommandAssumption == A!StreamAssumption /\ A!ArchiverAssumption

aVars == <<inputs, solid, archive, aRet, jobs, dpc, next, slots, done, worker, result,
           wpc, at, got, spc, arg, todo, pending, special, logged, archiver, exit>>
everything == <<grain, allVars, aVars>>

Start ==
  \/ grain = "command" /\ A!Init
     /\ chosen = "sequential" /\ pMapped = FALSE /\ dStream = <<>> /\ dEnd = "sentinel"
     /\ ChoosePipeline
  \/ grain = "entry" /\ ChoosePipeline
     /\ archiver = "concurrent" /\ inputs = <<Dir(1)>> /\ solid = FALSE /\ A!Init

Commanded(step) == grain = "command" /\ step /\ UNCHANGED <<grain, allVars>>
OneEntry(step) == grain = "entry" /\ step /\ UNCHANGED <<grain, aVars>>

Run == Commanded(A!Next) \/ OneEntry(Step)

\* While some goroutine can run, one does: less than the Go scheduler gives, and
\* enough, because nothing here goes on for ever.
ArchivingSpec == Start /\ [][Run]_everything /\ WF_everything(Run)

----------------------------------------------------------------------------
(* Properties: those of ArchiveCommand and ConcurrentArchiver, beside the   *)
(* ones that DataPipelines and EncryptPipeline state.                       *)

\* Entries are written in submission order whichever worker finishes first
\* (io/concurrent.go:53-54), the directories and links after every file.
EntriesInOrder == A!EntriesInOrder

\* However slow the writer is, the workers run no further ahead of it than the
\* window (docs/ARCHITECTURE.md:387).
InFlightBounded == A!InFlightBounded

\* Every input of a successful command is in exactly one whole entry or is
\* reported; one that went on after a fatal error stores nothing twice, and a
\* failed write is never followed by success (io/streaming.go:122-152,
\* io/concurrent.go:195-224, archive/writer.go:20-21).
NothingLost == A!NothingLost

\* Listing by the directory gives what a scan gives, name for name, and each
\* record points at the entry that holds the name (io/directory.go:163,
\* archive/directory.go:47-48).
ListingsAgree == A!ListingsAgree

\* A group's record stream stays within what readers accept, although its members
\* may grow after they were planned or queued (archive/solid.go:24-26).
GroupsReadable == A!GroupsReadable

\* The command ends and its dispatcher and workers with it, after a fatal error in
\* the middle of the run too (io/concurrent.go:117-144), and every call that writes
\* or reads the blocks of an entry returns and leaves no goroutine behind
\* (io/pipeline.go:247-249, io/decrypt_pipeline.go:56-57).  The exception in both is
\* a file encrypted without workers, which may be left waiting after a failed write
\* (io/pipeline.go:113-119, EncryptPipeline's Returns).
WindsDown == <>(IF grain = "command" THEN A!WoundDown ELSE Returned)
=============================================================================
