----------------------------- MODULE Extraction -----------------------------
(***************************************************************************)
(* Extract and List of a SafeExtractor turn on the header: an incremental  *)
(* archive goes to extractIncremental (IncrementalBackup, which also       *)
(* writes it), any other is read as a stream (Extractor).  A behaviour is  *)
(* about an archive of one kind; the state of the other model stays as it  *)
(* starts.                                                                 *)
(***************************************************************************)
EXTENDS Extractor

CONSTANTS
  NumNames, Inner, Contents, MinChunk, MaxChunk, MaxPack, MaxEdits, MaxRuns,
  BackupFaults   \* the Faults of IncrementalBackup

VARIABLES
  incremental,   \* the archive's header says so
  disk, clock, touched, ia, packs, runs, walked, kept, bFailed, todo, deleted, cur, draft,
  outcome, before, rf, pack, idx, pos, out, bResult, hurt, unwritable, bPc

B == INSTANCE IncrementalBackup WITH
  Faults <- BackupFaults, failed <- bFailed, result <- bResult, pc <- bPc

ASSUME BackupsAssumption == B!BackupAssumption

\* Contents that share a chunk within and between files, fill more than one pack, or
\* have the same size.
MCContents == {<<1, 0, 1, 0, 1, 1, 1>>, <<1, 1, 1>>}

bVars ==
  <<disk, clock, touched, ia, packs, runs, walked, kept, bFailed, todo, deleted, cur, draft,
    outcome, before, rf, pack, idx, pos, out, bResult, hurt, unwritable, bPc>>
allVars == <<incremental, vars, bVars>>

Start ==
  \/ incremental = TRUE /\ B!Init
     /\ version = 2 /\ op = "extract" /\ tree = [x \in Names |-> Absent] /\ Init
  \/ incremental = FALSE /\ Init
     /\ disk = [x \in 1..NumNames |-> B!Absent] /\ B!Init

Extract ==
  \/ incremental /\ B!Next /\ UNCHANGED <<incremental, vars>>
  \/ ~incremental /\ Next /\ UNCHANGED <<incremental, bVars>>

ExtractionSpec == Start /\ [][Extract]_allVars

----------------------------------------------------------------------------
(* Properties: those of IncrementalBackup, beside the ones Extractor states *)

\* Every session writeSession appends is one the next run can load, whatever files
\* failed half-way in this or an earlier run (archive/incremental.go, ParseSessionIndex).
SessionsLoad == B!SessionsLoad

\* No chunk is stored twice, though a file may fail after its chunks were stored
\* and the same data may turn up again in any later session.
ChunksStoredOnce == B!ChunksStoredOnce

\* After a run that succeeded, or that failed with its session in the archive,
\* every input that was read and has not changed since the walk is restorable as it
\* is on disk, even one that an earlier run caught in the middle of a change.
UpToDate == B!UpToDate

\* A file that could not be read keeps the version the archive had of it, whether
\* the run succeeds or fails, with or without its session in the archive.
UnreadKept == B!UnreadKept

\* A restore is exact about damage: what it puts under a name is the whole recorded
\* content; a damaged pack costs the files that use it and no others; every entry of
\* the newest state gets a result, and success means that the content is there,
\* except for a hard link to an older file (io/incremental_restore.go:165-300,
\* io/output_tree.go:266-268).
RestoredExactly == B!RestoredExactly
=============================================================================
