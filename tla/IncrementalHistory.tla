------------------------- MODULE IncrementalHistory -------------------------
(***************************************************************************)
(* IncrementalStore implements SessionLog: the log is what a scan of the   *)
(* file finds, the count is the one sealed in the header.                  *)
(***************************************************************************)
EXTENDS IncrementalStore

\* The runs that wrote the indexes a scan of f finds, oldest first.
History(f) ==
  LET entries == IF Scanned(f) = {} THEN <<>> ELSE SubSeq(f, 1, ScanForLastIndex(f))
      indexes == SelectSeq(entries, LAMBDA c : c.kind = "index")
  IN [k \in 1..Len(indexes) |-> indexes[k].run]

Log == INSTANCE SessionLog WITH
  Runs <- 1..MaxRuns, log <- History(file), count <- sealed

\* Whatever steps the runs of the program and their crashes take, a reader sees
\* sessions added one at a time, at most one per run, and only a session the
\* header does not vouch for yet ever disappears (io/incremental_write.go:380-433).
ImplementsSessionLog == Log!Spec
=============================================================================
