------------------------ MODULE IncrementalFailures ------------------------
(***************************************************************************)
(* The two ways an update may be cut short.  The process dies or a write   *)
(* fails while the machine runs on, and the file keeps what was written;   *)
(* or the machine loses power or a sync fails, and the file keeps any part *)
(* of what was not synced.  A behaviour is of one kind; the state of the   *)
(* other instance stays as it starts.                                      *)
(***************************************************************************)
EXTENDS MCIncrementalStore

CONSTANT MachineRuns   \* bound on the runs under power loss

VARIABLES
  machine,   \* it is the machine that may fail
  mFile, mSealed, mMaybe, mLens, mSeals, mPc, mMode, mTodo, mAt, mIa, mRun, mResult

M == INSTANCE IncrementalStore WITH
  Faults <- {"power", "write", "sync"}, MaxRuns <- MachineRuns,
  Signers <- {short}, SigLen <- [k \in {short} |-> 1],
  file <- mFile, sealed <- mSealed, maybe <- mMaybe, lens <- mLens, seals <- mSeals,
  pc <- mPc, mode <- mMode, todo <- mTodo, at <- mAt, ia <- mIa, run <- mRun,
  result <- mResult

mVars == <<mFile, mSealed, mMaybe, mLens, mSeals, mPc, mMode, mTodo, mAt, mIa, mRun, mResult>>
allVars == <<machine, vars, mVars>>

Begin == machine \in BOOLEAN /\ Init /\ M!Init

Step ==
  \/ ~machine /\ Next /\ UNCHANGED <<machine, mVars>>
  \/ machine /\ M!Next /\ UNCHANGED <<machine, vars>>

FailuresSpec == Begin /\ [][Step]_allVars

\* The same for the machine's failures: what a power loss or a failing sync may leave
\* and what later runs make of it never costs a byte of a session that the header's
\* count vouches for (io/incremental_write.go:380-433).
SealedKeptOnLoss == M!SealedNeverRewritten
=============================================================================
