----------------------------- MODULE SessionLog -----------------------------
(***************************************************************************)
(* What an incremental archive promises, without its file: a log of        *)
(* sessions, each recorded by one run of the program, and the number of    *)
(* them the header vouches for.  A session that is not sealed yet may be   *)
(* taken back; a sealed one stays.                                         *)
(***************************************************************************)
EXTENDS Naturals, Sequences, Functions

CONSTANT Runs   \* the runs that may record a session

VARIABLES
  log,    \* the runs whose sessions the archive holds, oldest first
  count   \* how many of them are sealed

logVars == <<log, count>>

Init == log = <<>> /\ count = 0

\* A new archive appears with its first session sealed.
Create == log = <<>> /\ count' = 1 /\ log' \in {<<r>> : r \in Runs}

\* The session of a run that has none yet is added.
Record ==
  /\ log # <<>> /\ UNCHANGED count
  /\ log' \in {Append(log, r) : r \in Runs \ Range(log)}

\* The newest session is taken back, which only an unsealed one may be.
TakeBack ==
  /\ Len(log) > count /\ UNCHANGED count
  /\ log' = SubSeq(log, 1, Len(log) - 1)

Seal == count' = Len(log) /\ UNCHANGED log

Next == Create \/ Record \/ TakeBack \/ Seal

Spec == Init /\ [][Next]_logVars
=============================================================================
