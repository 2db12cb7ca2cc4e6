---------------------------- MODULE ArchiveOutput ----------------------------
(***************************************************************************)
(* Where an archive goes (cmd/sarc/stdio.go): createArchiveOutput opens a  *)
(* set of volumes or an object in a storage backend, and openArchiveInput  *)
(* reads one back.  A command uses one of the two.                         *)
(***************************************************************************)
EXTENDS Volumes, RemoteStorage

VARIABLE destination   \* "volumes" or "remote"

outputVars == <<vars, remoteVars, destination>>

CreateArchiveOutput ==
  /\ destination \in {"volumes", "remote"}
  /\ Init
  /\ RemoteInit
  /\ destination = "volumes" => backend = "file"   \* not used then

OutputNext ==
  \/ destination = "volumes" /\ Next /\ UNCHANGED <<remoteVars, destination>>
  \/ destination = "remote" /\ RemoteNext /\ UNCHANGED <<vars, destination>>

\* Requests are answered or time out, and the archiver writes on: each side of
\* the storage backend takes its next step.
OutputSpec ==
  /\ CreateArchiveOutput /\ [][OutputNext]_outputVars
  /\ WF_outputVars(destination = "remote" /\ UploadStep /\ UNCHANGED <<vars, destination>>)
  /\ WF_outputVars(destination = "remote" /\ ReadStep /\ UNCHANGED <<vars, destination>>)
=============================================================================
