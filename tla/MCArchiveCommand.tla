-------------------------- MODULE MCArchiveCommand --------------------------
(* ArchiveCommand by itself, on the inputs of ArchiveInputs. *)
EXTENDS ArchiveCommand, ArchiveInputs
=============================================================================
