-------------------------- MODULE StreamingArchiver --------------------------
(***************************************************************************)
(* StreamingArchiver (io/streaming.go) as the archive command drives it    *)
(* (cmd/sarc/archive.go): each argument is added in turn, its files one    *)
(* after the other; in solid mode small files wait for their group.  The   *)
(* command logs what AddFile returns and goes on to Finalize.              *)
(***************************************************************************)
EXTENDS ArchiveStream

CONSTANT Processors  \* GOMAXPROCS

VARIABLES
  spc,      \* "args", "flush", "special", "done", "stuck"
  arg,      \* the last argument taken
  todo,     \* files of that argument still to be added
  pending,  \* members queued for a solid group
  special,  \* directories and links met so far
  logged    \* AddFile has returned a fatal error, which was logged

streamingVars == <<spc, arg, todo, pending, special, logged>>
queues == <<arg, todo, special, logged>>

Arguments == {inputs[f].arg : f \in DOMAIN inputs}
Under(a) == {f \in DOMAIN inputs : inputs[f].arg = a}

NewStreamingArchiver ==
  /\ spc = "args" /\ arg = 0 /\ todo = <<>>
  /\ pending = <<>> /\ special = <<>> /\ logged = FALSE

PendingSize(p) == FoldLeft(LAMBDA n, f : n + inputs[f].size, 0, p)

\* AddFile: the argument cannot be read, and that is logged.
AddFileFails ==
  /\ spc = "args" /\ todo = <<>> /\ arg + 1 \in Arguments
  /\ arg' = arg + 1
  /\ archive' = Report(archive, Under(arg + 1))
  /\ UNCHANGED <<inputs, solid, ret, spc, todo, pending, special, logged>>

\* AddFile: the argument is expanded.
AddFile ==
  /\ spc = "args" /\ todo = <<>> /\ arg + 1 \in Arguments
  /\ arg' = arg + 1
  /\ todo' = Ascending(Under(arg + 1) \intersect Files)
  /\ special' = special \o Ascending(Under(arg + 1) \intersect Specials)
  /\ UNCHANGED <<inputs, solid, archive, ret, spc, pending, logged>>

\* flushSolid: nothing, one file by itself, or a group; sealing it may fail.  A
\* recoverable failure is reported and goes no further.
FlushSolid(ar, members) ==
  CASE members = <<>> -> {Outcome(ar, "none")}
    [] Len(members) = 1 ->
         {IF o.err = "recoverable" THEN Outcome(Report(o.ar, ToSet(members)), "none") ELSE o :
            o \in AddStreamed(ar, members[1], Processors)}
    [] OTHER ->
         SealFails(ar) \union UNION {WriteSolid(ar, members, e) : e \in SolidEntries(members)}

\* What becomes of the outcome for file f.  AddFile reports a recoverable error
\* (for a lone argument the command does) and returns a fatal one, leaving the
\* rest of the argument; the command logs it and takes the next argument.
Added(o, f) ==
  /\ archive' = (IF o.err = "recoverable" THEN Report(o.ar, {f}) ELSE o.ar)
  /\ todo' = (IF o.err = "fatal" THEN <<>> ELSE Tail(todo))
  /\ logged' = (logged \/ o.err = "fatal")
  /\ spc' = (IF o.err = "stuck" THEN "stuck" ELSE spc)
  /\ UNCHANGED <<inputs, solid, ret, arg, special>>

\* A mutant: the file that did not fit is left out of the next group.
Enqueue_DropsFile(f) ==
  IF PendingSize(pending) + inputs[f].size > MaxSolidStreamSize
  THEN \E o \in FlushSolid(archive, pending) :
         /\ Added(o, f)
         /\ pending' = <<>>
  ELSE pending' = Append(pending, f) /\ Added(Outcome(archive, "none"), f)

\* A mutant: pending is emptied only once the group is written and recorded.
Enqueue_KeepsPending(f) ==
  IF PendingSize(pending) + inputs[f].size > MaxSolidStreamSize
  THEN \E o \in FlushSolid(archive, pending) :
         /\ Added(o, f)
         /\ pending' = (IF o.err = "none" THEN <<f>> ELSE pending)
  ELSE pending' = Append(pending, f) /\ Added(Outcome(archive, "none"), f)

\* A group that f would overflow is written before f is queued; pending is
\* emptied even when that fails, and f is then not queued.
Enqueue(f) ==
  IF PendingSize(pending) + inputs[f].size > MaxSolidStreamSize
  THEN \E o \in FlushSolid(archive, pending) :
         /\ Added(o, f)
         /\ pending' = (IF o.err = "none" THEN <<f>> ELSE <<>>)
  ELSE pending' = Append(pending, f) /\ Added(Outcome(archive, "none"), f)

AddInput ==
  /\ spc = "args" /\ todo # <<>>
  /\ LET f == Head(todo)
     IN  IF solid /\ Candidate(f) THEN Enqueue(f)
         ELSE \E o \in AddStreamed(archive, f, Processors) : Added(o, f) /\ UNCHANGED pending

\* Every argument has been added: Finalize.
Finalize ==
  /\ spc = "args" /\ todo = <<>> /\ arg + 1 \notin Arguments
  /\ spc' = "flush"
  /\ UNCHANGED <<inputs, solid, archive, ret, pending, queues>>

\* A step of Finalize: an error is returned, otherwise the next step follows.
Proceed(o, step) ==
  /\ archive' = o.ar
  /\ \/ o.err = "none" /\ spc' = step /\ ret' = (IF step = "done" THEN "ok" ELSE ret)
     \/ o.err = "fatal" /\ spc' = "done" /\ ret' = "err"
     \/ o.err = "stuck" /\ spc' = "stuck" /\ UNCHANGED ret

FinalFlush ==
  /\ spc = "flush"
  /\ \E o \in FlushSolid(archive, pending) : Proceed(o, "special")
  /\ pending' = <<>>
  /\ UNCHANGED <<inputs, solid, queues>>

SpecialEntry ==
  /\ spc = "special" /\ special # <<>>
  /\ \E o \in WriteSpecialEntry(archive, Head(special)) : Proceed(o, "special")
  /\ special' = Tail(special)
  /\ UNCHANGED <<inputs, solid, arg, todo, logged, pending>>

FinishStreaming ==
  /\ spc = "special" /\ special = <<>>
  /\ \E o \in Finish(archive) : Proceed(o, "done")
  /\ UNCHANGED <<inputs, solid, queues, pending>>

Streaming ==
  AddFileFails \/ AddFile \/ AddInput \/ Finalize \/ FinalFlush \/ SpecialEntry \/ FinishStreaming
=============================================================================
