------------------------- MODULE ConcurrentArchiver -------------------------
(***************************************************************************)
(* archiveJobs (io/concurrent.go): a dispatcher feeds the jobs of a run to *)
(* a pool of workers that encrypt whole files or solid groups in memory;   *)
(* the writer, the calling goroutine, streams large files itself and       *)
(* writes every entry in job order, then the special entries, the          *)
(* directory and the footer.                                               *)
(***************************************************************************)
EXTENDS ArchiveStream

CONSTANTS
  Workers,          \* the worker goroutines
  ResultLookahead,  \* results that may wait beyond one per worker
  Idle, Exited

ArchiverAssumption ==
  /\ IsFiniteSet(Workers) /\ Workers # {} /\ ResultLookahead \in Nat

VARIABLES
  jobs,     \* the jobs of the run, in order
  dpc,      \* the dispatcher: "slot", "work", "exit"
  next,     \* the job it is at
  slots,    \* tokens in the slots channel
  done,     \* the done channel is closed: archiveJobs has returned
  worker,   \* each worker's job, Idle or Exited
  result,   \* each job's result channel
  wpc,      \* the writer: "entry", "release", "write", "special", "finish", "done", "stuck"
  at,       \* the job or special entry the writer is at
  got       \* the result it holds

pool == <<dpc, next, worker>>
concurrentVars == <<jobs, pool, slots, done, result, wpc, at, got>>
fixed == <<inputs, solid, jobs>>

NumJobs == Len(jobs)
Window == Cardinality(Workers) + ResultLookahead

\* A fileResult: an entry to write, or an error; NoResult while there is none.
Result(err, e) == [err |-> err, entry |-> e]
NoResult == Result("empty", End)

\* The first job after j that goes to a worker, or NumJobs + 1.
NextPooled(j) ==
  LET later == {k \in 1..NumJobs : k > j /\ ~jobs[k].inline}
  IN  IF later = {} THEN NumJobs + 1 ELSE CHOOSE k \in later : \A l \in later : k <= l

\* The writer's next step once it has dealt with i jobs and special entries.
StepAfter(i) ==
  CASE i < NumJobs -> "entry"
    [] i >= NumJobs /\ i < NumJobs + Cardinality(Specials) -> "special"
    [] OTHER -> "finish"

StartJobs ==
  /\ jobs = PlanJobs
  /\ next = NextPooled(0)
  /\ dpc = IF next > NumJobs THEN "exit" ELSE "slot"
  /\ slots = 0 /\ done = FALSE
  /\ worker = [w \in Workers |-> Idle]
  /\ result = [j \in 1..NumJobs |-> NoResult]
  /\ wpc = StepAfter(0) /\ at = 1 /\ got = NoResult

----------------------------------------------------------------------------
(* The dispatcher and the workers *)

TakeSlot ==
  /\ dpc = "slot" /\ slots < Window
  /\ slots' = slots + 1 /\ dpc' = "work"
  /\ UNCHANGED <<fixed, next, worker, done, result, wpc, at, got, archive, ret>>

\* work is unbuffered: the job passes to an idle worker.
HandOut(w) ==
  /\ dpc = "work" /\ worker[w] = Idle
  /\ worker' = [worker EXCEPT ![w] = next]
  /\ next' = NextPooled(next)
  /\ dpc' = IF next' > NumJobs THEN "exit" ELSE "slot"
  /\ UNCHANGED <<fixed, slots, done, result, wpc, at, got, archive, ret>>

\* A mutant: the dispatcher does not watch done.
DispatcherStops_Never ==
  /\ FALSE
  /\ UNCHANGED <<inputs, solid, archive, ret, concurrentVars>>

DispatcherStops ==
  /\ dpc \in {"slot", "work"} /\ done
  /\ dpc' = "exit"
  /\ UNCHANGED <<fixed, next, worker, slots, done, result, wpc, at, got, archive, ret>>

\* runJob: a group gives an entry of the members that could be read, a file its
\* entry or a recoverable error; sealing either may fail.
Results(job) ==
  {Result("fatal", End)}
  \union IF job.group THEN {Result("none", e) : e \in SolidEntries(job.members)}
         ELSE {Result("none", Entry("file", job.members, inputs[job.members[1]].size)),
               Result("recoverable", End)}

RunJob(w) ==
  /\ worker[w] \in 1..NumJobs
  /\ \E r \in Results(jobs[worker[w]]) : result' = [result EXCEPT ![worker[w]] = r]
  /\ worker' = [worker EXCEPT ![w] = Idle]
  /\ UNCHANGED <<fixed, dpc, next, slots, done, wpc, at, got, archive, ret>>

\* work is closed when the dispatcher returns.
WorkerExits(w) ==
  /\ worker[w] = Idle /\ dpc = "exit"
  /\ worker' = [worker EXCEPT ![w] = Exited]
  /\ UNCHANGED <<fixed, dpc, next, slots, done, result, wpc, at, got, archive, ret>>

----------------------------------------------------------------------------
(* The writer *)

\* A fatal outcome ends the run; a recoverable one is reported for input f; a call
\* that does not return leaves the writer in it.
GoOn(o, f) ==
  /\ archive' = (IF o.err = "recoverable" THEN Report(o.ar, {f}) ELSE o.ar)
  /\ \/ o.err = "fatal" /\ wpc' = "done" /\ ret' = "err" /\ done' = TRUE /\ UNCHANGED at
     \/ o.err = "stuck" /\ wpc' = "stuck" /\ UNCHANGED <<at, ret, done>>
     \/ /\ o.err \in {"none", "recoverable"}
        /\ wpc' = StepAfter(at) /\ at' = at + 1 /\ UNCHANGED <<ret, done>>

StreamInline ==
  /\ wpc = "entry" /\ jobs[at].inline
  /\ LET f == jobs[at].members[1]
     IN  \E o \in AddStreamed(archive, f, Cardinality(Workers)) : GoOn(o, f)
  /\ UNCHANGED <<fixed, pool, slots, result, got>>

\* A mutant: results are written as they finish.
ReceiveResult_AnyFinished ==
  /\ wpc = "entry" /\ ~jobs[at].inline
  /\ \E j \in 1..NumJobs :
       /\ result[j] # NoResult
       /\ got' = result[j] /\ at' = j /\ result' = [result EXCEPT ![j] = NoResult]
  /\ wpc' = "release"
  /\ UNCHANGED <<fixed, pool, slots, done, archive, ret>>

ReceiveResult ==
  /\ wpc = "entry" /\ ~jobs[at].inline /\ result[at] # NoResult
  /\ got' = result[at] /\ result' = [result EXCEPT ![at] = NoResult]
  /\ wpc' = "release"
  /\ UNCHANGED <<fixed, pool, slots, done, at, archive, ret>>

\* A mutant: the writer gives two slots back for one result.
ReleaseSlot_Twice ==
  /\ wpc = "release" /\ slots > 0
  /\ slots' = (IF slots > 1 THEN slots - 2 ELSE 0) /\ wpc' = "write"
  /\ UNCHANGED <<fixed, pool, done, result, at, got, archive, ret>>

ReleaseSlot ==
  /\ wpc = "release" /\ slots > 0
  /\ slots' = slots - 1 /\ wpc' = "write"
  /\ UNCHANGED <<fixed, pool, done, result, at, got, archive, ret>>

\* writeResult
Written(job, r) ==
  CASE r.err # "none" -> {Outcome(archive, r.err)}
    [] r.err = "none" /\ job.group -> WriteSolid(archive, job.members, r.entry)
    [] OTHER -> WriteAndRecord(archive, r.entry)

WriteResult ==
  /\ wpc = "write"
  /\ \E o \in Written(jobs[at], got) : GoOn(o, jobs[at].members[1])
  /\ got' = NoResult
  /\ UNCHANGED <<fixed, pool, slots, result>>

\* writeSpecialEntries, one entry at a time.
WriteSpecial ==
  /\ wpc = "special"
  /\ LET f == Ascending(Specials)[at - NumJobs]
     IN  \E o \in WriteSpecialEntry(archive, f) : GoOn(o, f)
  /\ UNCHANGED <<fixed, pool, slots, result, got>>

FinishArchive ==
  /\ wpc = "finish"
  /\ \E o \in Finish(archive) :
       archive' = o.ar /\ ret' = IF o.err = "none" THEN "ok" ELSE "err"
  /\ wpc' = "done" /\ done' = TRUE
  /\ UNCHANGED <<fixed, pool, slots, result, at, got>>

Dispatcher == TakeSlot \/ (\E w \in Workers : HandOut(w)) \/ DispatcherStops
Worker(w) == RunJob(w) \/ WorkerExits(w)
Writer ==
  StreamInline \/ ReceiveResult \/ ReleaseSlot \/ WriteResult \/ WriteSpecial \/ FinishArchive

----------------------------------------------------------------------------
(* Properties *)

\* Where in the plan of the run an input comes: its job, or after all of them.
Place(f) ==
  IF f \in Specials THEN NumJobs + f
  ELSE CHOOSE j \in 1..NumJobs : f \in ToSet(jobs[j].members)

\* Entries are written in submission order whichever worker finishes first
\* (io/concurrent.go:53-54), the directories and links after every file.
EntriesInOrder ==
  LET es == EntriesOf(archive.stream)
  IN  NumJobs > 0 =>
        \A i, j \in DOMAIN es : i < j => Place(es[i].holds[1]) < Place(es[j].holds[1])

\* The finished results in memory: in the result channels, or with the writer.
Held ==
  Cardinality({j \in 1..NumJobs : result[j] # NoResult}) + (IF got = NoResult THEN 0 ELSE 1)

\* The files in flight: with a worker, or finished and waiting for the writer.
InFlight == {j \in 1..NumJobs : result[j] # NoResult \/ \E w \in Workers : worker[w] = j}

\* However slow the writer is, the workers run no further ahead of it than the
\* window: "at most workers+2 results in flight" (docs/ARCHITECTURE.md:387), the
\* two being resultLookahead.
InFlightBounded == Cardinality(InFlight) <= Window

\* "At most workers+resultLookahead results are held at once"
\* (io/concurrent.go:107-108), the one the writer is writing included.
ResultsBounded == Held <= Window
=============================================================================
