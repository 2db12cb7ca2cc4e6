------------------------------- MODULE Volumes -------------------------------
(***************************************************************************)
(* Split archives (io/volume.go): a VolumeWriter writes an archive as      *)
(* numbered volume files over whatever an earlier run of the same base     *)
(* name left, and a VolumeReader checks and joins such a set, possibly     *)
(* while a writer is at work.  Archive bytes come in units; unit k of run  *)
(* g is <<g, k>>, and the run number stands for the random archive ID.     *)
(***************************************************************************)
EXTENDS Naturals, Sequences

CONSTANTS
  Capacity,  \* payload units per volume
  MaxUnits,  \* bound on the units of one archive
  MaxRuns,   \* bound on the archive runs
  MaxReads,  \* bound on the times a reader opens the set
  Faults     \* subset of {"kill", "write"}

ASSUME VolumesAssumption ==
  /\ Capacity \in Nat \ {0} /\ MaxUnits \in Nat
  /\ MaxRuns \in Nat /\ MaxReads \in Nat /\ Faults \subseteq {"kill", "write"}

Runs == 1..MaxRuns
Units == Runs \X (1..MaxUnits)
MaxVols == (MaxUnits \div Capacity) + 2   \* no run writes the last of these
Paths == 1..MaxVols

Header == [id : Runs, index : Paths, last : BOOLEAN, len : 0..Capacity]
Blank == [id |-> 0]           \* no volume header
NoSum == [hdr |-> Blank]      \* no checksum yet
NoFile == [hdr |-> Blank, data |-> <<>>, sum |-> NoSum]   \* no file, or an empty one

VARIABLES
  disk,      \* the file at each volume path
  wpc,       \* the writer: "idle", "ready", "create", "header", "put", "finish",
             \* "sum", "close", "remove"
  run, index, \* the writer's archive ID and volume number
  isOpen,    \* v.f # nil
  accepted,  \* units each run's Write has taken
  closing,   \* Close has been called
  stale,     \* the path removeStaleVolumes is at
  wret,      \* how the last run ended: "none", "ok", "err", "killed"
  rpc,       \* the reader: "idle", "check", "open", "read", "eof", "err"
  rindex,    \* the volume it is at
  rhdr,      \* the header it read there
  rid,       \* the archive ID it took from volume 1
  rfile,     \* <<>>: its file is the one at the path; <<f>>: that file was removed
  rdata,     \* the units it read from this volume
  joined,    \* the units it has returned
  reads      \* how often the set was opened

writer == <<disk, wpc, run, index, isOpen, accepted, closing, stale, wret>>
reader == <<rpc, rindex, rhdr, rid, rfile, rdata, joined, reads>>
vars == <<writer, reader>>

IsVolume(f) == f.hdr # Blank

Init ==
  /\ disk = [i \in Paths |-> NoFile]
  /\ wpc = "idle" /\ run = 0 /\ index = 0 /\ isOpen = FALSE
  /\ accepted = [g \in Runs |-> 0] /\ closing = FALSE /\ stale = 0 /\ wret = "none"
  /\ rpc = "idle" /\ rindex = 0 /\ rhdr = Blank /\ rid = 0 /\ rfile = <<>>
  /\ rdata = <<>> /\ joined = <<>> /\ reads = 0

----------------------------------------------------------------------------
(* The writer *)

CreateVolumes ==
  /\ wpc = "idle" /\ run < MaxRuns
  /\ run' = run + 1 /\ index' = 0 /\ isOpen' = FALSE /\ closing' = FALSE
  /\ wpc' = "ready" /\ wret' = "none"
  /\ UNCHANGED <<disk, accepted, stale, reader>>

\* What Write does next for a unit: finish a full volume, open one, or put it.
Full == Len(disk[index].data) = Capacity

Write ==
  /\ wpc = "ready" /\ accepted[run] < MaxUnits
  /\ wpc' = IF isOpen THEN IF Full THEN "finish" ELSE "put" ELSE "create"
  /\ UNCHANGED <<disk, run, index, isOpen, accepted, closing, stale, wret, reader>>

\* Close finishes the current volume as the last, opening one if there is none.
Close ==
  /\ wpc = "ready"
  /\ closing' = TRUE
  /\ wpc' = IF isOpen THEN "finish" ELSE "create"
  /\ UNCHANGED <<disk, run, index, isOpen, accepted, stale, wret, reader>>

\* openVolume: os.Create truncates a file of that name, then the header is written
\* with the full capacity as its length.
CreateFile ==
  /\ wpc = "create"
  /\ index' = index + 1
  /\ disk' = [disk EXCEPT ![index + 1] = NoFile]
  /\ wpc' = "header"
  /\ UNCHANGED <<run, isOpen, accepted, closing, stale, wret, reader>>

WriteHeader ==
  /\ wpc = "header"
  /\ disk' = [disk EXCEPT ![index].hdr =
                [id |-> run, index |-> index, last |-> FALSE, len |-> Capacity]]
  /\ isOpen' = TRUE
  /\ wpc' = IF closing THEN "finish" ELSE "put"
  /\ UNCHANGED <<run, index, accepted, closing, stale, wret, reader>>

PutUnit ==
  /\ wpc = "put"
  /\ disk' = [disk EXCEPT ![index].data = Append(@, <<run, accepted[run] + 1>>)]
  /\ accepted' = [accepted EXCEPT ![run] = @ + 1]
  /\ wpc' = "ready"
  /\ UNCHANGED <<run, index, isOpen, closing, stale, wret, reader>>

\* A mutant: the last volume is not marked.
FinishHeader_LastNotMarked ==
  /\ wpc = "finish"
  /\ disk' = [disk EXCEPT ![index].hdr =
                [id |-> run, index |-> index, last |-> FALSE, len |-> Len(disk[index].data)]]
  /\ isOpen' = FALSE
  /\ wpc' = "sum"
  /\ UNCHANGED <<run, index, accepted, closing, stale, wret, reader>>

\* finishVolume: the header is rewritten in place, then the checksum of payload
\* and header is appended.
FinishHeader ==
  /\ wpc = "finish"
  /\ disk' = [disk EXCEPT ![index].hdr =
                [id |-> run, index |-> index, last |-> closing, len |-> Len(disk[index].data)]]
  /\ isOpen' = FALSE
  /\ wpc' = "sum"
  /\ UNCHANGED <<run, index, accepted, closing, stale, wret, reader>>

FinishSum ==
  /\ wpc = "sum"
  /\ disk' = [disk EXCEPT ![index].sum = [data |-> disk[index].data, hdr |-> disk[index].hdr]]
  /\ wpc' = IF closing THEN "remove" ELSE "create"
  /\ stale' = index + 1
  /\ UNCHANGED <<run, index, isOpen, accepted, closing, wret, reader>>

\* removeStaleVolumes: stop at the first path that is not a volume, or that cannot
\* be read, which is not an error.
RemoveStale ==
  /\ wpc = "remove"
  /\ \/ /\ IsVolume(disk[stale])
        /\ disk' = [disk EXCEPT ![stale] = NoFile]
        /\ rfile' = IF rpc = "read" /\ rindex = stale /\ rfile = <<>> THEN <<disk[stale]>> ELSE rfile
        /\ stale' = stale + 1
        /\ UNCHANGED <<wpc, wret>>
     \/ /\ ~IsVolume(disk[stale]) \/ "write" \in Faults
        /\ wpc' = "idle" /\ wret' = "ok" /\ UNCHANGED <<disk, rfile, stale>>
  /\ UNCHANGED <<run, index, isOpen, accepted, closing, rpc, rindex, rhdr, rid, rdata, joined, reads>>

\* A system call of the step at hand fails: v.err is set, nothing more is written,
\* and Close returns the error.  (One that fails after taking effect leaves the
\* disk as Kill does after the step.)
WriteFails ==
  /\ "write" \in Faults
  /\ wpc \in {"create", "header", "put", "finish", "sum", "remove"}
  /\ wpc' = "idle" /\ wret' = "err"
  /\ UNCHANGED <<disk, run, index, isOpen, accepted, closing, stale, reader>>

Kill ==
  /\ "kill" \in Faults /\ wpc # "idle"
  /\ wpc' = "idle" /\ wret' = "killed"
  /\ UNCHANGED <<disk, run, index, isOpen, accepted, closing, stale, reader>>

----------------------------------------------------------------------------
(* The reader *)

OpenVolumes ==
  /\ rpc \in {"idle", "eof", "err"} /\ reads < MaxReads /\ IsVolume(disk[1])
  /\ rpc' = "check" /\ rindex' = 1 /\ rid' = 0 /\ reads' = reads + 1
  /\ rhdr' = Blank /\ rfile' = <<>> /\ rdata' = <<>> /\ joined' = <<>>
  /\ UNCHANGED writer

Fits(h, id, i) == h # Blank /\ h.id = id /\ h.index = i

FirstId(i, h) == IF i = 1 THEN h.id ELSE rid

\* checkVolumeSet, one volume: header, archive ID, number, size.
CheckVolume ==
  /\ rpc = "check"
  /\ LET f == disk[rindex]
     IN  IF /\ Fits(f.hdr, FirstId(rindex, f.hdr), rindex)
            /\ f.sum # NoSum /\ Len(f.data) = f.hdr.len
         THEN /\ rid' = FirstId(rindex, f.hdr)
              /\ IF f.hdr.last THEN rpc' = "open" /\ rindex' = 1
                               ELSE rindex' = rindex + 1 /\ UNCHANGED rpc
         ELSE rpc' = "err" /\ UNCHANGED <<rid, rindex>>
  /\ UNCHANGED <<writer, rhdr, rfile, rdata, joined, reads>>

\* A mutant: the archive ID is checked only when the set is opened.
OpenNext_TrustsCheck ==
  /\ rpc = "open"
  /\ LET f == disk[rindex]
     IN  IF f.hdr # Blank
         THEN rpc' = "read" /\ rhdr' = f.hdr
         ELSE rpc' = "err" /\ UNCHANGED rhdr
  /\ rfile' = <<>> /\ rdata' = <<>>
  /\ UNCHANGED <<writer, rindex, rid, joined, reads>>

OpenNext ==
  /\ rpc = "open"
  /\ LET f == disk[rindex]
     IN  IF Fits(f.hdr, FirstId(rindex, f.hdr), rindex)
         THEN rpc' = "read" /\ rhdr' = f.hdr /\ rid' = FirstId(rindex, f.hdr)
         ELSE rpc' = "err" /\ UNCHANGED <<rhdr, rid>>
  /\ rfile' = <<>> /\ rdata' = <<>>
  /\ UNCHANGED <<writer, rindex, joined, reads>>

\* The file the reader has open, as it is now.
OpenFile == IF rfile = <<>> THEN disk[rindex] ELSE rfile[1]

ReadUnit ==
  /\ rpc = "read" /\ Len(rdata) < rhdr.len
  /\ LET k == Len(rdata) + 1
     IN  IF k <= Len(OpenFile.data)
         THEN /\ rdata' = Append(rdata, OpenFile.data[k])
              /\ joined' = Append(joined, OpenFile.data[k])
              /\ UNCHANGED rpc
         ELSE rpc' = "err" /\ UNCHANGED <<rdata, joined>>
  /\ UNCHANGED <<writer, rindex, rhdr, rid, rfile, reads>>

\* The checksum follows the declared length; it covers what was read and the
\* header read when the volume was opened.
FinishRead ==
  /\ rpc = "read" /\ Len(rdata) = rhdr.len
  /\ IF Len(OpenFile.data) = rhdr.len /\ OpenFile.sum = [data |-> rdata, hdr |-> rhdr]
     THEN IF rhdr.last THEN rpc' = "eof" /\ UNCHANGED rindex
                       ELSE rpc' = "open" /\ rindex' = rindex + 1
     ELSE rpc' = "err" /\ UNCHANGED rindex
  /\ UNCHANGED <<writer, rhdr, rid, rfile, rdata, joined, reads>>

Next ==
  \/ CreateVolumes \/ Write \/ Close \/ CreateFile \/ WriteHeader \/ PutUnit
  \/ FinishHeader \/ FinishSum \/ RemoveStale \/ WriteFails \/ Kill
  \/ OpenVolumes \/ CheckVolume \/ OpenNext \/ ReadUnit \/ FinishRead

Spec == Init /\ [][Next]_vars

----------------------------------------------------------------------------
(* Properties *)

Payload(g) == [k \in 1..accepted[g] |-> <<g, k>>]

\* A reader that reaches the end has returned exactly the archive of one run,
\* even when another run overwrote, truncated or removed volumes under it
\* (io/volume.go:208-211, 260-287).
JoinedIsOneArchive == rpc = "eof" => joined = Payload(rid)

\* After a run that reports success the set on disk reads back whole: every
\* volume but the last is full, the last and only the last is marked, and an
\* archive that fills its volumes exactly ends without an empty one
\* (io/volume.go:81-131).
ClosedSetIsWhole ==
  wpc = "idle" /\ wret = "ok" =>
    /\ \A i \in 1..index :
         LET f == disk[i]
         IN  /\ Fits(f.hdr, run, i) /\ f.hdr.len = Len(f.data)
             /\ f.sum = [data |-> f.data, hdr |-> f.hdr]
             /\ f.hdr.last <=> i = index
             /\ f.data = [k \in 1..Len(f.data) |-> <<run, (i - 1) * Capacity + k>>]
             /\ i < index => Len(f.data) = Capacity
    /\ (index - 1) * Capacity + Len(disk[index].data) = accepted[run]
    /\ accepted[run] > 0 => disk[index].data # <<>>

\* "a shorter archive never leaves volumes of an older one beside it"
\* (io/volume.go:170-171): after a successful run no other volume is left.
NoStaleVolumes ==
  wpc = "idle" /\ wret = "ok" => \A i \in Paths : i > index => ~IsVolume(disk[i])
=============================================================================
