-------------------------- MODULE IncrementalStore --------------------------
(***************************************************************************)
(* The file of an incremental archive: how io/incremental_write.go updates *)
(* it in place and how io/incremental.go finds its newest session again    *)
(* after a run was killed, lost power, or met an I/O error.                *)
(*                                                                         *)
(* The file is a sequence of cells behind the header.  A cell is one pack, *)
(* one session index, one tail (checkpoint, end marker and footer, which   *)
(* are written and parsed together) or one piece of a signature block.     *)
(* Offsets of the code are positions in this sequence: the code's offset   *)
(* "tail" is the number of cells before the tail.                          *)
(***************************************************************************)
EXTENDS Integers, Sequences, FiniteSets

CONSTANTS
  MaxRuns,    \* bound on the number of runs of the program
  MaxPacks,   \* bound on the packs of one session
  Signers,    \* the keys a run may sign with
  SigLen,     \* SigLen[k]: the cells of a signature block made with key k
  NoSigner,   \* stands for a run without a signer
  Faults      \* what may go wrong: "kill", "power", "write", "sync"

ASSUME StoreAssumption ==
  /\ MaxRuns \in Nat
  /\ MaxPacks \in Nat
  /\ SigLen \in [Signers -> Nat \ {0}]
  /\ NoSigner \notin Signers
  /\ Faults \subseteq {"kill", "power", "write", "sync"}

VARIABLES
  file,     \* the archive as a process reads it; <<>> while it does not exist
  sealed,   \* the session count sealed in the header
  maybe,    \* maybe[i]: what a power loss may leave at position i
  lens,     \* the lengths a power loss may leave
  seals,    \* the sealed counts a power loss may leave
  pc,       \* the step the running process is at, "idle" between runs
  mode,     \* what the cells being written are for
  todo,     \* the cells still to be written
  at,       \* the position of the next one
  ia,       \* the state the run loaded (incrementalArchive)
  run,      \* the current run: its number, signer and what it found
  result    \* what the last run reported

vars == <<file, sealed, maybe, lens, seals, pc, mode, todo, at, ia, run, result>>
durable == <<maybe, lens, seals>>

----------------------------------------------------------------------------
(* Cells *)

Junk == [kind |-> "junk"]
Pack(r) == [kind |-> "pack", run |-> r, ok |-> TRUE]
Index(r, session, prev, packs) ==
  [kind |-> "index", run |-> r, session |-> session, prev |-> prev, packs |-> packs]
TailCell(last, sum) == [kind |-> "tail", last |-> last, sum |-> sum]
SigCell(key, sum, part) ==
  [kind |-> "sig", by |-> key, over |-> sum, part |-> part, of |-> SigLen[key]]

\* Signature block: its last cell carries the trailer that gives its length.
SignatureBlock(key, sum) == [p \in 1..SigLen[key] |-> SigCell(key, sum, p)]
IsTrailer(c) == c.kind = "sig" /\ c.part = c.of

\* The entries a session is made of.
IsEntry(c) == c.kind \in {"pack", "index"}

Put(s, p, v) == [i \in 1..(IF p > Len(s) THEN p ELSE Len(s)) |-> IF i = p THEN v ELSE s[i]]

----------------------------------------------------------------------------
(* Reading an archive: pure functions of its cells f *)

\* The archive proper without its signature block.
SplitSignature(f) ==
  IF f # <<>> /\ IsTrailer(f[Len(f)]) /\ f[Len(f)].of < Len(f)
  THEN Len(f) - f[Len(f)].of
  ELSE Len(f)

\* The signature block found at the end of f; <<>> when f is unsigned.
Signature(f) == SubSeq(f, SplitSignature(f) + 1, Len(f))

\* The tail of the archive proper parses and points inside the archive.
ReadCheckpoint(f) ==
  LET p == SplitSignature(f)
  IN p > 0 /\ f[p].kind = "tail" /\ f[p].last \in 1..(p - 1)

\* The indexes reached by walking the entries from the header on.  Packs are
\* skipped by their framing and not verified; the walk stops at anything else.
Scanned(f) ==
  {i \in 1..SplitSignature(f) : f[i].kind = "index" /\ \A j \in 1..i : IsEntry(f[j])}

\* The walk's last index, given that it reached one.
ScanForLastIndex(f) == CHOOSE i \in Scanned(f) : \A j \in Scanned(f) : j <= i

\* i and the indexes before it, linked by their prev offsets down to session 1.
ReadIndexChain(f, i) ==
  \E chain \in SUBSET {j \in 1..i : f[j].kind = "index"} :
    /\ i \in chain
    /\ \A j \in chain :
         IF f[j].session = 1
         THEN f[j].prev = 0
         ELSE /\ f[j].prev \in chain
              /\ f[j].prev < j
              /\ f[f[j].prev].session = f[j].session - 1

\* Where the newest session is looked for: its index, the offset of the tail.
LastIndex(f) == IF ReadCheckpoint(f) THEN f[SplitSignature(f)].last ELSE ScanForLastIndex(f)
TailOffset(f) == IF ReadCheckpoint(f) THEN SplitSignature(f) - 1 ELSE ScanForLastIndex(f)

\* loadIncremental succeeds on cells f under header count s.
LoadOK(f, s) ==
  /\ ReadCheckpoint(f) \/ Scanned(f) # {}
  /\ f[LastIndex(f)].kind = "index"
  /\ ReadIndexChain(f, LastIndex(f))
  /\ f[LastIndex(f)].session >= s

LoadIncremental(f) ==
  [last      |-> LastIndex(f),
   tail      |-> TailOffset(f),
   sessions  |-> f[LastIndex(f)].session,
   recovered |-> ~ReadCheckpoint(f),
   sum       |-> IF ReadCheckpoint(f) THEN f[SplitSignature(f)].sum ELSE <<>>]

\* The recomputed checksum of the archive proper matches its footer.
ArchiveChecksum(f) ==
  LET p == SplitSignature(f)
  IN p > 0 /\ f[p].kind = "tail" /\ f[p].sum = SubSeq(f, 1, p - 1)

\* sig is one whole signature by key over the checksum sum.
SignedBy(sig, sum, key) == sig = SignatureBlock(key, sum)

----------------------------------------------------------------------------
(* Writing: what reaches the file, and what a power loss may leave of it *)

Lossy == "power" \in Faults

\* What a power loss may leave of one written cell: all of it, a part that
\* does not parse, or a pack whose framing survived and whose data did not.
Images(c) == {c, Junk} \cup (IF c.kind = "pack" THEN {[c EXCEPT !.ok = FALSE]} ELSE {})

\* The file has become f after writing cell c at position p of it.
Wrote(p, c) ==
  /\ file' = Put(file, p, c)
  /\ IF Lossy
     THEN /\ maybe' = Put(maybe, p, Images(c) \cup IF p \in DOMAIN maybe THEN maybe[p] ELSE {})
          /\ lens' = lens \cup {Len(file')}
     ELSE UNCHANGED <<maybe, lens>>
  /\ UNCHANGED seals

\* Everything written so far to cells f and header count s is durable.
Durable(f, s) ==
  IF Lossy
  THEN /\ maybe' = [i \in DOMAIN f |-> {f[i]}]
       /\ lens' = {Len(f)}
       /\ seals' = {s}
  ELSE UNCHANGED durable

NoArchive == [last |-> 0, tail |-> 0, sessions |-> 0, recovered |-> FALSE,
              sum |-> <<>>, oldTail |-> <<>>]

Result(status, signed, removed) ==
  [status |-> status, signed |-> signed, removed |-> removed]

\* The run ends and reports r; what it held in memory is gone.
Finish(r) ==
  /\ pc' = "idle" /\ mode' = "none" /\ todo' = <<>> /\ at' = 0
  /\ ia' = NoArchive
  /\ run' = [n |-> run.n, signer |-> NoSigner, signature |-> <<>>, repaired |-> FALSE, cause |-> "ok"]
  /\ result' = r

\* A run begins; signature is the block it finds at the end of the archive.
NewRun(signer) ==
  [n |-> run.n + 1, signer |-> signer, signature |-> Signature(file),
   repaired |-> FALSE, cause |-> "ok"]

\* Start writing cells s from position p on, for purpose m.
Start(m, s, p) == pc' = "write" /\ mode' = m /\ todo' = s /\ at' = p

\* The restore closure of appendSession.
Restore(cause) ==
  /\ Start("restore", ia.oldTail, ia.tail + 1)
  /\ run' = [run EXCEPT !.cause = cause]
  /\ UNCHANGED <<ia, result>>

----------------------------------------------------------------------------
(* The runs of the program *)

Session(r, n, prev, from, packs) ==
  [i \in 1..(packs + 1) |->
     IF i <= packs THEN Pack(r) ELSE Index(r, n, prev, (from + 1)..(from + packs))]

\* createIncremental writes and syncs a temporary file and renames it into
\* place; any failure before that leaves no archive.
CreateIncremental(signer) ==
  /\ pc = "idle" /\ file = <<>> /\ run.n < MaxRuns
  /\ \E packs \in 0..MaxPacks :
       LET s == Session(run.n + 1, 1, 0, 0, packs)
           f == Append(s, TailCell(Len(s), s)) \o
                  (IF signer = NoSigner THEN <<>> ELSE SignatureBlock(signer, s))
       IN file' = f /\ sealed' = 1 /\ Durable(f, 1)
  /\ run' = [run EXCEPT !.n = @ + 1]
  /\ result' = Result("ok", signer # NoSigner, FALSE)
  /\ UNCHANGED <<pc, mode, todo, at, ia>>

\* updateIncremental up to diffInputs: load the archive, repair its tail when
\* the newest session was found by scanning.
UpdateIncremental(signer) ==
  /\ pc = "idle" /\ file # <<>> /\ run.n < MaxRuns
  /\ IF LoadOK(file, sealed)
     THEN LET l == LoadIncremental(file)
              sum == IF l.recovered THEN SubSeq(file, 1, l.tail) ELSE l.sum
          IN /\ ia' = [last |-> l.last, tail |-> l.tail, sessions |-> l.sessions,
                       recovered |-> l.recovered, sum |-> sum, oldTail |-> <<>>]
             /\ IF l.recovered
                THEN Start("repair", <<TailCell(l.last, sum)>>, l.tail + 1)
                ELSE pc' = "diff" /\ UNCHANGED <<mode, todo, at>>
             /\ run' = NewRun(signer)
             /\ UNCHANGED result
     ELSE /\ run' = [run EXCEPT !.n = @ + 1]
          /\ result' = Result("error", FALSE, FALSE)
          /\ UNCHANGED <<pc, mode, todo, at, ia>>
  /\ UNCHANGED <<file, sealed, durable>>

\* diffInputs found no change.
FinishUnchanged ==
  LET footer == file[ia.tail + 1].sum
      kept == run.signer # NoSigner /\ ~run.repaired
                /\ SignedBy(run.signature, footer, run.signer)
      refused == run.signer # NoSigner /\ ~run.repaired /\ ~kept
                   /\ footer # SubSeq(file, 1, ia.tail)
  IN /\ pc = "diff"
     /\ \/ /\ run.signer = NoSigner
           /\ Finish(Result("ok", FALSE, run.repaired /\ run.signature # <<>>))
        \/ kept /\ Finish(Result("ok", FALSE, FALSE))
        \/ refused /\ Finish(Result("error", FALSE, FALSE))
        \/ /\ run.signer # NoSigner /\ ~kept /\ ~refused
           /\ Start("sign", SignatureBlock(run.signer, footer), ia.tail + 2)
           /\ UNCHANGED <<ia, run, result>>
     /\ UNCHANGED <<file, sealed, durable>>

\* Mutants of AppendSession: the header count is resealed before the session is
\* written; the footer checksum restarts at the session; the session is written
\* one cell early; only the tail is saved, not the signature behind it.
AppendSession_SealsFirst ==
  /\ pc = "diff"
  /\ ia' = [ia EXCEPT !.oldTail = SubSeq(file, ia.tail + 1, Len(file))]
  /\ \E packs \in 0..MaxPacks :
       LET s == Session(run.n, ia.sessions + 1, ia.last, ia.tail, packs)
       IN Start("append", Append(s, TailCell(ia.tail + Len(s), ia.sum \o s)), ia.tail + 1)
  /\ sealed' = ia.sessions + 1
  /\ UNCHANGED <<file, durable, run, result>>

AppendSession_SumRestarts ==
  /\ pc = "diff"
  /\ ia' = [ia EXCEPT !.oldTail = SubSeq(file, ia.tail + 1, Len(file))]
  /\ \E packs \in 0..MaxPacks :
       LET s == Session(run.n, ia.sessions + 1, ia.last, ia.tail, packs)
       IN Start("append", Append(s, TailCell(ia.tail + Len(s), s)), ia.tail + 1)
  /\ UNCHANGED <<file, sealed, durable, run, result>>

AppendSession_OffByOne ==
  /\ pc = "diff"
  /\ ia' = [ia EXCEPT !.oldTail = SubSeq(file, ia.tail + 1, Len(file))]
  /\ \E packs \in 0..MaxPacks :
       LET s == Session(run.n, ia.sessions + 1, ia.last, ia.tail, packs)
       IN Start("append", Append(s, TailCell(ia.tail + Len(s), ia.sum \o s)), ia.tail)
  /\ UNCHANGED <<file, sealed, durable, run, result>>

AppendSession_KeepsTailOnly ==
  /\ pc = "diff"
  /\ ia' = [ia EXCEPT !.oldTail = SubSeq(file, ia.tail + 1, ia.tail + 1)]
  /\ \E packs \in 0..MaxPacks :
       LET s == Session(run.n, ia.sessions + 1, ia.last, ia.tail, packs)
       IN Start("append", Append(s, TailCell(ia.tail + Len(s), ia.sum \o s)), ia.tail + 1)
  /\ UNCHANGED <<file, sealed, durable, run, result>>

\* diffInputs found changes: save the old tail and write the session over it.
AppendSession ==
  /\ pc = "diff"
  /\ ia' = [ia EXCEPT !.oldTail = SubSeq(file, ia.tail + 1, Len(file))]
  /\ \E packs \in 0..MaxPacks :
       LET s == Session(run.n, ia.sessions + 1, ia.last, ia.tail, packs)
       IN Start("append", Append(s, TailCell(ia.tail + Len(s), ia.sum \o s)), ia.tail + 1)
  /\ UNCHANGED <<file, sealed, durable, run, result>>

\* No file of the session could be read: writeSession stops before its index.
EmptySession ==
  /\ pc = "write" /\ mode = "append" /\ IsEntry(Head(todo))
  /\ Restore("ok")
  /\ UNCHANGED <<file, sealed, durable>>

\* SignArchiveFile ("sarc sign"): sign an archive whose checksum matches.
SignArchiveFile(signer) ==
  /\ pc = "idle" /\ file # <<>> /\ run.n < MaxRuns /\ signer # NoSigner
  /\ IF ArchiveChecksum(file)
     THEN LET p == SplitSignature(file)
          IN /\ Start("sign", SignatureBlock(signer, file[p].sum), p + 1)
             /\ run' = NewRun(signer)
             /\ UNCHANGED result
     ELSE /\ run' = [run EXCEPT !.n = @ + 1]
          /\ result' = Result("error", FALSE, FALSE)
          /\ UNCHANGED <<pc, mode, todo, at>>
  /\ UNCHANGED <<file, sealed, durable, ia>>

----------------------------------------------------------------------------
(* The steps of a write: the cells, truncate, sync; they are the same for a *)
(* repair, a session, a restored tail and a signature                      *)

WriteCell ==
  /\ pc = "write"
  /\ Wrote(at, Head(todo))
  /\ at' = at + 1
  /\ todo' = Tail(todo)
  /\ pc' = IF Tail(todo) = <<>> THEN "trunc" ELSE "write"
  /\ UNCHANGED <<sealed, mode, ia, run, result>>

\* What follows a failed step of a write.
Failed ==
  IF mode = "append" THEN Restore("error") ELSE Finish(Result("error", FALSE, FALSE))

\* A write error, which may leave a part of the cell.
WriteFails ==
  /\ "write" \in Faults /\ pc = "write"
  /\ \/ Wrote(at, Junk)
     \/ UNCHANGED <<file, durable>>
  /\ Failed
  /\ UNCHANGED sealed

\* A mutant: the file is not truncated.
Truncate_Skipped ==
  /\ pc = "trunc"
  /\ pc' = "sync"
  /\ UNCHANGED <<file, sealed, maybe, lens, seals, mode, todo, at, ia, run, result>>

Truncate ==
  /\ pc = "trunc"
  /\ file' = SubSeq(file, 1, at - 1)
  /\ lens' = IF Lossy THEN lens \cup {at - 1} ELSE lens
  /\ pc' = "sync"
  /\ UNCHANGED <<sealed, maybe, seals, mode, todo, at, ia, run, result>>

Sync ==
  /\ pc = "sync"
  /\ Durable(file, sealed)
  /\ \/ /\ mode = "repair"
        /\ pc' = "diff" /\ mode' = "none" /\ at' = 0
        /\ ia' = [ia EXCEPT !.recovered = FALSE]
        /\ run' = [run EXCEPT !.repaired = TRUE]
        /\ UNCHANGED <<todo, result>>
     \/ /\ mode = "append"
        /\ pc' = "seal"
        /\ UNCHANGED <<mode, todo, at, ia, run, result>>
     \/ /\ mode = "restore"
        /\ Finish(Result(run.cause, FALSE, FALSE))
     \/ /\ mode = "sign"
        /\ Finish(Result("ok", TRUE, FALSE))
  /\ UNCHANGED <<file, sealed>>

\* truncateAndSync fails, at the truncate or at the sync.
SyncFails ==
  /\ "sync" \in Faults /\ pc \in {"trunc", "sync"}
  /\ Failed
  /\ UNCHANGED <<file, sealed, durable>>

\* The header's session count is resealed in place ...
Seal ==
  /\ pc = "seal"
  /\ sealed' = ia.sessions + 1
  /\ seals' = IF Lossy THEN seals \cup {ia.sessions + 1} ELSE seals
  /\ pc' = "sealsync"
  /\ UNCHANGED <<file, maybe, lens, mode, todo, at, ia, run, result>>

\* Mutants of SealSync: the removed signature is not reported; the checksum that
\* is signed is the one the run loaded.
SealSync_NotReported ==
  /\ pc = "sealsync"
  /\ Durable(file, sealed)
  /\ IF run.signer # NoSigner
     THEN /\ Start("sign", SignatureBlock(run.signer, file[at - 1].sum), at)
          /\ UNCHANGED <<ia, run, result>>
     ELSE Finish(Result("ok", FALSE, FALSE))
  /\ UNCHANGED <<file, sealed>>

SealSync_SignsOldSum ==
  /\ pc = "sealsync"
  /\ Durable(file, sealed)
  /\ IF run.signer # NoSigner
     THEN /\ Start("sign", SignatureBlock(run.signer, ia.sum), at)
          /\ UNCHANGED <<ia, run, result>>
     ELSE Finish(Result("ok", FALSE, run.signature # <<>>))
  /\ UNCHANGED <<file, sealed>>

\* ... and synced; then the session is signed, or the run is done.
SealSync ==
  /\ pc = "sealsync"
  /\ Durable(file, sealed)
  /\ IF run.signer # NoSigner
     THEN /\ Start("sign", SignatureBlock(run.signer, file[at - 1].sum), at)
          /\ UNCHANGED <<ia, run, result>>
     ELSE Finish(Result("ok", FALSE, run.signature # <<>>))
  /\ UNCHANGED <<file, sealed>>

\* Neither failure restores the old tail.
SealFails ==
  /\ \/ "write" \in Faults /\ pc = "seal"
     \/ "sync" \in Faults /\ pc = "sealsync"
  /\ Finish(Result("error", FALSE, FALSE))
  /\ UNCHANGED <<file, sealed, durable>>

----------------------------------------------------------------------------
(* Crashes *)

\* The process dies; what it wrote stays, the cell being written in part.
Kill ==
  /\ "kill" \in Faults /\ pc # "idle"
  /\ \/ pc = "write" /\ Wrote(at, Junk)
     \/ UNCHANGED <<file, durable>>
  /\ Finish(Result("crashed", FALSE, FALSE))
  /\ UNCHANGED sealed

\* The machine loses power: any of the writes since the last sync may be lost.
PowerLoss ==
  /\ Lossy /\ file # <<>>
  /\ \E n \in lens, s \in seals :
       LET open == {i \in 1..n : Cardinality(maybe[i]) > 1}
       IN \E g \in [open -> UNION {maybe[i] : i \in open}] :
            /\ \A i \in open : g[i] \in maybe[i]
            /\ file' = [i \in 1..n |-> IF i \in open THEN g[i] ELSE CHOOSE c \in maybe[i] : TRUE]
            /\ sealed' = s
            /\ Durable(file', s)
  /\ Finish(Result("crashed", FALSE, FALSE))

Init ==
  /\ file = <<>> /\ sealed = 0
  /\ maybe = <<>> /\ lens = {0} /\ seals = {0}
  /\ pc = "idle" /\ mode = "none" /\ todo = <<>> /\ at = 0
  /\ ia = NoArchive
  /\ run = [n |-> 0, signer |-> NoSigner, signature |-> <<>>, repaired |-> FALSE, cause |-> "ok"]
  /\ result = Result("ok", FALSE, FALSE)

Next ==
  \/ \E k \in Signers \cup {NoSigner} : CreateIncremental(k)
  \/ \E k \in Signers \cup {NoSigner} : UpdateIncremental(k)
  \/ \E k \in Signers : SignArchiveFile(k)
  \/ FinishUnchanged \/ AppendSession \/ EmptySession
  \/ WriteCell \/ WriteFails \/ Truncate \/ Sync \/ SyncFails
  \/ Seal \/ SealSync \/ SealFails
  \/ Kill \/ PowerLoss

Spec == Init /\ [][Next]_vars

----------------------------------------------------------------------------
(* Properties *)

\* The types of the variables (io/incremental.go:21-31 for ia): every piece of
\* state a run or a crash leaves is one the next run can read.
TypeOK ==
  /\ \A i \in DOMAIN file : file[i].kind \in {"junk", "pack", "index", "tail", "sig"}
  /\ sealed \in Nat
  /\ pc \in {"idle", "diff", "write", "trunc", "sync", "seal", "sealsync"}
  /\ mode \in {"none", "repair", "append", "restore", "sign"}
  /\ (pc = "write") = (todo # <<>>)
  /\ at \in Nat
  /\ ia.tail \in Nat /\ ia.last \in 0..ia.tail /\ ia.sessions \in Nat
  /\ run.n \in 0..MaxRuns /\ run.signer \in Signers \cup {NoSigner}
  /\ result.status \in {"ok", "error", "crashed"}

\* loadIncremental (io/incremental.go:71-96) opens the archive at every moment,
\* so also after a run died at any step: it is never refused because its index
\* chain is broken or because its newest session is older than the sealed count.
AlwaysOpens == file # <<>> => LoadOK(file, sealed)

\* Every pack named by a session that loads is still the one that session's run
\* wrote: no update, repair or restored tail has written over it
\* (appendSession writes at ia.tail, io/incremental_write.go:385-433).
NewestStateIntact ==
  file # <<>> /\ LoadOK(file, sealed) =>
    \A i \in 1..LastIndex(file) :
      file[i].kind = "index" => \A p \in file[i].packs : file[p] = Pack(file[i].run)

\* Reading through the checkpoint finds the session a scan would find, and the
\* footer checksum, which updates extend from the checkpoint's saved state
\* without rereading the archive, matches the bytes before it.
CheckpointSound ==
  ReadCheckpoint(file) =>
    /\ Scanned(file) # {} /\ LastIndex(file) = ScanForLastIndex(file)
    /\ ArchiveChecksum(file)

\* While the tail is intact, a whole signature block behind it is over the
\* archive's current checksum: an interrupted or failed update never leaves the
\* old signature behind a new tail (writeSignature, truncateAndSync, restore).
SignatureCovers ==
  LET sig == Signature(file)
  IN ReadCheckpoint(file) /\ sig # <<>> /\ (\A p \in DOMAIN sig : sig[p].kind = "sig")
       => \A p \in DOMAIN sig : sig[p].over = file[SplitSignature(file)].sum

\* The bytes of a sealed session are never changed again: not by later updates,
\* repairs or restores (what readers of an older tail rely on).
SealedPrefix(f) == {i \in DOMAIN f : \E j \in i..Len(f) : f[j].kind = "index" /\ f[j].session <= sealed}
SealedNeverRewritten ==
  [][\A i \in SealedPrefix(file) : i \in DOMAIN file' /\ file'[i] = file[i]]_vars

\* Once a failed or empty session is undone (appendSession's restore closure,
\* io/incremental_write.go:398-406), the archive ends as the run found it: the
\* same newest session, and behind its tail the same signature, unless the run
\* had to repair the tail first.  (When sealing the count fails nothing is put back,
\* io/incremental_write.go:420-429.)
RestoreBringsBack ==
  mode = "restore" /\ pc = "sync" =>
    /\ ReadCheckpoint(file) /\ LastIndex(file) = ia.last
    /\ ~run.repaired => Signature(file) = run.signature

\* IncrementalResult.SignatureRemoved (io/incremental_write.go:62-64): a run
\* without a signer that ends well reports a removed signature exactly when the
\* archive had one and has none now.  (A run that repairs the tail and then
\* records nothing returns before it reports, io/incremental_write.go:220-222.)
RemovalReported ==
  [][(/\ pc # "idle" /\ pc' = "idle" /\ result'.status = "ok" /\ run.signer = NoSigner
      /\ ~(run.repaired /\ mode = "restore"))
       => result'.removed = (run.signature # <<>> /\ Signature(file') = <<>>)]_vars
=============================================================================
