------------------------ MODULE IncrementalInvariant ------------------------
(***************************************************************************)
(* The inductive invariant behind AlwaysOpens and NewestStateIntact: what  *)
(* the file of an incremental archive looks like at every step of a run,   *)
(* when no power is lost and no sync fails.                                *)
(***************************************************************************)
EXTENDS IncrementalStore

\* Nothing that was written is lost again.
NoLoss == "power" \notin Faults /\ "sync" \notin Faults

IsSeq(s) == s \in Seq({s[i] : i \in DOMAIN s})

\* The index at i continues the chain below it, and its packs are there.
Linked(f, i) ==
  /\ f[i].session \in Nat \ {0}
  /\ IF f[i].session = 1
     THEN f[i].prev = 0
     ELSE /\ f[i].prev \in 1..(i - 1)
          /\ f[f[i].prev].kind = "index"
          /\ f[f[i].prev].session = f[i].session - 1
  /\ \A p \in f[i].packs : p \in 1..(i - 1) /\ f[p] = Pack(f[i].run)

\* Cells 1..t are whole sessions, each index linked to the one before it.
Chained(f, t) ==
  /\ t \in 1..Len(f) /\ f[t].kind = "index"
  /\ \A i \in 1..t : IsEntry(f[i]) /\ (f[i].kind = "index" => Linked(f, i))

\* A trailer at the end of f belongs to a block right behind a tail at t + 1,
\* and a tail at the end is that tail.
EndFits(f, t) ==
  /\ IsTrailer(f[Len(f)]) => f[Len(f)].of = Len(f) - t - 1
  /\ f[Len(f)].kind = "tail" => Len(f) = t + 1

\* The cell is a tail that names t as the newest index.
TailOf(c, t) == c.kind = "tail" /\ c.last = t

\* The session at t is followed by its tail.
Tailed(f, t) == Chained(f, t) /\ Len(f) > t /\ TailOf(f[t + 1], t) /\ EndFits(f, t)

\* Reading f finds the session at t, through the checkpoint or by a scan.
SoundAt(f, s, t) ==
  /\ Chained(f, t) /\ f[t].session >= s
  /\ t <= SplitSignature(f)
  /\ \A i \in (t + 1)..SplitSignature(f) :
       f[i].kind = "index" => \E j \in (t + 1)..i : ~IsEntry(f[j])
  /\ f[SplitSignature(f)].kind = "tail" => SplitSignature(f) = t + 1 /\ TailOf(f[t + 1], t)

Sound(f, s) == \E t \in 1..Len(f) : SoundAt(f, s, t)

----------------------------------------------------------------------------
(* The parts of the invariant *)

KindsOK(s) ==
  \A i \in 1..Len(s) :
    /\ s[i].kind \in {"junk", "pack", "index", "tail", "sig"}
    /\ s[i].kind = "sig" => s[i].of \in Nat

Shapes ==
  /\ IsSeq(file) /\ IsSeq(todo) /\ IsSeq(ia.oldTail)
  /\ KindsOK(file) /\ KindsOK(todo) /\ KindsOK(ia.oldTail)
  /\ ia \in [last : Nat, tail : Nat, sessions : Nat, recovered : BOOLEAN,
             sum : {ia.sum}, oldTail : {ia.oldTail}]
  /\ ia.last = ia.tail
  /\ run \in [n : 0..MaxRuns, signer : Signers \cup {NoSigner}, signature : {run.signature},
              repaired : BOOLEAN, cause : {"ok", "error"}]
  /\ sealed \in Nat /\ at \in Nat
  /\ result.status \in {"ok", "error", "crashed"}

Control ==
  /\ pc \in {"idle", "diff", "write", "trunc", "sync", "seal", "sealsync"}
  /\ mode \in {"none", "repair", "append", "restore", "sign"}
  /\ pc \in {"idle", "diff"} <=> mode = "none"
  /\ pc \in {"seal", "sealsync"} => mode = "append"
  /\ (pc = "write") <=> (todo # <<>>)
  /\ pc = "idle" => ia = NoArchive

Opens == file # <<>> => Sound(file, sealed)

\* The run's view of the archive is that of the file.
Loaded ==
  /\ ia.last = ia.tail
  /\ Chained(file, ia.tail) /\ file[ia.tail].session = ia.sessions

DiffInv ==
  pc = "diff" =>
    /\ Loaded /\ ia.sessions >= sealed
    /\ Tailed(file, ia.tail) /\ SplitSignature(file) = ia.tail + 1

RepairInv ==
  mode = "repair" =>
    /\ Loaded /\ ia.sessions >= sealed
    /\ pc = "write" =>
         /\ at = ia.tail + 1 /\ Len(todo) = 1 /\ TailOf(todo[1], ia.tail)
         /\ SoundAt(file, sealed, ia.tail)
    /\ pc \in {"trunc", "sync"} =>
         at = ia.tail + 2 /\ Len(file) > ia.tail /\ TailOf(file[ia.tail + 1], ia.tail)
    /\ pc = "sync" => Len(file) = ia.tail + 1

\* c is the cell at q of the session whose index is at e.
NewCell(c, q, e) ==
  /\ q < e => c = Pack(run.n)
  /\ q = e => c = Index(run.n, ia.sessions + 1, ia.tail, (ia.tail + 1)..(e - 1))
  /\ q = e + 1 => TailOf(c, e)

\* The old tail: a tail, and behind it nothing or a block that ends in a trailer.
OldTail ==
  /\ Len(ia.oldTail) > 0 /\ TailOf(ia.oldTail[1], ia.tail)
  /\ Len(ia.oldTail) > 1 =>
       LET c == ia.oldTail[Len(ia.oldTail)] IN IsTrailer(c) /\ c.of = Len(ia.oldTail) - 1
  /\ Len(file) >= ia.tail + Len(ia.oldTail)

\* What has not been overwritten yet of the old tail.
Leftover ==
  Len(file) >= at =>
    \/ IsTrailer(file[Len(file)]) /\ file[Len(file)].of = Len(file) - ia.tail - 1
    \/ at = ia.tail + 1 /\ Len(file) = at

\* The position of the index of the session being written.
NewIndex == at + Len(todo) - 2

\* The new session is written up to at, and the rest of it is to come.
Writing ==
  /\ at > ia.tail /\ NewIndex > ia.tail /\ Len(file) >= at - 1
  /\ \A q \in (ia.tail + 1)..(at - 1) : NewCell(file[q], q, NewIndex)
  /\ \A n \in 1..Len(todo) : NewCell(todo[n], at + n - 1, NewIndex)
  /\ at = ia.tail + 1 => TailOf(file[at], ia.tail)

AppendInv ==
  mode = "append" =>
    /\ Loaded
    /\ pc \in {"write", "trunc"} => ia.sessions >= sealed /\ OldTail /\ Leftover /\ Writing
    /\ pc \in {"sync", "seal", "sealsync"} =>
         /\ at > 2 /\ Len(file) = at - 1 /\ Tailed(file, at - 2)
         /\ file[at - 2].session = ia.sessions + 1 /\ sealed <= ia.sessions + 1

RestoreInv ==
  mode = "restore" =>
    /\ Loaded /\ ia.sessions >= sealed /\ OldTail /\ EndFits(file, ia.tail)
    /\ at > ia.tail /\ Len(todo) = ia.tail + 1 + Len(ia.oldTail) - at
    /\ \A n \in 1..Len(todo) : todo[n] = ia.oldTail[at - ia.tail + n - 1]
    /\ \A q \in (ia.tail + 1)..(at - 1) : file[q] = ia.oldTail[q - ia.tail]
    /\ pc = "sync" => Len(file) = ia.tail + Len(ia.oldTail)

\* Cell c at position p may end a file whose newest session is at t.
SigFits(c, p, t) == c.kind = "sig" /\ (IsTrailer(c) => c.of = p - t - 1)

SignInv ==
  mode = "sign" =>
    \E t \in 1..Len(file) :
      /\ Tailed(file, t) /\ file[t].session >= sealed
      /\ at \in (t + 2)..(Len(file) + 1)
      /\ \A n \in 1..Len(todo) : SigFits(todo[n], at + n - 1, t)
      /\ at > t + 2 => SigFits(file[at - 1], at - 1, t)
      /\ pc # "write" => at > t + 2

IInv ==
  /\ Shapes /\ Control /\ Opens
  /\ DiffInv /\ RepairInv /\ AppendInv /\ RestoreInv /\ SignInv
=============================================================================
