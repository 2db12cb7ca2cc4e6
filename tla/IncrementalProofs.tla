-------------------------- MODULE IncrementalProofs --------------------------
(***************************************************************************)
(* An incremental archive always opens with its newest state intact, for   *)
(* any number of runs, packs and signers: runs may be killed at any step   *)
(* and writes may fail; no power is lost and no sync fails.                *)
(***************************************************************************)
EXTENDS IncrementalLemmas

LEMMA EmptyFacts == IsSeq(<<>>) /\ KindsOK(<<>>) /\ Len(<<>>) = 0
<1>1. <<>> \in Seq({}) /\ Len(<<>>) = 0
  BY EmptySeq
<1>2. 1..Len(<<>>) = {}
  BY <1>1
<1>3. KindsOK(<<>>)
  BY <1>2 DEF KindsOK
<1>4. IsSeq(<<>>)
  BY <1>1, MemberIsSeq, Zenon
<1> QED
  BY <1>1, <1>3, <1>4

LEMMA AppendFacts ==
  ASSUME NEW s, IsSeq(s), NEW c
  PROVE  /\ IsSeq(Append(s, c)) /\ Len(Append(s, c)) = Len(s) + 1
         /\ \A i \in 1..Len(s) : Append(s, c)[i] = s[i]
         /\ Append(s, c)[Len(s) + 1] = c
<1> DEFINE S == {s[i] : i \in DOMAIN s}
           T == S \cup {c}
<1>1. s \in Seq(S)
  BY DEF IsSeq
<1> HIDE DEF S
<1>2. s \in Seq(T) /\ c \in T
  BY <1>1, SeqMonotonic
<1> HIDE DEF T
<1>3. /\ Append(s, c) \in Seq(T) /\ Len(Append(s, c)) = Len(s) + 1
      /\ \A i \in 1..Len(s) : Append(s, c)[i] = s[i]
      /\ Append(s, c)[Len(s) + 1] = c
  BY <1>2, AppendProperties
<1> QED
  BY <1>3, MemberIsSeq, Zenon

LEMMA ConcatFacts ==
  ASSUME NEW s, IsSeq(s), NEW u, IsSeq(u)
  PROVE  /\ IsSeq(s \o u) /\ Len(s \o u) = Len(s) + Len(u)
         /\ \A i \in 1..Len(s) : (s \o u)[i] = s[i]
         /\ \A i \in 1..Len(u) : (s \o u)[Len(s) + i] = u[i]
<1> DEFINE S == {s[i] : i \in DOMAIN s}
           U == {u[i] : i \in DOMAIN u}
           T == S \cup U
<1>1. s \in Seq(S) /\ u \in Seq(U)
  BY DEF IsSeq
<1> HIDE DEF S, U
<1>2. s \in Seq(T) /\ u \in Seq(T)
  BY <1>1, SeqMonotonic
<1> HIDE DEF T
<1>3. /\ s \o u \in Seq(T) /\ Len(s \o u) = Len(s) + Len(u)
      /\ \A i \in 1..(Len(s) + Len(u)) :
           (s \o u)[i] = IF i <= Len(s) THEN s[i] ELSE u[i - Len(s)]
  BY <1>2, ConcatProperties
<1>4. Len(s) \in Nat /\ Len(u) \in Nat
  BY SeqFacts
<1>5. \A i \in 1..Len(s) : (s \o u)[i] = s[i]
  BY <1>3, <1>4
<1>6. \A i \in 1..Len(u) : (s \o u)[Len(s) + i] = u[i]
  <2> TAKE i \in 1..Len(u)
  <2>1. Len(s) + i \in 1..(Len(s) + Len(u)) /\ ~(Len(s) + i <= Len(s)) /\ Len(s) + i - Len(s) = i
    BY <1>4
  <2> QED
    BY <1>3, <2>1
<1> QED
  BY <1>3, <1>5, <1>6, MemberIsSeq, Zenon

LEMMA KindsAfterPut ==
  ASSUME NEW f, IsSeq(f), KindsOK(f), NEW p \in 1..(Len(f) + 1), NEW c,
         c.kind \in {"junk", "pack", "index", "tail", "sig"}, c.kind = "sig" => c.of \in Nat
  PROVE  KindsOK(Put(f, p, c))
<1> DEFINE g == Put(f, p, c)
<1>1. g[p] = c /\ \A i \in 1..Len(g) : i # p => i \in 1..Len(f) /\ g[i] = f[i]
  BY PutFacts
<1> HIDE DEF g
<1>2. KindsOK(g)
  BY <1>1 DEF KindsOK
<1> QED
  BY <1>2 DEF g

\* A signature block written at t + 2, behind the tail of the session at t.
LEMMA BlockFacts ==
  ASSUME NEW k \in Signers, NEW sum, NEW t \in Nat
  PROVE  LET b == SignatureBlock(k, sum)
         IN /\ IsSeq(b) /\ KindsOK(b) /\ Len(b) = SigLen[k] /\ Len(b) \in Nat \ {0} /\ b # <<>>
            /\ \A n \in 1..Len(b) : SigFits(b[n], t + 2 + n - 1, t)
            /\ \A n \in 1..Len(b) : b[n] = SigCell(k, sum, n)
<1> DEFINE b == SignatureBlock(k, sum)
<1>1. SigLen[k] \in Nat \ {0}
  BY StoreAssumption
<1>2. b = [p \in 1..SigLen[k] |-> SigCell(k, sum, p)]
  BY DEF SignatureBlock
<1>3. b = [p \in 1..SigLen[k] |-> b[p]] /\ \A n \in 1..SigLen[k] : b[n] = SigCell(k, sum, n)
  BY <1>2
<1> HIDE DEF b
<1>4. IsSeq(b) /\ Len(b) = SigLen[k]
  BY <1>1, <1>3, FunctionIsSeq
<1>5. \A n \in 1..Len(b) : b[n].kind = "sig" /\ b[n].part = n /\ b[n].of = Len(b)
  <2> TAKE n \in 1..Len(b)
  <2>1. b[n] = SigCell(k, sum, n)
    BY <1>3, <1>4, Zenon
  <2>2. LET c == SigCell(k, sum, n) IN c.kind = "sig" /\ c.part = n /\ c.of = SigLen[k]
    BY DEF SigCell
  <2> QED
    BY <1>4, <2>1, <2>2
<1>6. KindsOK(b)
  BY <1>1, <1>4, <1>5 DEF KindsOK
<1>7. \A n \in 1..Len(b) : SigFits(b[n], t + 2 + n - 1, t)
  <2> TAKE n \in 1..Len(b)
  <2>1. t + 2 + n - 1 - t - 1 = n
    BY <1>1, <1>4
  <2> QED
    BY <1>5, <2>1 DEF SigFits, IsTrailer
<1>8. b # <<>>
  BY <1>1, <1>4, SeqFacts
<1> QED
  BY <1>1, <1>3, <1>4, <1>6, <1>7, <1>8, Zenon DEF b

----------------------------------------------------------------------------
(* The end of a run, in whatever way *)

\* What Finish does, whatever it reports.
Ended ==
  /\ pc' = "idle" /\ mode' = "none" /\ todo' = <<>> /\ at' = 0 /\ ia' = NoArchive
  /\ run' = [n |-> run.n, signer |-> NoSigner, signature |-> <<>>, repaired |-> FALSE, cause |-> "ok"]
  /\ result'.status \in {"ok", "error", "crashed"}

\* What the invariant says of the other purposes of a write.
LEMMA Vacuous ==
  /\ pc' # "diff" => DiffInv'
  /\ mode' # "repair" => RepairInv'
  /\ mode' # "append" => AppendInv'
  /\ mode' # "restore" => RestoreInv'
  /\ mode' # "sign" => SignInv'
<1>1. pc' # "diff" => DiffInv'
  BY DEF DiffInv
<1>2. mode' # "repair" => RepairInv'
  BY DEF RepairInv
<1>3. mode' # "append" => AppendInv'
  BY DEF AppendInv
<1>4. mode' # "restore" => RestoreInv'
  BY DEF RestoreInv
<1>5. mode' # "sign" => SignInv'
  BY DEF SignInv
<1> QED
  BY <1>1, <1>2, <1>3, <1>4, <1>5

LEMMA FinishInv ==
  ASSUME Shapes, Ended, IsSeq(file'), KindsOK(file'), Opens', sealed' \in Nat
  PROVE  IInv'
<1>1. /\ pc' = "idle" /\ mode' = "none" /\ todo' = <<>> /\ at' = 0 /\ ia' = NoArchive
      /\ run' = [n |-> run.n, signer |-> NoSigner, signature |-> <<>>, repaired |-> FALSE,
                 cause |-> "ok"]
      /\ result'.status \in {"ok", "error", "crashed"}
  BY DEF Ended
<1>2. Shapes'
  <2>1. run.n \in 0..MaxRuns
    BY DEF Shapes
  <2>2. ia'.oldTail = <<>> /\ IsSeq(ia'.oldTail) /\ KindsOK(ia'.oldTail) /\ ia'.last = ia'.tail
    BY <1>1, EmptyFacts DEF NoArchive
  <2>3. /\ ia' \in [last : Nat, tail : Nat, sessions : Nat, recovered : BOOLEAN,
                    sum : {ia'.sum}, oldTail : {ia'.oldTail}]
        /\ run' \in [n : 0..MaxRuns, signer : Signers \cup {NoSigner},
                     signature : {run'.signature}, repaired : BOOLEAN, cause : {"ok", "error"}]
    BY <1>1, <2>1 DEF NoArchive
  <2>4. IsSeq(todo') /\ KindsOK(todo') /\ at' \in Nat /\ result'.status \in {"ok", "error", "crashed"}
    BY <1>1, EmptyFacts
  <2> QED
    BY <2>2, <2>3, <2>4 DEF Shapes
<1>3. Control'
  BY <1>1 DEF Control
<1>4. DiffInv' /\ RepairInv' /\ AppendInv' /\ RestoreInv' /\ SignInv'
  BY <1>1, Vacuous
<1> QED
  BY <1>2, <1>3, <1>4 DEF IInv

----------------------------------------------------------------------------
(* Facts about a state in which a run writes *)

LEMMA ChainType ==
  ASSUME NEW f, IsSeq(f), NEW t, t \in Nat, Chained(f, t)
  PROVE  t \in 1..Len(f) /\ f[t].session \in Nat \ {0} /\ Len(f) \in Nat /\ f # <<>>
<1>1. Len(f) \in Nat /\ t \in 1..Len(f)
  BY SeqFacts DEF Chained
<1>2. f[t].session \in Nat \ {0}
  BY <1>1 DEF Chained, Linked
<1> QED
  BY <1>1, <1>2, SeqFacts

LEMMA WriteFacts ==
  ASSUME IInv, pc = "write"
  PROVE  /\ at \in 1..(Len(file) + 1) /\ Len(file) \in Nat
         /\ todo # <<>> /\ Len(todo) \in Nat /\ Len(todo) > 0
         /\ mode \in {"repair", "append", "restore", "sign"}
<1>1. todo # <<>> /\ Len(todo) \in Nat /\ Len(todo) > 0 /\ Len(file) \in Nat /\ at \in Nat
  BY SeqFacts DEF IInv, Control, Shapes
<1>2. mode \in {"repair", "append", "restore", "sign"}
  BY DEF IInv, Control
<1>3. ia.tail \in Nat /\ IsSeq(file) /\ IsSeq(ia.oldTail)
  BY DEF IInv, Shapes
<1>4. mode # "sign" => ia.tail \in 1..Len(file)
  BY <1>2, <1>3, ChainType DEF IInv, RepairInv, AppendInv, RestoreInv, Loaded
<1>5. CASE mode = "repair"
  BY <1>1, <1>4, <1>5 DEF IInv, RepairInv
<1>6. CASE mode = "append"
  BY <1>1, <1>4, <1>6 DEF IInv, AppendInv, Writing
<1>7. CASE mode = "restore"
  <2>1. Len(ia.oldTail) \in Nat
    BY <1>3, SeqFacts
  <2>2. /\ Len(file) >= ia.tail + Len(ia.oldTail) /\ at > ia.tail
        /\ Len(todo) = ia.tail + 1 + Len(ia.oldTail) - at
    BY <1>7 DEF IInv, RestoreInv, OldTail
  <2> QED
    BY <1>1, <1>2, <1>4, <1>7, <2>1, <2>2
<1>8. CASE mode = "sign"
  <2>1. PICK t \in 1..Len(file) : at \in (t + 2)..(Len(file) + 1)
    BY <1>8 DEF IInv, SignInv
  <2> QED
    BY <1>1, <1>2, <2>1
<1> QED
  BY <1>2, <1>5, <1>6, <1>7, <1>8

\* A part of the cell being written does not keep the archive from opening.
LEMMA JunkSound ==
  ASSUME IInv, pc = "write"
  PROVE  LET g == Put(file, at, Junk)
         IN /\ IsSeq(g) /\ KindsOK(g) /\ Sound(g, sealed)
            /\ mode \in {"append", "restore"} =>
                 /\ Len(g) >= Len(file) /\ Chained(g, ia.tail) /\ g[ia.tail] = file[ia.tail]
                 /\ EndFits(g, ia.tail)
<1> DEFINE g == Put(file, at, Junk)
           t == ia.tail
<1>1. /\ at \in 1..(Len(file) + 1) /\ Len(file) \in Nat /\ Len(todo) \in Nat /\ Len(todo) > 0
      /\ mode \in {"repair", "append", "restore", "sign"}
  BY WriteFacts
<1>2. IsSeq(file) /\ KindsOK(file) /\ sealed \in Nat /\ ia.tail \in Nat /\ ia.sessions \in Nat
      /\ at \in Nat /\ IsSeq(ia.oldTail)
  BY DEF IInv, Shapes
<1>3. Junk.kind = "junk" /\ ~IsEntry(Junk) /\ ~IsTrailer(Junk)
  BY DEF Junk, IsEntry, IsTrailer
<1>4. /\ IsSeq(g) /\ Len(g) = (IF at > Len(file) THEN at ELSE Len(file)) /\ g[at] = Junk
      /\ \A i \in 1..Len(g) : i # at => i \in 1..Len(file) /\ g[i] = file[i]
  BY <1>1, <1>2, PutFacts
<1>5. KindsOK(g)
  BY <1>1, <1>2, <1>3, KindsAfterPut
<1>6. CASE mode = "repair"
  <2>1. at = t + 1 /\ SoundAt(file, sealed, t)
    BY <1>6 DEF IInv, RepairInv
  <2>2. SoundAt(g, sealed, t)
    BY <1>2, <1>3, <2>1, PutBehind
  <2>3. t \in 1..Len(g)
    BY <1>2, <1>4, <2>2, ChainType DEF SoundAt
  <2> QED
    BY <1>4, <1>5, <1>6, <2>2, <2>3 DEF Sound
<1>7. CASE mode = "append"
  <2>1. /\ Loaded /\ ia.sessions >= sealed /\ OldTail /\ Leftover /\ Writing
    BY <1>7 DEF IInv, AppendInv
  <2>2. t \in 1..Len(file)
    BY <1>2, <2>1, ChainType DEF Loaded
  <2>3. at \in (t + 1)..(Len(file) + 1)
    BY <1>1, <1>2, <2>1 DEF Writing
  <2>4. Chained(g, t) /\ g[t] = file[t] /\ g[t].session = ia.sessions
    BY <1>2, <2>1, <2>3, PutKeepsChain DEF Loaded
  <2> DEFINE e == NewIndex
  <2>5. e \in Nat /\ e > t /\ at \in (t + 1)..(e + 1)
    BY <1>1, <1>2, <2>1, <2>2, <2>3 DEF Writing, NewIndex
  <2> HIDE DEF g, e
  <2>6. Len(g) \in Nat /\ Len(g) >= at /\ Len(g) >= Len(file)
    BY <1>1, <1>4
  <2>7. \A q \in (t + 1)..(at - 1) : NewCell(g[q], q, e)
    <3>1. \A q \in (t + 1)..(at - 1) : NewCell(file[q], q, e)
      BY <2>1 DEF Writing, e
    <3>2. \A q \in (t + 1)..(at - 1) : q \in 1..Len(g) /\ q # at
      BY <1>2, <2>3, <2>6
    <3> QED
      BY <1>4, <3>1, <3>2
  <2>a. at \in (t + 1)..(e + 2) /\ Len(g) >= at - 1 /\ at <= e + 1
    BY <1>2, <2>5, <2>6
  <2>b. g[t].session = ia.sessions /\ Chained(g, t) /\ IsSeq(g) /\ e \in Nat /\ e > t
    BY <1>4, <2>4, <2>5
  <2>8. CASE Len(file) <= at
    <3>1. Len(g) = at /\ g[at].kind = "junk"
      BY <1>1, <1>3, <1>4, <2>8
    <3>2. Sound(g, sealed)
      BY <1>2, <2>1, <2>7, <2>a, <2>b, <3>1, WritingSound, Zenon
    <3>3. EndFits(g, t)
      BY <1>3, <1>4, <3>1 DEF EndFits
    <3> QED
      BY <1>4, <1>5, <2>4, <2>6, <3>2, <3>3 DEF g
  <2>9. CASE Len(file) > at
    <3>1. /\ IsTrailer(file[Len(file)]) /\ file[Len(file)].of = Len(file) - t - 1
          /\ Len(g) = Len(file) /\ g[Len(g)] = file[Len(file)]
      BY <1>1, <1>2, <1>4, <2>1, <2>6, <2>9 DEF Leftover
    <3>2. /\ Len(g) >= at /\ IsTrailer(g[Len(g)]) /\ g[Len(g)].of = Len(g) - t - 1
          /\ g[at].kind = "junk"
      BY <1>3, <1>4, <2>6, <3>1
    <3>3. Sound(g, sealed)
      BY <1>2, <2>1, <2>7, <2>a, <2>b, <3>2, WritingSound
    <3>4. EndFits(g, t)
      BY <3>2 DEF EndFits, IsTrailer
    <3> QED
      BY <1>4, <1>5, <2>4, <2>6, <3>3, <3>4 DEF g
  <2> QED
    BY <1>1, <2>8, <2>9
<1>8. CASE mode = "restore"
  <2>1. /\ Loaded /\ ia.sessions >= sealed /\ OldTail /\ EndFits(file, t) /\ at > t
        /\ \A q \in (t + 1)..(at - 1) : file[q] = ia.oldTail[q - t]
    BY <1>8 DEF IInv, RestoreInv
  <2>2. t \in 1..Len(file) /\ at \in (t + 1)..(Len(file) + 1) /\ Chained(file, t)
    BY <1>1, <1>2, <2>1, ChainType DEF Loaded
  <2>3. Chained(g, t) /\ g[t] = file[t] /\ g[t].session >= sealed
    BY <1>2, <2>1, <2>2, PutKeepsChain DEF Loaded
  <2>4. Len(g) \in Nat /\ Len(g) >= at /\ Len(g) >= Len(file) /\ Len(g) > t
    BY <1>1, <1>4, <2>2
  <2>5. Len(file) > t
    <3>1. Len(ia.oldTail) \in Nat
      BY <1>2, SeqFacts
    <3> QED
      BY <1>1, <1>2, <2>1, <3>1 DEF OldTail
  <2> HIDE DEF g
  <2>6. EndFits(g, t)
    <3>1. CASE at >= Len(file)
      <4>1. Len(g) = at /\ g[Len(g)] = Junk
        BY <1>1, <1>4, <3>1
      <4> QED
        BY <1>3, <4>1 DEF EndFits
    <3>2. CASE at < Len(file)
      <4>1. Len(g) = Len(file) /\ g[Len(g)] = file[Len(file)]
        BY <1>1, <1>4, <2>4, <3>2
      <4> QED
        BY <2>1, <4>1 DEF EndFits
    <3> QED
      BY <1>1, <3>1, <3>2
  <2>7. ~IsEntry(g[t + 1]) /\ (g[t + 1].kind = "tail" => TailOf(g[t + 1], t))
    <3>1. CASE at = t + 1
      BY <1>3, <1>4, <3>1
    <3>2. CASE at > t + 1
      <4>1. /\ t + 1 \in (t + 1)..(at - 1) /\ t + 1 \in 1..Len(g) /\ t + 1 # at
            /\ t + 1 - t = 1
        BY <1>2, <2>2, <2>4, <3>2
      <4>q. \A q \in (t + 1)..(at - 1) : file[q] = ia.oldTail[q - t]
        BY <2>1
      <4>a. file[t + 1] = ia.oldTail[1]
        <5>1. t \in Nat
          BY <1>2
        <5> HIDE DEF t
        <5>2. (t + 1) - t = 1
          BY <5>1
        <5> QED
          BY <4>q, <4>1, <5>1, <5>2
      <4>b. g[t + 1] = file[t + 1]
        BY <1>4, <4>1, Zenon
      <4>2. file[t + 1] = ia.oldTail[1] /\ g[t + 1] = file[t + 1]
        BY <4>a, <4>b
      <4>3. TailOf(ia.oldTail[1], t)
        BY <2>1 DEF OldTail
      <4> QED
        BY <4>2, <4>3 DEF TailOf, IsEntry
    <3> QED
      BY <1>2, <2>2, <3>1, <3>2
  <2>8. SoundAt(g, sealed, t)
    BY <1>2, <1>4, <2>3, <2>4, <2>6, <2>7, BreakSound
  <2>9. Sound(g, sealed)
    BY <1>2, <2>2, <2>4, <2>8 DEF Sound
  <2> QED
    BY <1>4, <1>5, <2>3, <2>4, <2>6, <2>9 DEF g
<1>9. CASE mode = "sign"
  <2>1. PICK u \in 1..Len(file) :
           Tailed(file, u) /\ file[u].session >= sealed /\ at \in (u + 2)..(Len(file) + 1)
    BY <1>9 DEF IInv, SignInv
  <2>2. Tailed(g, u) /\ g[u] = file[u]
    BY <1>1, <1>2, <1>3, <2>1, PutAfterTail
  <2>3. Sound(g, sealed)
    BY <1>1, <1>4, <2>1, <2>2, TailedSound
  <2> QED
    BY <1>4, <1>5, <1>9, <2>3
<1> QED
  BY <1>1, <1>6, <1>7, <1>8, <1>9

LEMMA ShapesKept ==
  ASSUME Shapes, ia' = ia, run' = run, result' = result, sealed' \in Nat, at' \in Nat,
         IsSeq(file'), KindsOK(file'), IsSeq(todo'), KindsOK(todo')
  PROVE  Shapes'
BY DEF Shapes

\* A failed or empty session is undone.
LEMMA RestoreStart ==
  ASSUME IInv, pc = "write", mode = "append", NEW cause \in {"ok", "error"}, Restore(cause),
         sealed' = sealed, file' = file \/ file' = Put(file, at, Junk)
  PROVE  IInv'
<1> DEFINE t == ia.tail
<1>1. /\ Shapes /\ Loaded /\ ia.sessions >= sealed /\ OldTail /\ Leftover /\ Writing
  BY DEF IInv, AppendInv
<1>2. /\ IsSeq(file) /\ KindsOK(file) /\ t \in Nat /\ IsSeq(ia.oldTail) /\ KindsOK(ia.oldTail)
      /\ sealed \in Nat /\ at \in Nat
  BY <1>1 DEF Shapes
<1>3. Len(file) \in Nat /\ Len(todo) \in Nat /\ Len(todo) > 0 /\ Len(ia.oldTail) \in Nat
  BY <1>2, WriteFacts, SeqFacts
<1>4. Len(ia.oldTail) > 0 /\ Len(file) >= t + Len(ia.oldTail)
  BY <1>1 DEF OldTail
<1>5. EndFits(file, t)
  <2>1. CASE Len(file) >= at
    <3>1. CASE IsTrailer(file[Len(file)]) /\ file[Len(file)].of = Len(file) - t - 1
      BY <3>1 DEF EndFits, IsTrailer
    <3>2. CASE at = t + 1 /\ Len(file) = at
      <4>1. TailOf(file[Len(file)], t)
        BY <1>1, <3>2 DEF Writing
      <4> QED
        BY <3>2, <4>1 DEF EndFits, TailOf, IsTrailer
    <3> QED
      BY <1>1, <2>1, <3>1, <3>2 DEF Leftover
  <2>2. CASE Len(file) < at
    <3>1. Len(file) = at - 1 /\ at - 1 \in (t + 1)..(at - 1)
      BY <1>1, <1>2, <1>3, <1>4, <2>2 DEF Writing
    <3>2. NewCell(file[at - 1], at - 1, NewIndex)
      BY <1>1, <3>1 DEF Writing
    <3>3. at - 1 < NewIndex \/ at - 1 = NewIndex
      BY <1>2, <1>3 DEF NewIndex
    <3>4. file[at - 1].kind \in {"pack", "index"}
      BY <3>2, <3>3 DEF NewCell, Pack, Index
    <3> QED
      BY <3>1, <3>4 DEF EndFits, IsTrailer
  <2> QED
    BY <1>2, <1>3, <2>1, <2>2
<1>6. /\ IsSeq(file') /\ KindsOK(file') /\ Sound(file', sealed)
      /\ Len(file') >= Len(file) /\ Chained(file', t) /\ file'[t] = file[t] /\ EndFits(file', t)
  <2>1. CASE file' = file
    <3>1. file # <<>> /\ Chained(file, t)
      BY <1>1, <1>2, ChainType DEF Loaded
    <3>2. Sound(file, sealed)
      BY <3>1 DEF IInv, Opens
    <3> QED
      BY <1>2, <1>3, <1>5, <2>1, <3>1, <3>2
  <2>2. CASE file' = Put(file, at, Junk)
    BY <2>2, JunkSound
  <2> QED
    BY <2>1, <2>2
<1>7. /\ pc' = "write" /\ mode' = "restore" /\ todo' = ia.oldTail /\ at' = t + 1
      /\ run' = [run EXCEPT !.cause = cause] /\ ia' = ia /\ result' = result
  BY DEF Restore, Start
<1>8. Shapes'
  <2>1. run' \in [n : 0..MaxRuns, signer : Signers \cup {NoSigner},
                  signature : {run'.signature}, repaired : BOOLEAN, cause : {"ok", "error"}]
    BY <1>1, <1>7 DEF Shapes
  <2>2. at' \in Nat /\ sealed' \in Nat
    BY <1>2, <1>7
  <2> QED
    BY <1>1, <1>2, <1>6, <1>7, <2>1, <2>2 DEF Shapes
<1>9. Control'
  <2>1. todo' # <<>>
    BY <1>2, <1>4, <1>7, SeqFacts
  <2> QED
    BY <1>7, <2>1 DEF Control
<1>10. Opens'
  BY <1>6 DEF Opens
<1>11. RestoreInv'
  <2>1. Loaded'
    BY <1>1, <1>6, <1>7 DEF Loaded
  <2>2. Len(file') \in Nat
    BY <1>6, SeqFacts
  <2>3. OldTail'
    <3>1. Len(file') >= t + Len(ia.oldTail)
      BY <1>2, <1>3, <1>4, <1>6, <2>2
    <3> QED
      BY <1>1, <1>7, <3>1 DEF OldTail
  <2>4. at' > t /\ Len(todo') = t + 1 + Len(ia.oldTail) - at' /\ (t + 1)..(at' - 1) = {}
    BY <1>2, <1>3, <1>7
  <2>5. \A n \in 1..Len(todo') : todo'[n] = ia.oldTail[at' - t + n - 1]
    <3>1. \A n \in 1..Len(todo') : at' - t + n - 1 = n
      BY <1>2, <1>3, <1>7
    <3> QED
      BY <1>7, <3>1
  <2> QED
    BY <1>1, <1>6, <1>7, <2>1, <2>3, <2>4, <2>5 DEF RestoreInv
<1>12. DiffInv' /\ RepairInv' /\ AppendInv' /\ SignInv'
  BY <1>7, Vacuous
<1> QED
  BY <1>8, <1>9, <1>10, <1>11, <1>12 DEF IInv

----------------------------------------------------------------------------
(* WriteCell, one lemma per purpose of the write *)

LEMMA CellFacts ==
  ASSUME IInv, WriteCell
  PROVE  /\ pc = "write" /\ Shapes' /\ Control'
         /\ file' = Put(file, at, todo[1]) /\ IsSeq(file') /\ KindsOK(file')
         /\ Len(file') = (IF at > Len(file) THEN at ELSE Len(file)) /\ file'[at] = todo[1]
         /\ \A i \in 1..Len(file') : i # at => i \in 1..Len(file) /\ file'[i] = file[i]
         /\ Len(todo') \in Nat /\ Len(todo') = Len(todo) - 1
         /\ \A n \in 1..Len(todo') : n + 1 \in 1..Len(todo) /\ todo'[n] = todo[n + 1]
         /\ pc' = (IF Len(todo) = 1 THEN "trunc" ELSE "write") /\ at' = at + 1
         /\ UNCHANGED <<sealed, mode, ia, run, result>>
<1>1. /\ pc = "write" /\ file' = Put(file, at, Head(todo)) /\ at' = at + 1 /\ todo' = Tail(todo)
      /\ pc' = (IF Tail(todo) = <<>> THEN "trunc" ELSE "write")
      /\ UNCHANGED <<sealed, mode, ia, run, result>>
  BY DEF WriteCell, Wrote
<1>2. /\ at \in 1..(Len(file) + 1) /\ Len(file) \in Nat /\ todo # <<>>
      /\ mode \in {"repair", "append", "restore", "sign"}
  BY <1>1, WriteFacts
<1>3. /\ Shapes /\ IsSeq(file) /\ KindsOK(file) /\ IsSeq(todo) /\ KindsOK(todo) /\ at \in Nat
      /\ sealed \in Nat
  BY DEF IInv, Shapes
<1>4. /\ Head(todo) = todo[1] /\ Len(todo) \in Nat /\ Len(todo) > 0 /\ IsSeq(todo')
      /\ Len(todo') = Len(todo) - 1 /\ \A n \in 1..Len(todo') : todo'[n] = todo[n + 1]
  BY <1>1, <1>2, <1>3, TailFacts
<1>5. Len(todo') \in Nat /\ (todo' = <<>> <=> Len(todo) = 1)
  BY <1>4, SeqFacts
<1>6. \A n \in 1..Len(todo') : n + 1 \in 1..Len(todo)
  BY <1>4
<1>7. /\ todo[1].kind \in {"junk", "pack", "index", "tail", "sig"}
      /\ todo[1].kind = "sig" => todo[1].of \in Nat
  <2>1. 1 \in 1..Len(todo)
    BY <1>4
  <2> QED
    BY <1>3, <2>1 DEF KindsOK
<1>8. KindsOK(todo')
  BY <1>3, <1>4, <1>6 DEF KindsOK
<1>9. KindsOK(file')
  BY <1>1, <1>2, <1>3, <1>4, <1>7, KindsAfterPut
<1>10. /\ IsSeq(file') /\ Len(file') = (IF at > Len(file) THEN at ELSE Len(file))
       /\ file'[at] = todo[1]
       /\ \A i \in 1..Len(file') : i # at => i \in 1..Len(file) /\ file'[i] = file[i]
  BY <1>1, <1>2, <1>3, <1>4, PutFacts
<1>11. Shapes'
  <2>1. at' \in Nat /\ sealed' \in Nat
    BY <1>1, <1>3
  <2> QED
    BY <1>1, <1>3, <1>4, <1>8, <1>9, <1>10, <2>1, ShapesKept
<1>12. Control'
  BY <1>1, <1>2, <1>5 DEF Control
<1> QED
  BY <1>1, <1>4, <1>5, <1>6, <1>9, <1>10, <1>11, <1>12

LEMMA CellOfRepair ==
  ASSUME IInv, WriteCell, mode = "repair"
  PROVE  IInv'
<1> DEFINE t == ia.tail
<1>1. /\ Shapes' /\ Control' /\ file' = Put(file, at, todo[1]) /\ IsSeq(file')
      /\ file'[at] = todo[1] /\ pc = "write"
      /\ pc' = (IF Len(todo) = 1 THEN "trunc" ELSE "write") /\ at' = at + 1
      /\ UNCHANGED <<sealed, mode, ia, run, result>>
  BY CellFacts
<1>2. /\ Loaded /\ ia.sessions >= sealed /\ at = t + 1 /\ Len(todo) = 1
      /\ TailOf(todo[1], t) /\ SoundAt(file, sealed, t)
  BY <1>1 DEF IInv, RepairInv
<1>3. IsSeq(file) /\ KindsOK(file) /\ t \in Nat /\ Len(file) \in Nat
  BY SeqFacts DEF IInv, Shapes
<1>4. t \in 1..Len(file) /\ Chained(file, t)
  BY <1>2, <1>3, ChainType DEF SoundAt
<1>5. SoundAt(file', sealed, t)
  BY <1>1, <1>2, <1>3, PutBehind
<1>6. Chained(file', t) /\ file'[t] = file[t]
  <2>1. at \in (t + 1)..(Len(file) + 1)
    BY <1>2, <1>3, <1>4
  <2> QED
    BY <1>1, <1>3, <1>4, <2>1, PutKeepsChain
<1>7. t \in 1..Len(file') /\ Len(file') \in Nat
  BY <1>1, <1>3, <1>6, ChainType
<1>8. Len(file') > t
  <2>1. Len(file') = (IF at > Len(file) THEN at ELSE Len(file))
    BY CellFacts
  <2> QED
    BY <1>2, <1>3, <2>1
<1>9. Opens'
  BY <1>1, <1>5, <1>7 DEF Opens, Sound
<1>10. RepairInv'
  <2>1. Loaded'
    BY <1>1, <1>2, <1>6 DEF Loaded
  <2>2. at' = t + 2 /\ TailOf(file'[t + 1], t) /\ pc' = "trunc"
    BY <1>1, <1>2, <1>3
  <2> QED
    BY <1>1, <1>2, <1>8, <2>1, <2>2 DEF RepairInv
<1>11. DiffInv' /\ AppendInv' /\ RestoreInv' /\ SignInv'
  BY <1>1, <1>2, Vacuous
<1> QED
  BY <1>1, <1>9, <1>10, <1>11 DEF IInv

LEMMA CellOfSession ==
  ASSUME IInv, WriteCell, mode = "append"
  PROVE  IInv'
<1> DEFINE t == ia.tail
           e == NewIndex
<1>1. /\ pc = "write" /\ Shapes' /\ Control' /\ file' = Put(file, at, todo[1]) /\ IsSeq(file')
      /\ Len(file') = (IF at > Len(file) THEN at ELSE Len(file)) /\ file'[at] = todo[1]
      /\ \A i \in 1..Len(file') : i # at => i \in 1..Len(file) /\ file'[i] = file[i]
      /\ Len(todo') \in Nat /\ Len(todo') = Len(todo) - 1
      /\ \A n \in 1..Len(todo') : n + 1 \in 1..Len(todo) /\ todo'[n] = todo[n + 1]
      /\ pc' \in {"trunc", "write"} /\ at' = at + 1
      /\ UNCHANGED <<sealed, mode, ia, run, result>>
  BY CellFacts
<1>2. /\ Loaded /\ ia.sessions >= sealed /\ OldTail /\ Leftover /\ Writing
  BY <1>1 DEF IInv, AppendInv
<1>3. /\ IsSeq(file) /\ t \in Nat /\ Len(file) \in Nat /\ at \in Nat /\ Len(todo) \in Nat
      /\ ia.sessions \in Nat /\ sealed \in Nat /\ at <= Len(file) + 1 /\ Len(todo) > 0
  BY <1>1, WriteFacts, SeqFacts DEF IInv, Shapes
<1>4. at > t /\ e > t /\ e \in Nat /\ at <= e + 1 /\ e = at + Len(todo) - 2
  BY <1>2, <1>3 DEF Writing, NewIndex
<1>5. /\ \A q \in (t + 1)..(at - 1) : NewCell(file[q], q, e)
      /\ \A n \in 1..Len(todo) : NewCell(todo[n], at + n - 1, e)
  BY <1>2 DEF Writing
<1>6. Chained(file', t) /\ file'[t] = file[t] /\ file'[t].session = ia.sessions /\ ia.last = t
  <2>1. at \in (t + 1)..(Len(file) + 1)
    BY <1>3, <1>4
  <2>2. Chained(file, t) /\ file[t].session = ia.sessions /\ ia.last = t
    BY <1>2 DEF Loaded
  <2>3. Chained(file', t) /\ file'[t] = file[t]
    BY <1>1, <1>3, <2>1, <2>2, PutKeepsChain
  <2> QED
    BY <2>2, <2>3
<1>7. NewIndex' = e
  BY <1>1, <1>3, <1>4 DEF NewIndex
<1>8. Loaded'
  BY <1>1, <1>6 DEF Loaded
<1>9. t = ia.tail
  OBVIOUS
<1> HIDE DEF t, e
<1>10. Len(file') \in Nat /\ Len(file') >= at /\ Len(file') >= Len(file)
  BY <1>1, <1>3
<1>11. \A q \in (t + 1)..at : NewCell(file'[q], q, e)
  <2> TAKE q \in (t + 1)..at
  <2>1. CASE q = at
    <3>1. 1 \in 1..Len(todo) /\ at + 1 - 1 = at
      BY <1>3
    <3>2. NewCell(todo[1], at, e)
      BY <1>5, <3>1
    <3> QED
      BY <1>1, <2>1, <3>2
  <2>2. CASE q # at
    <3>1. q \in (t + 1)..(at - 1) /\ q \in 1..Len(file')
      BY <1>3, <1>10, <2>2
    <3> QED
      BY <1>1, <1>5, <2>2, <3>1
  <2> QED
    BY <2>1, <2>2
<1>12. \A n \in 1..Len(todo') : NewCell(todo'[n], at' + n - 1, e)
  <2> TAKE n \in 1..Len(todo')
  <2>1. n + 1 \in 1..Len(todo) /\ todo'[n] = todo[n + 1] /\ at' + n - 1 = at + (n + 1) - 1
    BY <1>1, <1>3
  <2> QED
    BY <1>5, <2>1
<1>13. Len(file') > at => IsTrailer(file'[Len(file')]) /\ file'[Len(file')].of = Len(file') - t - 1
  <2> HAVE Len(file') > at
  <2>1. Len(file') = Len(file) /\ Len(file) > at
    BY <1>1, <1>3
  <2>2. IsTrailer(file[Len(file)]) /\ file[Len(file)].of = Len(file) - t - 1
    BY <1>2, <1>3, <1>9, <2>1 DEF Leftover
  <2>3. file'[Len(file')] = file[Len(file)]
    BY <1>1, <1>3, <2>1
  <2> QED
    BY <2>1, <2>2, <2>3
<1>14. OldTail'
  <2>1. Len(file') >= t + Len(ia.oldTail)
    <3>1. Len(ia.oldTail) \in Nat
      BY SeqFacts DEF IInv, Shapes
    <3> QED
      BY <1>2, <1>3, <1>9, <1>10, <3>1 DEF OldTail
  <2> QED
    BY <1>1, <1>2, <1>9, <2>1 DEF OldTail
<1>15. Leftover'
  <2>1. Len(file') >= at' => Len(file') > at
    BY <1>1, <1>3, <1>10
  <2> QED
    BY <1>1, <1>9, <1>13, <2>1 DEF Leftover
<1>16. Writing'
  <2>1. at' > t /\ e > t /\ Len(file') >= at' - 1 /\ at' - 1 = at /\ at' # t + 1
    BY <1>1, <1>3, <1>4, <1>10, SMTT(30)
  <2>2. \A q \in (t + 1)..(at' - 1) : NewCell(file'[q], q, e)
    BY <1>11, <2>1
  <2> QED
    BY <1>1, <1>7, <1>9, <1>12, <2>1, <2>2 DEF Writing, NewCell
<1>17. Opens'
  <2> DEFINE a == at + 1
  <2>1. a \in (t + 1)..(e + 2) /\ Len(file') >= a - 1 /\ a > t + 1 /\ a - 1 = at
    BY <1>3, <1>4, <1>10
  <2>2. \A q \in (t + 1)..(a - 1) : NewCell(file'[q], q, e)
    BY <1>11, <2>1
  <2>3. \/ Len(file') = a - 1
        \/ /\ Len(file') >= a /\ IsTrailer(file'[Len(file')])
           /\ file'[Len(file')].of = Len(file') - t - 1
    <3>1. Len(file') = a - 1 \/ (Len(file') > at /\ Len(file') >= a)
      BY <1>3, <1>10
    <3>2. CASE Len(file') = a - 1
      BY <3>2
    <3>3. CASE Len(file') > at /\ Len(file') >= a
      BY <1>13, <3>3
    <3> QED
      BY <3>1, <3>2, <3>3
  <2> HIDE DEF a
  <2>4. Sound(file', sealed)
    BY <1>1, <1>2, <1>3, <1>4, <1>6, <1>9, <2>1, <2>2, <2>3, WritingSound, ZenonT(40)
  <2> QED
    BY <1>1, <2>4 DEF Opens
<1>18. AppendInv'
  BY <1>1, <1>2, <1>8, <1>14, <1>15, <1>16 DEF AppendInv
<1>19. DiffInv' /\ RepairInv' /\ RestoreInv' /\ SignInv'
  BY <1>1, Vacuous
<1> QED
  BY <1>1, <1>17, <1>18, <1>19 DEF IInv

LEMMA CellOfRestore ==
  ASSUME IInv, WriteCell, mode = "restore"
  PROVE  IInv'
<1> DEFINE t == ia.tail
           old == ia.oldTail
<1>1. /\ pc = "write" /\ Shapes' /\ Control' /\ file' = Put(file, at, todo[1]) /\ IsSeq(file')
      /\ Len(file') = (IF at > Len(file) THEN at ELSE Len(file)) /\ file'[at] = todo[1]
      /\ \A i \in 1..Len(file') : i # at => i \in 1..Len(file) /\ file'[i] = file[i]
      /\ Len(todo') \in Nat /\ Len(todo') = Len(todo) - 1
      /\ \A n \in 1..Len(todo') : n + 1 \in 1..Len(todo) /\ todo'[n] = todo[n + 1]
      /\ pc' \in {"trunc", "write"} /\ at' = at + 1
      /\ UNCHANGED <<sealed, mode, ia, run, result>>
  BY CellFacts
<1>2. /\ Loaded /\ ia.sessions >= sealed /\ OldTail /\ EndFits(file, t)
      /\ at > t /\ Len(todo) = t + 1 + Len(old) - at
      /\ \A n \in 1..Len(todo) : todo[n] = old[at - t + n - 1]
      /\ \A q \in (t + 1)..(at - 1) : file[q] = old[q - t]
  BY DEF IInv, RestoreInv
<1>3. /\ IsSeq(file) /\ t \in Nat /\ Len(file) \in Nat /\ at \in Nat /\ Len(todo) \in Nat
      /\ ia.sessions \in Nat /\ sealed \in Nat /\ at <= Len(file) + 1 /\ Len(todo) > 0
      /\ Len(old) \in Nat
  BY <1>1, WriteFacts, SeqFacts DEF IInv, Shapes
<1>4. /\ Len(old) > 0 /\ TailOf(old[1], t) /\ Len(file) >= t + Len(old)
      /\ Len(old) > 1 => IsTrailer(old[Len(old)]) /\ old[Len(old)].of = Len(old) - 1
  BY <1>2 DEF OldTail
<1>5. Chained(file', t) /\ file'[t] = file[t] /\ file'[t].session = ia.sessions /\ ia.last = t
  <2>1. at \in (t + 1)..(Len(file) + 1)
    BY <1>2, <1>3
  <2>2. Chained(file, t) /\ file[t].session = ia.sessions /\ ia.last = t
    BY <1>2 DEF Loaded
  <2>a. IsSeq(file) /\ t \in Nat /\ file' = Put(file, at, todo[1]) /\ Chained(file, t)
    BY <1>1, <1>3, <2>2
  <2>3. Chained(file', t) /\ file'[t] = file[t]
    <3> HIDE DEF t
    <3> QED
      BY <2>1, <2>a, PutKeepsChain
  <2> QED
    BY <2>2, <2>3
<1>6. Loaded'
  BY <1>1, <1>5 DEF Loaded
<1>7. Len(file') \in Nat /\ Len(file') >= at /\ Len(file') >= t + Len(old) /\ Len(file') > t
  <2>1. /\ Len(file') = (IF at > Len(file) THEN at ELSE Len(file))
        /\ at > t /\ Len(file) >= t + Len(old)
    BY <1>1, <1>2, <1>4, SMTT(30)
  <2> HIDE DEF t, old
  <2> QED
    BY <1>3, <2>1
<1>8. OldTail'
  BY <1>1, <1>2, <1>7 DEF OldTail
<1>9. t = ia.tail /\ old = ia.oldTail
  OBVIOUS
<1> HIDE DEF t, old
<1>10. todo[1] = old[at - t]
  <2>1. 1 \in 1..Len(todo) /\ at - t + 1 - 1 = at - t
    BY <1>3
  <2> QED
    BY <1>2, <2>1
<1>11. \A q \in (t + 1)..at : file'[q] = old[q - t]
  <2> TAKE q \in (t + 1)..at
  <2>1. CASE q = at
    BY <1>1, <1>10, <2>1
  <2>2. CASE q # at
    <3>1. q \in (t + 1)..(at - 1) /\ q \in 1..Len(file')
      BY <1>3, <1>7, <2>2
    <3> QED
      BY <1>1, <1>2, <2>2, <3>1
  <2> QED
    BY <2>1, <2>2
<1>12. EndFits(file', t)
  <2>1. CASE at >= Len(file)
    <3>a. /\ Len(file') = (IF at > Len(file) THEN at ELSE Len(file))
          /\ Len(todo) = t + 1 + Len(old) - at
      BY <1>1, <1>2
    <3>b. Len(file) >= t + Len(old) /\ Len(old) >= 1
      BY <1>3, <1>4
    <3>1. at = Len(file') /\ at - t = Len(old)
      BY <1>3, <2>1, <3>a, <3>b
    <3>2. file'[Len(file')] = old[Len(old)]
      BY <1>1, <1>10, <3>1
    <3>c. Len(file') = t + Len(old)
      BY <1>3, <1>7, <3>1
    <3>3. CASE Len(old) = 1
      <4>1. Len(file') = t + 1
        BY <3>c, <3>3
      <4>2. TailOf(file'[Len(file')], t)
        BY <1>4, <3>2, <3>3
      <4> QED
        BY <4>1, <4>2 DEF EndFits, TailOf, IsTrailer
    <3>4. CASE Len(old) > 1
      <4>1. /\ IsTrailer(file'[Len(file')])
            /\ file'[Len(file')].of = Len(old) - 1
        BY <1>4, <3>2, <3>4
      <4>2. Len(file') - t - 1 = Len(old) - 1
        BY <1>3, <3>c
      <4> QED
        BY <4>1, <4>2 DEF EndFits, IsTrailer
    <3>d. Len(old) = 1 \/ Len(old) > 1
      <4>1. \A m \in Nat : m >= 1 => m = 1 \/ m > 1
        OBVIOUS
      <4> QED
        BY <1>3, <3>b, <4>1, Zenon
    <3> QED
      BY <3>d, <3>3, <3>4
  <2>2. CASE at < Len(file)
    <3>1. Len(file') = Len(file) /\ file'[Len(file')] = file[Len(file)]
      BY <1>1, <1>3, <2>2
    <3> QED
      BY <1>2, <3>1 DEF EndFits
  <2> QED
    BY <1>3, <2>1, <2>2
<1>13. Opens'
  <2>1. t + 1 \in (t + 1)..at /\ t + 1 - t = 1
    BY <1>2, <1>3
  <2>2. file'[t + 1] = old[t + 1 - t]
    BY <1>3, <1>11, <2>1
  <2>a. file'[t + 1] = old[1]
    BY <2>1, <2>2, Zenon
  <2>3. Tailed(file', t)
    BY <1>4, <1>5, <1>7, <1>12, <2>a, SMTT(30) DEF Tailed
  <2>4. Sound(file', sealed)
    BY <1>1, <1>2, <1>3, <1>5, <2>3, TailedSound, SMTT(30)
  <2> QED
    BY <1>1, <2>4 DEF Opens
<1>14. RestoreInv'
  <2>1. at' > t /\ Len(todo') = t + 1 + Len(old) - at' /\ at' - 1 = at
    BY <1>1, <1>2, <1>3
  <2>2. \A n \in 1..Len(todo') : todo'[n] = old[at' - t + n - 1]
    <3> TAKE n \in 1..Len(todo')
    <3>1. n + 1 \in 1..Len(todo) /\ todo'[n] = todo[n + 1]
          /\ at' - t + n - 1 = at - t + (n + 1) - 1
      BY <1>1, <1>3
    <3> QED
      BY <1>2, <3>1
  <2>3. \A q \in (t + 1)..(at' - 1) : file'[q] = old[q - t]
    BY <1>11, <2>1
  <2> QED
    BY <1>1, <1>2, <1>6, <1>8, <1>9, <1>12, <2>1, <2>2, <2>3, SMTT(30) DEF RestoreInv
<1>15. DiffInv' /\ RepairInv' /\ AppendInv' /\ SignInv'
  BY <1>1, Vacuous
<1> QED
  BY <1>1, <1>13, <1>14, <1>15 DEF IInv

LEMMA CellOfSignature ==
  ASSUME IInv, WriteCell, mode = "sign"
  PROVE  IInv'
<1>1. /\ pc = "write" /\ Shapes' /\ Control' /\ file' = Put(file, at, todo[1]) /\ IsSeq(file')
      /\ Len(file') = (IF at > Len(file) THEN at ELSE Len(file)) /\ file'[at] = todo[1]
      /\ Len(todo') \in Nat /\ Len(todo') = Len(todo) - 1
      /\ \A n \in 1..Len(todo') : n + 1 \in 1..Len(todo) /\ todo'[n] = todo[n + 1]
      /\ pc' \in {"trunc", "write"} /\ at' = at + 1
      /\ UNCHANGED <<sealed, mode, ia, run, result>>
  BY CellFacts
<1>2. PICK t \in 1..Len(file) :
         /\ Tailed(file, t) /\ file[t].session >= sealed
         /\ at \in (t + 2)..(Len(file) + 1)
         /\ \A n \in 1..Len(todo) : SigFits(todo[n], at + n - 1, t)
  BY DEF IInv, SignInv
<1>3. /\ IsSeq(file) /\ t \in Nat /\ Len(file) \in Nat /\ at \in Nat /\ Len(todo) \in Nat
      /\ sealed \in Nat /\ Len(todo) > 0
  BY <1>1, WriteFacts, SeqFacts DEF IInv, Shapes
<1>4. SigFits(todo[1], at, t)
  <2>1. 1 \in 1..Len(todo) /\ at + 1 - 1 = at
    BY <1>3
  <2> QED
    BY <1>2, <2>1
<1>5. Tailed(file', t) /\ file'[t] = file[t]
  BY <1>1, <1>2, <1>3, <1>4, PutAfterTail DEF SigFits
<1>6. Sound(file', sealed)
  BY <1>1, <1>2, <1>3, <1>5, TailedSound
<1>7. /\ t \in 1..Len(file') /\ at' \in (t + 2)..(Len(file') + 1)
      /\ at' > t + 2 /\ at' - 1 = at
  <2>1. /\ Len(file') = (IF at > Len(file) THEN at ELSE Len(file)) /\ at' = at + 1
        /\ at \in (t + 2)..(Len(file) + 1) /\ t \in 1..Len(file)
    BY <1>1, <1>2
  <2> QED
    BY <1>3, <2>1
<1>8. \A n \in 1..Len(todo') : SigFits(todo'[n], at' + n - 1, t)
  <2> TAKE n \in 1..Len(todo')
  <2>1. n + 1 \in 1..Len(todo) /\ todo'[n] = todo[n + 1] /\ at' + n - 1 = at + (n + 1) - 1
    <3>1. n + 1 \in 1..Len(todo) /\ todo'[n] = todo[n + 1] /\ at' = at + 1 /\ n \in Nat
      BY <1>1
    <3> QED
      BY <1>3, <3>1
  <2>2. SigFits(todo[n + 1], at + (n + 1) - 1, t)
    BY <1>2, <2>1
  <2> QED
    BY <2>1, <2>2
<1>9. SigFits(file'[at' - 1], at' - 1, t)
  BY <1>1, <1>4, <1>7
<1>10. SignInv'
  BY <1>1, <1>2, <1>5, <1>7, <1>8, <1>9, SMTT(30) DEF SignInv
<1>11. Opens' /\ DiffInv' /\ RepairInv' /\ AppendInv' /\ RestoreInv'
  BY <1>1, <1>6, Vacuous DEF Opens
<1> QED
  BY <1>1, <1>10, <1>11 DEF IInv

----------------------------------------------------------------------------
(* Truncate *)

LEMMA TruncateFacts ==
  ASSUME IInv, Truncate
  PROVE  /\ pc = "trunc" /\ mode \in {"repair", "append", "restore", "sign"}
         /\ IsSeq(file) /\ Len(file) \in Nat /\ at \in Nat /\ Len(todo) = 0 /\ ia.tail \in Nat
         /\ at - 1 \in 1..Len(file) /\ at > 1
         /\ IsSeq(file') /\ Len(file') = at - 1 /\ Shapes' /\ Control'
         /\ \A i \in 1..(at - 1) : file'[i] = file[i]
         /\ pc' = "sync" /\ UNCHANGED <<sealed, mode, todo, at, ia, run, result>>
<1>1. /\ pc = "trunc" /\ file' = SubSeq(file, 1, at - 1) /\ pc' = "sync"
      /\ UNCHANGED <<sealed, mode, todo, at, ia, run, result>>
  BY DEF Truncate
<1>2. /\ Shapes /\ IsSeq(file) /\ KindsOK(file) /\ IsSeq(todo) /\ KindsOK(todo) /\ at \in Nat
      /\ sealed \in Nat /\ ia.tail \in Nat
  BY DEF IInv, Shapes
<1>3. todo = <<>> /\ mode \in {"repair", "append", "restore", "sign"}
  BY <1>1 DEF IInv, Control
<1>4. Len(file) \in Nat /\ Len(todo) = 0
  BY <1>2, <1>3, SeqFacts
<1>5. at > 1 /\ at - 1 <= Len(file)
  <2>1. CASE mode = "repair"
    BY <1>1, <1>2, <1>4, <2>1 DEF IInv, RepairInv
  <2>2. CASE mode = "append"
    <3>1. Loaded /\ Writing
      BY <1>1, <2>2 DEF IInv, AppendInv
    <3>2. at > ia.tail /\ Len(file) >= at - 1
      BY <3>1 DEF Writing
    <3>3. ia.tail >= 1
      BY <1>2, <3>1, ChainType DEF Loaded
    <3> QED
      BY <1>2, <1>4, <3>2, <3>3
  <2>3. CASE mode = "restore"
    <3>1. Loaded /\ OldTail /\ at > ia.tail /\ 0 = ia.tail + 1 + Len(ia.oldTail) - at
      BY <1>4, <2>3 DEF IInv, RestoreInv
    <3>2. ia.tail >= 1
      BY <1>2, <3>1, ChainType DEF Loaded
    <3>3. Len(file) >= ia.tail + Len(ia.oldTail)
      BY <3>1 DEF OldTail
    <3>4. Len(ia.oldTail) \in Nat
      BY SeqFacts DEF IInv, Shapes
    <3> QED
      BY <1>2, <1>4, <3>1, <3>2, <3>3, <3>4
  <2>4. CASE mode = "sign"
    <3>1. PICK t \in 1..Len(file) : at \in (t + 2)..(Len(file) + 1)
      BY <2>4 DEF IInv, SignInv
    <3> QED
      BY <1>2, <1>4, <3>1
  <2> QED
    BY <1>3, <2>1, <2>2, <2>3, <2>4
<1>6. at - 1 \in 1..Len(file) /\ at - 1 \in 0..Len(file)
  BY <1>2, <1>4, <1>5
<1>7. /\ IsSeq(file') /\ Len(file') = at - 1 /\ \A i \in 1..(at - 1) : file'[i] = file[i]
  BY <1>1, <1>2, <1>6, CutFacts
<1>8. KindsOK(file')
  <2>1. \A i \in 1..Len(file') : i \in 1..Len(file) /\ file'[i] = file[i]
    BY <1>2, <1>4, <1>6, <1>7
  <2> QED
    BY <1>2, <2>1 DEF KindsOK
<1>9. Shapes'
  <2>1. sealed' \in Nat /\ at' \in Nat /\ IsSeq(todo') /\ KindsOK(todo')
    BY <1>1, <1>2
  <2> QED
    BY <1>1, <1>2, <1>7, <1>8, <2>1, ShapesKept
<1>10. Control'
  BY <1>1, <1>3 DEF Control
<1> QED
  BY <1>1, <1>2, <1>3, <1>4, <1>5, <1>6, <1>7, <1>9, <1>10

LEMMA CutKeepsLoaded ==
  ASSUME Loaded, ia.tail \in Nat, ia' = ia, Len(file') \in Nat, ia.tail <= Len(file'),
         \A i \in 1..Len(file') : file'[i] = file[i]
  PROVE  /\ Loaded' /\ Chained(file', ia.tail) /\ file'[ia.tail].session = ia.sessions
<1>1. Chained(file, ia.tail) /\ file[ia.tail].session = ia.sessions /\ ia.last = ia.tail
  BY DEF Loaded
<1>2. \A i \in 1..ia.tail : file'[i] = file[i]
  OBVIOUS
<1>3. Chained(file', ia.tail) /\ file'[ia.tail] = file[ia.tail]
  BY <1>1, <1>2, ChainedKept
<1> QED
  BY <1>1, <1>3 DEF Loaded

LEMMA TruncateOfRepair ==
  ASSUME IInv, Truncate, mode = "repair"
  PROVE  IInv'
<1> DEFINE t == ia.tail
<1>1. /\ pc = "trunc" /\ IsSeq(file) /\ Len(file) \in Nat /\ at \in Nat /\ t \in Nat
      /\ IsSeq(file') /\ Len(file') = at - 1 /\ Shapes' /\ Control'
      /\ \A i \in 1..(at - 1) : file'[i] = file[i]
      /\ pc' = "sync" /\ UNCHANGED <<sealed, mode, todo, at, ia, run, result>>
  BY TruncateFacts
<1>2. /\ Loaded /\ ia.sessions >= sealed /\ at = t + 2 /\ TailOf(file[t + 1], t)
  BY <1>1 DEF IInv, RepairInv
<1>3. Len(file') = t + 1 /\ Len(file') \in Nat /\ t <= Len(file') /\ t + 1 \in 1..(at - 1)
      /\ at - 1 = Len(file') /\ Len(file') > t
  BY <1>1, <1>2
<1>4. Loaded' /\ Chained(file', t) /\ file'[t].session = ia.sessions
  BY <1>1, <1>2, <1>3, CutKeepsLoaded
<1>5. TailOf(file'[t + 1], t)
  BY <1>1, <1>2, <1>3
<1>6. Tailed(file', t)
  <2>1. EndFits(file', t)
    BY <1>3, <1>5 DEF EndFits, TailOf, IsTrailer
  <2> QED
    BY <1>3, <1>4, <1>5, <2>1 DEF Tailed
<1>7. Sound(file', sealed)
  BY <1>1, <1>2, <1>4, <1>6, TailedSound, Zenon
<1>8. RepairInv'
  BY <1>1, <1>2, <1>3, <1>4, <1>5 DEF RepairInv
<1>9. Opens' /\ DiffInv' /\ AppendInv' /\ RestoreInv' /\ SignInv'
  BY <1>1, <1>7, Vacuous DEF Opens
<1> QED
  BY <1>1, <1>8, <1>9 DEF IInv

LEMMA TruncateOfSession ==
  ASSUME IInv, Truncate, mode = "append"
  PROVE  IInv'
<1> DEFINE t == ia.tail
           e == at - 2
<1>1. /\ pc = "trunc" /\ IsSeq(file) /\ Len(file) \in Nat /\ at \in Nat /\ t \in Nat
      /\ IsSeq(file') /\ Len(file') = at - 1 /\ Shapes' /\ Control' /\ Len(todo) = 0
      /\ \A i \in 1..(at - 1) : file'[i] = file[i]
      /\ pc' = "sync" /\ UNCHANGED <<sealed, mode, todo, at, ia, run, result>>
  BY TruncateFacts
<1>2. Loaded /\ ia.sessions >= sealed /\ Writing
  BY <1>1 DEF IInv, AppendInv
<1>3. NewIndex = e
  BY <1>1 DEF NewIndex
<1>4. e > t /\ \A q \in (t + 1)..(at - 1) : NewCell(file[q], q, e)
  BY <1>2, <1>3 DEF Writing
<1>5. ia.sessions \in Nat /\ sealed \in Nat
  BY DEF IInv, Shapes
<1>6. e \in Nat /\ Len(file') = e + 1 /\ Len(file') \in Nat /\ t <= Len(file') /\ e <= Len(file')
      /\ at - 1 = Len(file') /\ Len(file') > e /\ at > 2
  BY <1>1, <1>4
<1>7. Loaded' /\ Chained(file', t) /\ file'[t].session = ia.sessions
  BY <1>1, <1>2, <1>6, CutKeepsLoaded
<1>8. t = ia.tail
  OBVIOUS
<1>9. e = at - 2
  OBVIOUS
<1> HIDE DEF t, e
<1>10. \A q \in (t + 1)..(at - 1) : NewCell(file'[q], q, e)
  <2> TAKE q \in (t + 1)..(at - 1)
  <2>1. q \in 1..(at - 1)
    BY <1>1
  <2> QED
    BY <1>1, <1>4, <2>1
<1>11. /\ e + 1 \in (t + 1)..(at - 1)
       /\ \A q \in (t + 1)..e : q \in (t + 1)..(at - 1)
  BY <1>1, <1>4, <1>6
<1>12. Chained(file', e) /\ file'[e].session = ia.sessions + 1
  <2>1. \A q \in (t + 1)..e : NewCell(file'[q], q, e)
    BY <1>10, <1>11
  <2> QED
    BY <1>1, <1>4, <1>5, <1>6, <1>7, <1>8, <2>1, NewChained, SMTT(30)
<1>13. TailOf(file'[e + 1], e)
  BY <1>10, <1>11 DEF NewCell
<1>14. Tailed(file', e)
  <2>1. EndFits(file', e)
    BY <1>6, <1>13 DEF EndFits, TailOf, IsTrailer
  <2> QED
    BY <1>6, <1>12, <1>13, <2>1 DEF Tailed
<1>15. file'[e].session >= sealed /\ sealed <= ia.sessions + 1
  BY <1>2, <1>5, <1>12
<1>16. Sound(file', sealed)
  BY <1>1, <1>6, <1>14, <1>15, TailedSound
<1>17. AppendInv'
  BY <1>1, <1>6, <1>7, <1>9, <1>12, <1>14, <1>15 DEF AppendInv
<1>18. Opens' /\ DiffInv' /\ RepairInv' /\ RestoreInv' /\ SignInv'
  BY <1>1, <1>16, Vacuous DEF Opens
<1> QED
  BY <1>1, <1>17, <1>18 DEF IInv

LEMMA TruncateOfRestore ==
  ASSUME IInv, Truncate, mode = "restore"
  PROVE  IInv'
<1> DEFINE t == ia.tail
           old == ia.oldTail
           m == Len(old)
<1>1. /\ pc = "trunc" /\ IsSeq(file) /\ Len(file) \in Nat /\ at \in Nat /\ t \in Nat
      /\ IsSeq(file') /\ Len(file') = at - 1 /\ Shapes' /\ Control' /\ Len(todo) = 0
      /\ \A i \in 1..(at - 1) : file'[i] = file[i]
      /\ pc' = "sync" /\ UNCHANGED <<sealed, mode, todo, at, ia, run, result>>
  BY TruncateFacts
<1>2. Loaded /\ ia.sessions >= sealed /\ OldTail /\ EndFits(file, t)
  BY DEF IInv, RestoreInv
<1>3. at > t /\ Len(todo) = t + 1 + m - at
  BY DEF IInv, RestoreInv
<1>4. \A q \in (t + 1)..(at - 1) : file[q] = old[q - t]
  BY DEF IInv, RestoreInv
<1>5. m \in Nat /\ ia.sessions \in Nat /\ sealed \in Nat
  BY SeqFacts DEF IInv, Shapes
<1>6. m > 0 /\ TailOf(old[1], t) /\ (m > 1 => IsTrailer(old[m]) /\ old[m].of = m - 1)
  BY <1>2 DEF OldTail
<1>7. /\ Len(file') = t + m /\ Len(file') \in Nat /\ t <= Len(file') /\ at - 1 = Len(file')
      /\ Len(file') > t
  <2>1. Len(file') = at - 1 /\ 0 = t + 1 + m - at /\ at \in Nat /\ t \in Nat /\ m \in Nat /\ m > 0
    BY <1>1, <1>3, <1>5, <1>6
  <2> HIDE DEF t, m
  <2> QED
    BY <2>1
<1>8. Loaded' /\ Chained(file', t) /\ file'[t].session = ia.sessions
  BY <1>1, <1>2, <1>7, CutKeepsLoaded
<1>9. OldTail'
  BY <1>1, <1>2, <1>7 DEF OldTail
<1>10. t = ia.tail /\ old = ia.oldTail /\ m = Len(old)
  OBVIOUS
<1> HIDE DEF t, old, m
<1>11. \A q \in (t + 1)..(at - 1) : file'[q] = old[q - t]
  <2> TAKE q \in (t + 1)..(at - 1)
  <2>1. q \in 1..(at - 1)
    BY <1>1
  <2> QED
    BY <1>1, <1>4, <2>1
<1>12. file'[t + 1] = old[1] /\ file'[t + m] = old[m]
  <2>1. /\ t + 1 \in (t + 1)..(at - 1) /\ t + m \in (t + 1)..(at - 1)
        /\ t + 1 - t = 1 /\ t + m - t = m
    BY <1>1, <1>5, <1>6, <1>7
  <2>2. file'[t + 1] = old[t + 1 - t] /\ file'[t + m] = old[t + m - t]
    BY <1>1, <1>5, <1>11, <2>1, SMTT(30)
  <2> QED
    BY <2>1, <2>2, Zenon
<1>13. EndFits(file', t)
  <2>1. CASE m = 1
    <3>1. TailOf(file'[Len(file')], t) /\ Len(file') = t + 1
      BY <1>6, <1>7, <1>12, <2>1
    <3> QED
      BY <3>1 DEF EndFits, TailOf, IsTrailer
  <2>2. CASE m > 1
    <3>1. IsTrailer(file'[Len(file')]) /\ file'[Len(file')].of = m - 1
      BY <1>6, <1>7, <1>12, <2>2
    <3>2. Len(file') - t - 1 = m - 1
      BY <1>1, <1>5, <1>7
    <3> QED
      BY <3>1, <3>2 DEF EndFits, IsTrailer
  <2> QED
    BY <1>5, <1>6, <2>1, <2>2
<1>14. Tailed(file', t)
  BY <1>6, <1>7, <1>8, <1>12, <1>13 DEF Tailed
<1>15. Sound(file', sealed)
  BY <1>1, <1>2, <1>8, <1>14, TailedSound
<1>16. RestoreInv'
  <2>1. 1..Len(todo') = {}
    BY <1>1
  <2>2. at' > t /\ Len(todo') = t + 1 + m - at' /\ ia'.sessions >= sealed'
    BY <1>1, <1>2, <1>3
  <2>3. \A q \in (t + 1)..(at' - 1) : file'[q] = old[q - t]
    BY <1>1, <1>11
  <2> QED
    BY <1>1, <1>7, <1>8, <1>9, <1>10, <1>13, <2>1, <2>2, <2>3, Zenon DEF RestoreInv
<1>17. Opens' /\ DiffInv' /\ RepairInv' /\ AppendInv' /\ SignInv'
  BY <1>1, <1>15, Vacuous DEF Opens
<1> QED
  BY <1>1, <1>16, <1>17 DEF IInv

LEMMA TruncateOfSignature ==
  ASSUME IInv, Truncate, mode = "sign"
  PROVE  IInv'
<1>1. /\ pc = "trunc" /\ IsSeq(file) /\ Len(file) \in Nat /\ at \in Nat
      /\ IsSeq(file') /\ Len(file') = at - 1 /\ Shapes' /\ Control' /\ Len(todo) = 0
      /\ \A i \in 1..(at - 1) : file'[i] = file[i]
      /\ pc' = "sync" /\ UNCHANGED <<sealed, mode, todo, at, ia, run, result>>
  BY TruncateFacts
<1>2. PICK t \in 1..Len(file) :
         /\ Tailed(file, t) /\ file[t].session >= sealed
         /\ at \in (t + 2)..(Len(file) + 1) /\ at > t + 2
         /\ SigFits(file[at - 1], at - 1, t)
  BY <1>1 DEF IInv, SignInv
<1>3. /\ t \in Nat /\ Len(file') \in Nat /\ t <= Len(file') /\ Len(file') > t /\ at - 1 = Len(file')
      /\ t + 1 \in 1..(at - 1) /\ at - 1 \in 1..(at - 1) /\ Len(file') > t + 1
  BY <1>1, <1>2
<1>4. Chained(file, t) /\ TailOf(file[t + 1], t)
  BY <1>2 DEF Tailed
<1>5. Chained(file', t) /\ file'[t] = file[t]
  <2>1. \A i \in 1..t : file'[i] = file[i]
    BY <1>1, <1>3
  <2> QED
    BY <1>3, <1>4, <2>1, ChainedKept
<1>6. SigFits(file'[Len(file')], Len(file'), t) /\ TailOf(file'[t + 1], t)
  BY <1>1, <1>2, <1>3, <1>4, SMTT(30)
<1>7. Tailed(file', t)
  <2>1. EndFits(file', t)
    BY <1>6 DEF EndFits, SigFits
  <2> QED
    BY <1>3, <1>5, <1>6, <2>1 DEF Tailed
<1>8. Sound(file', sealed)
  BY <1>1, <1>2, <1>3, <1>5, <1>7, TailedSound, SMTT(30)
<1>9. SignInv'
  <2>1. /\ t \in 1..Len(file') /\ at' \in (t + 2)..(Len(file') + 1) /\ at' > t + 2
        /\ 1..Len(todo') = {} /\ at' - 1 = Len(file')
    BY <1>1, <1>2, <1>3
  <2> QED
    BY <1>1, <1>2, <1>5, <1>6, <1>7, <2>1 DEF SignInv
<1>10. Opens' /\ DiffInv' /\ RepairInv' /\ AppendInv' /\ RestoreInv'
  BY <1>1, <1>8, Vacuous DEF Opens
<1> QED
  BY <1>1, <1>9, <1>10 DEF IInv

----------------------------------------------------------------------------
(* The other steps *)

RunType(r) ==
  r \in [n : 0..MaxRuns, signer : Signers \cup {NoSigner}, signature : {r.signature},
         repaired : BOOLEAN, cause : {"ok", "error"}]

\* A signature begins to be written behind the tail of the session at t.
LEMMA SignStart ==
  ASSUME IInv, NEW k \in Signers, NEW sum, NEW t \in 1..Len(file), Tailed(file, t),
         file[t].session >= sealed, Start("sign", SignatureBlock(k, sum), t + 2),
         file' = file, sealed' = sealed, ia' = ia, result' = result, RunType(run')
  PROVE  IInv'
<1>1. /\ pc' = "write" /\ mode' = "sign" /\ todo' = SignatureBlock(k, sum) /\ at' = t + 2
  BY DEF Start
<1>2. Shapes /\ IsSeq(file) /\ KindsOK(file) /\ sealed \in Nat /\ Len(file) \in Nat /\ t \in Nat
  BY SeqFacts DEF IInv, Shapes
<1>3. /\ IsSeq(todo') /\ KindsOK(todo') /\ todo' # <<>>
      /\ \A n \in 1..Len(todo') : SigFits(todo'[n], t + 2 + n - 1, t)
  BY <1>1, <1>2, BlockFacts, Zenon
<1>4. at' \in Nat /\ ~(at' > t + 2) /\ Len(file) > t
  BY <1>1, <1>2 DEF Tailed
<1>5. Shapes'
  BY <1>2, <1>3, <1>4 DEF Shapes, RunType
<1>6. Control'
  BY <1>1, <1>3 DEF Control
<1>7. SignInv'
  <2>1. at' \in (t + 2)..(Len(file) + 1)
    BY <1>1, <1>2, <1>4
  <2> QED
    BY <1>1, <1>3, <1>4, <2>1 DEF SignInv
<1>8. Opens'
  BY <1>2, TailedSound DEF Opens
<1>9. DiffInv' /\ RepairInv' /\ AppendInv' /\ RestoreInv'
  BY <1>1, Vacuous
<1> QED
  BY <1>5, <1>6, <1>7, <1>8, <1>9 DEF IInv

\* A run ends without a further change to the file.
LEMMA FinishSame ==
  ASSUME IInv, Ended, file' = file, sealed' = sealed
  PROVE  IInv'
<1>1. Shapes /\ IsSeq(file) /\ KindsOK(file) /\ sealed \in Nat /\ Opens
  BY DEF IInv, Shapes
<1>2. IsSeq(file') /\ KindsOK(file') /\ sealed' \in Nat
  BY <1>1
<1>3. Opens'
  BY <1>1 DEF Opens
<1> QED
  BY <1>1, <1>2, <1>3, FinishInv

LEMMA SyncInv ==
  ASSUME IInv, Sync
  PROVE  IInv'
<1>1. pc = "sync" /\ file' = file /\ sealed' = sealed
  BY DEF Sync
<1>2. Shapes /\ IsSeq(file) /\ Len(file) \in Nat /\ ia.tail \in Nat /\ todo = <<>> /\ Opens
  BY <1>1, SeqFacts DEF IInv, Shapes, Control
<1>3. CASE mode = "repair"
  <2> DEFINE t == ia.tail
  <2>1. /\ pc' = "diff" /\ mode' = "none" /\ at' = 0 /\ ia' = [ia EXCEPT !.recovered = FALSE]
        /\ run' = [run EXCEPT !.repaired = TRUE] /\ UNCHANGED <<todo, result>>
    BY <1>3 DEF Sync
  <2>2. /\ Loaded /\ ia.sessions >= sealed /\ Len(file) = t + 1 /\ TailOf(file[t + 1], t)
    BY <1>1, <1>3 DEF IInv, RepairInv
  <2>3. ia'.tail = t /\ ia'.last = ia.last /\ ia'.sessions = ia.sessions /\ ia'.oldTail = ia.oldTail
    BY <1>2, <2>1 DEF Shapes
  <2>4. EndFits(file, t) /\ ~IsTrailer(file[Len(file)])
    BY <2>2 DEF EndFits, TailOf, IsTrailer
  <2>5. Len(file) > t
    BY <1>2, <2>2
  <2>6. Tailed(file, t) /\ SplitSignature(file) = t + 1
    BY <1>2, <2>2, <2>4, <2>5, SplitFits DEF Tailed, Loaded
  <2>7. Shapes'
    <3>1. ia' \in [last : Nat, tail : Nat, sessions : Nat, recovered : BOOLEAN,
                    sum : {ia'.sum}, oldTail : {ia'.oldTail}]
      BY <1>2, <2>1, Zenon DEF Shapes
    <3>2. run' \in [n : 0..MaxRuns, signer : Signers \cup {NoSigner},
                    signature : {run'.signature}, repaired : BOOLEAN, cause : {"ok", "error"}]
      BY <1>2, <2>1, Zenon DEF Shapes
    <3> QED
      BY <1>1, <1>2, <2>1, <2>3, <3>1, <3>2 DEF Shapes
  <2>8. Control'
    BY <1>2, <2>1 DEF Control
  <2>9. DiffInv'
    BY <1>1, <2>2, <2>3, <2>6 DEF DiffInv, Loaded
  <2>10. Opens' /\ RepairInv' /\ AppendInv' /\ RestoreInv' /\ SignInv'
    BY <1>1, <1>2, <2>1, Vacuous DEF Opens
  <2> QED
    BY <2>7, <2>8, <2>9, <2>10 DEF IInv
<1>4. CASE mode = "append"
  <2>1. pc' = "seal" /\ UNCHANGED <<mode, todo, at, ia, run, result>>
    BY <1>4 DEF Sync
  <2>2. Shapes' /\ Control'
    BY <1>1, <1>2, <1>4, <2>1, SMTT(30) DEF Shapes, Control
  <2>3. AppendInv'
    BY <1>1, <1>4, <2>1 DEF IInv, AppendInv, Loaded
  <2>4. Opens' /\ DiffInv' /\ RepairInv' /\ RestoreInv' /\ SignInv'
    BY <1>1, <1>2, <1>4, <2>1, Vacuous DEF Opens
  <2> QED
    BY <2>2, <2>3, <2>4 DEF IInv
<1>5. CASE mode = "restore"
  <2>1. run.cause \in {"ok", "error"}
    BY <1>2 DEF Shapes
  <2>2. Ended
    BY <1>5, <2>1 DEF Sync, Finish, Result, Ended
  <2> QED
    BY <1>1, <2>2, FinishSame
<1>6. CASE mode = "sign"
  <2>1. Ended
    BY <1>6 DEF Sync, Finish, Result, Ended
  <2> QED
    BY <1>1, <2>1, FinishSame
<1> QED
  BY <1>3, <1>4, <1>5, <1>6, Zenon DEF Sync

LEMMA SealInv ==
  ASSUME IInv, Seal
  PROVE  IInv'
<1>1. /\ pc = "seal" /\ sealed' = ia.sessions + 1 /\ pc' = "sealsync"
      /\ UNCHANGED <<file, mode, todo, at, ia, run, result>>
  BY DEF Seal
<1>2. Shapes /\ IsSeq(file) /\ Len(file) \in Nat /\ ia.sessions \in Nat /\ at \in Nat
      /\ mode = "append" /\ todo = <<>>
  BY <1>1, SeqFacts DEF IInv, Shapes, Control
<1>3. /\ Loaded /\ at > 2 /\ Len(file) = at - 1 /\ Tailed(file, at - 2)
      /\ file[at - 2].session = ia.sessions + 1
  BY <1>1, <1>2 DEF IInv, AppendInv
<1>4. at - 2 \in Nat /\ file[at - 2].session >= ia.sessions + 1 /\ sealed' \in Nat
  BY <1>1, <1>2, <1>3
<1>5. Sound(file, ia.sessions + 1)
  BY <1>2, <1>3, <1>4, TailedSound
<1>6. Shapes' /\ Control'
  BY <1>1, <1>2, <1>4 DEF Shapes, Control
<1>7. AppendInv'
  <2>1. sealed' <= ia.sessions + 1
    BY <1>1, <1>2
  <2> QED
    BY <1>1, <1>2, <1>3, <2>1 DEF AppendInv, Loaded
<1>8. Opens' /\ DiffInv' /\ RepairInv' /\ RestoreInv' /\ SignInv'
  BY <1>1, <1>2, <1>5, Vacuous DEF Opens
<1> QED
  BY <1>6, <1>7, <1>8 DEF IInv

LEMMA SealSyncInv ==
  ASSUME IInv, SealSync
  PROVE  IInv'
<1>1. pc = "sealsync" /\ file' = file /\ sealed' = sealed
  BY DEF SealSync
<1>2. Shapes /\ IsSeq(file) /\ Len(file) \in Nat /\ ia.sessions \in Nat /\ at \in Nat
      /\ mode = "append" /\ RunType(run) /\ run.signer \in Signers \cup {NoSigner}
  BY <1>1, SeqFacts DEF IInv, Shapes, Control, RunType
<1>3. CASE run.signer # NoSigner
  <2>1. /\ Start("sign", SignatureBlock(run.signer, file[at - 1].sum), at)
        /\ UNCHANGED <<ia, run, result>>
    BY <1>3 DEF SealSync
  <2>2. /\ at > 2 /\ Len(file) = at - 1 /\ Tailed(file, at - 2)
        /\ file[at - 2].session = ia.sessions + 1 /\ sealed <= ia.sessions + 1
    BY <1>1, <1>2 DEF IInv, AppendInv
  <2> DEFINE t == at - 2
  <2>3. t \in 1..Len(file) /\ at = t + 2
    BY <1>2, <2>2
  <2>4. file[t].session >= sealed
    <3>1. sealed \in Nat
      BY <1>2 DEF Shapes
    <3> QED
      BY <1>2, <2>2, <3>1
  <2>5. run.signer \in Signers /\ RunType(run')
    BY <1>2, <1>3, <2>1
  <2>6. Tailed(file, t)
    BY <2>2
  <2> HIDE DEF t
  <2>7. Start("sign", SignatureBlock(run.signer, file[at - 1].sum), t + 2)
    BY <2>1, <2>3 DEF Start
  <2> QED
    BY <1>1, <2>1, <2>3, <2>4, <2>5, <2>6, <2>7, SignStart
<1>4. CASE run.signer = NoSigner
  <2>1. Ended
    BY <1>4 DEF SealSync, Finish, Result, Ended
  <2> QED
    BY <1>1, <2>1, FinishSame
<1> QED
  BY <1>3, <1>4

LEMMA FinishUnchangedInv ==
  ASSUME IInv, FinishUnchanged
  PROVE  IInv'
<1> DEFINE t == ia.tail
           footer == file[ia.tail + 1].sum
<1>1. pc = "diff" /\ file' = file /\ sealed' = sealed
  BY DEF FinishUnchanged
<1>2. \/ Ended
      \/ /\ run.signer # NoSigner /\ Start("sign", SignatureBlock(run.signer, footer), t + 2)
         /\ UNCHANGED <<ia, run, result>>
  BY DEF FinishUnchanged, Finish, Result, Ended
<1>3. CASE Ended
  BY <1>1, <1>3, FinishSame, SMTT(30)
<1>4. CASE /\ run.signer # NoSigner /\ Start("sign", SignatureBlock(run.signer, footer), t + 2)
           /\ UNCHANGED <<ia, run, result>>
  <2>1. /\ IsSeq(file) /\ t \in Nat /\ RunType(run) /\ run.signer \in Signers \cup {NoSigner}
    BY DEF IInv, Shapes, RunType
  <2>2. Loaded /\ ia.sessions >= sealed /\ Tailed(file, t)
    BY <1>1 DEF IInv, DiffInv
  <2>3. file[t].session >= sealed
    BY <2>2 DEF Loaded
  <2>4. t \in 1..Len(file)
    BY <2>1, <2>2, ChainType DEF Loaded
  <2>5. run.signer \in Signers /\ RunType(run')
    BY <1>4, <2>1
  <2> HIDE DEF t, footer
  <2> QED
    BY <1>1, <1>4, <2>2, <2>3, <2>4, <2>5, SignStart
<1> QED
  BY <1>2, <1>3, <1>4, SMTT(30)

LEMMA SessionFacts ==
  ASSUME NEW r, NEW n, NEW prev, NEW from \in Nat, NEW packs \in Nat
  PROVE  LET s == Session(r, n, prev, from, packs)
         IN /\ IsSeq(s) /\ Len(s) = packs + 1
            /\ \A i \in 1..packs : s[i] = Pack(r)
            /\ s[packs + 1] = Index(r, n, prev, (from + 1)..(from + packs))
<1> DEFINE s == Session(r, n, prev, from, packs)
<1>1. s = [i \in 1..(packs + 1) |->
             IF i <= packs THEN Pack(r) ELSE Index(r, n, prev, (from + 1)..(from + packs))]
  BY DEF Session
<1>2. s = [i \in 1..(packs + 1) |-> s[i]]
  BY <1>1
<1>3. packs + 1 \in Nat /\ packs + 1 \in 1..(packs + 1) /\ ~(packs + 1 <= packs)
      /\ \A i \in 1..packs : i \in 1..(packs + 1) /\ i <= packs
  OBVIOUS
<1>4. s[packs + 1] = Index(r, n, prev, (from + 1)..(from + packs))
  BY <1>1, <1>3
<1>5. \A i \in 1..packs : s[i] = Pack(r)
  BY <1>1, <1>3
<1> HIDE DEF s
<1>6. IsSeq(s) /\ Len(s) = packs + 1
  BY <1>2, <1>3, FunctionIsSeq
<1> QED
  BY <1>4, <1>5, <1>6 DEF s

LEMMA AppendSessionInv ==
  ASSUME IInv, AppendSession
  PROVE  IInv'
<1> DEFINE t == ia.tail
           old == SubSeq(file, ia.tail + 1, Len(file))
<1>1. /\ pc = "diff" /\ ia' = [ia EXCEPT !.oldTail = old]
      /\ UNCHANGED <<file, sealed, run, result>>
  BY DEF AppendSession
<1>2. PICK packs \in 0..MaxPacks :
         LET s == Session(run.n, ia.sessions + 1, ia.last, ia.tail, packs)
         IN Start("append", Append(s, TailCell(ia.tail + Len(s), ia.sum \o s)), ia.tail + 1)
  BY DEF AppendSession
<1> DEFINE s == Session(run.n, ia.sessions + 1, ia.last, ia.tail, packs)
           c == TailCell(ia.tail + Len(s), ia.sum \o s)
           e == t + packs + 1
<1>3. pc' = "write" /\ mode' = "append" /\ todo' = Append(s, c) /\ at' = t + 1
  BY <1>2 DEF Start
<1>4. /\ Shapes /\ IsSeq(file) /\ Len(file) \in Nat /\ t \in Nat /\ ia.sessions \in Nat
      /\ sealed \in Nat /\ KindsOK(file) /\ packs \in Nat
  BY StoreAssumption, SeqFacts DEF IInv, Shapes
<1>5. Loaded /\ ia.sessions >= sealed /\ Tailed(file, t) /\ SplitSignature(file) = t + 1
  BY <1>1 DEF IInv, DiffInv
<1>6. /\ ia.last = t /\ Chained(file, t) /\ file[t].session = ia.sessions
      /\ Len(file) > t /\ TailOf(file[t + 1], t) /\ EndFits(file, t)
  BY <1>5 DEF Loaded, Tailed
<1>7. /\ ia'.tail = t /\ ia'.last = t /\ ia'.sessions = ia.sessions /\ ia'.oldTail = old
  BY <1>1, <1>4, <1>6, Zenon DEF Shapes
<1>8. /\ IsSeq(s) /\ Len(s) = packs + 1 /\ \A i \in 1..packs : s[i] = Pack(run.n)
      /\ s[packs + 1] = Index(run.n, ia.sessions + 1, t, (t + 1)..(t + packs))
  <2>1. /\ IsSeq(s) /\ Len(s) = packs + 1 /\ \A i \in 1..packs : s[i] = Pack(run.n)
        /\ s[packs + 1] = Index(run.n, ia.sessions + 1, ia.last, (t + 1)..(t + packs))
    BY <1>4, SessionFacts
  <2> HIDE DEF s
  <2> QED
    BY <1>6, <2>1
<1>9. TailOf(c, e) /\ c.kind = "tail"
  <2>1. c.kind = "tail" /\ c.last = t + Len(s)
    BY DEF TailCell
  <2> HIDE DEF s, c
  <2>2. t + Len(s) = e
    BY <1>4, <1>8
  <2> QED
    BY <2>1, <2>2 DEF TailOf
<1>10. t + 1 \in 1..Len(file)
  BY <1>4, <1>6
<1>11. /\ IsSeq(old) /\ Len(old) = Len(file) - (t + 1) + 1
       /\ \A i \in 1..Len(old) : old[i] = file[t + 1 + i - 1]
  BY <1>4, <1>10, EndFacts
<1>12. t = ia.tail
  OBVIOUS
<1>13. e = t + packs + 1
  OBVIOUS
<1>14. \A i \in 1..Len(file) : file[i].kind \in {"junk", "pack", "index", "tail", "sig"}
                               /\ (file[i].kind = "sig" => file[i].of \in Nat)
  BY <1>4 DEF KindsOK
<1> HIDE DEF t, old, s, c, e
<1>15. Len(old) = Len(file) - t /\ Len(old) \in Nat /\ Len(old) > 0
  BY <1>4, <1>6, <1>11
<1>16. \A i \in 1..Len(old) : i + t \in 1..Len(file) /\ old[i] = file[i + t]
  <2> TAKE i \in 1..Len(old)
  <2>1. i + t \in 1..Len(file) /\ t + 1 + i - 1 = i + t
    BY <1>4, <1>15
  <2> QED
    BY <1>11, <2>1
<1>17. Len(file) > t + 1 => IsTrailer(file[Len(file)]) /\ file[Len(file)].of = Len(file) - t - 1
  <2> HAVE Len(file) > t + 1
  <2>1. IsTrailer(file[Len(file)])
    BY <1>4, <1>5, <1>6, SplitFits
  <2> QED
    BY <1>6, <2>1 DEF EndFits
<1>18. /\ IsSeq(todo') /\ Len(todo') = packs + 2 /\ Len(todo') \in Nat /\ todo' # <<>>
       /\ \A i \in 1..(packs + 1) : todo'[i] = s[i]
       /\ todo'[packs + 2] = c
  <2>1. /\ IsSeq(todo') /\ Len(todo') = Len(s) + 1 /\ \A i \in 1..Len(s) : todo'[i] = s[i]
        /\ todo'[Len(s) + 1] = c
    BY <1>3, <1>8, AppendFacts
  <2>2. Len(s) + 1 = packs + 2 /\ Len(s) = packs + 1
    BY <1>4, <1>8
  <2>3. Len(todo') = packs + 2 /\ Len(todo') \in Nat /\ Len(todo') # 0
    BY <1>4, <2>1, <2>2
  <2> QED
    BY <2>1, <2>2, <2>3, SeqFacts
<1>19. \A n \in 1..Len(todo') : NewCell(todo'[n], t + n, e) /\ todo'[n].kind \in {"pack", "index", "tail"}
  <2> TAKE n \in 1..Len(todo')
  <2>1. n \in 1..packs \/ n = packs + 1 \/ n = packs + 2
    BY <1>4, <1>18
  <2>2. CASE n \in 1..packs
    <3>1. t + n < e /\ t + n # e /\ t + n # e + 1 /\ n \in 1..(packs + 1)
      BY <1>4, <1>13, <2>2
    <3>2. todo'[n] = Pack(run.n)
      BY <1>8, <1>18, <2>2, <3>1
    <3> QED
      BY <3>1, <3>2 DEF NewCell, Pack
  <2>3. CASE n = packs + 1
    <3>1. t + n = e /\ ~(t + n < e) /\ t + n # e + 1 /\ n \in 1..(packs + 1) /\ e - 1 = t + packs
      BY <1>4, <1>13, <2>3
    <3>2. todo'[n] = Index(run.n, ia.sessions + 1, t, (t + 1)..(e - 1))
      BY <1>8, <1>18, <2>3, <3>1
    <3> QED
      BY <1>12, <3>1, <3>2 DEF NewCell, Index
  <2>4. CASE n = packs + 2
    <3>1. t + n = e + 1 /\ ~(t + n < e) /\ t + n # e
      BY <1>4, <1>13, <2>4
    <3> QED
      BY <1>9, <1>18, <2>4, <3>1 DEF NewCell
  <2> QED
    BY <2>1, <2>2, <2>3, <2>4
<1>20. Shapes'
  <2>1. KindsOK(todo')
    BY <1>19 DEF KindsOK
  <2>2. KindsOK(old)
    BY <1>14, <1>16 DEF KindsOK
  <2>3. ia' \in [last : Nat, tail : Nat, sessions : Nat, recovered : BOOLEAN,
                 sum : {ia'.sum}, oldTail : {ia'.oldTail}]
    BY <1>1, <1>4 DEF Shapes
  <2>4. at' \in Nat
    BY <1>3, <1>4
  <2> QED
    BY <1>1, <1>4, <1>7, <1>11, <1>18, <2>1, <2>2, <2>3, <2>4, SMTT(30) DEF Shapes
<1>21. Control'
  BY <1>3, <1>18 DEF Control
<1>22. AppendInv'
  <2>1. Loaded'
    BY <1>1, <1>6, <1>7 DEF Loaded
  <2>2. OldTail'
    <3>1. TailOf(old[1], t)
      <4>1. 1 \in 1..Len(old) /\ 1 + t = t + 1
        BY <1>4, <1>15
      <4> QED
        BY <1>6, <1>16, <4>1
    <3>2. Len(old) > 1 => IsTrailer(old[Len(old)]) /\ old[Len(old)].of = Len(old) - 1
      <4> HAVE Len(old) > 1
      <4>1. Len(old) \in 1..Len(old) /\ Len(old) + t = Len(file) /\ Len(file) > t + 1
            /\ Len(old) - 1 = Len(file) - t - 1
        BY <1>4, <1>15
      <4> QED
        BY <1>16, <1>17, <4>1
    <3>3. Len(file) >= t + Len(old)
      BY <1>4, <1>15
    <3> QED
      BY <1>1, <1>7, <1>15, <3>1, <3>2, <3>3 DEF OldTail
  <2>3. Leftover'
    <3>1. Len(file) = t + 1 \/ Len(file) > t + 1
      BY <1>4, <1>6
    <3> QED
      BY <1>1, <1>3, <1>7, <1>17, <3>1 DEF Leftover
  <2>4. Writing'
    <3>1. NewIndex' = e
      BY <1>3, <1>4, <1>13, <1>18 DEF NewIndex
    <3>2. at' > t /\ e > t /\ Len(file) >= at' - 1 /\ (t + 1)..(at' - 1) = {}
      BY <1>3, <1>4, <1>6, <1>13
    <3>3. \A n \in 1..Len(todo') : NewCell(todo'[n], at' + n - 1, e)
      <4> TAKE n \in 1..Len(todo')
      <4>1. at' + n - 1 = t + n
        BY <1>3, <1>4, <1>18
      <4> QED
        BY <1>19, <4>1
    <3> QED
      BY <1>1, <1>3, <1>6, <1>7, <1>12, <3>1, <3>2, <3>3 DEF Writing, NewCell
  <2> QED
    BY <1>1, <1>3, <1>5, <1>7, <2>1, <2>2, <2>3, <2>4 DEF AppendInv
<1>23. Opens'
  BY <1>1 DEF IInv, Opens
<1>24. DiffInv' /\ RepairInv' /\ RestoreInv' /\ SignInv'
  BY <1>3, Vacuous
<1> QED
  BY <1>20, <1>21, <1>22, <1>23, <1>24 DEF IInv

\* A run that is refused: it changes neither the file nor the memory of a run.
LEMMA RefusedInv ==
  ASSUME IInv, pc = "idle", UNCHANGED <<file, sealed, pc, mode, todo, at, ia>>, RunType(run'),
         result'.status \in {"ok", "error", "crashed"}
  PROVE  IInv'
<1>1. Shapes /\ Control /\ Opens /\ mode = "none" /\ sealed \in Nat /\ at \in Nat
  BY DEF IInv, Control, Shapes
<1>2. Shapes'
  BY <1>1 DEF Shapes, RunType
<1>3. Control' /\ Opens'
  BY <1>1 DEF Control, Opens
<1>4. DiffInv' /\ RepairInv' /\ AppendInv' /\ RestoreInv' /\ SignInv'
  BY <1>1, Vacuous
<1> QED
  BY <1>2, <1>3, <1>4 DEF IInv

LEMMA NextRunType ==
  ASSUME Shapes, run.n < MaxRuns
  PROVE  /\ RunType([run EXCEPT !.n = @ + 1])
         /\ \A k \in Signers \cup {NoSigner} : RunType(NewRun(k))
<1>1. RunType(run) /\ run.n \in 0..MaxRuns
  BY DEF Shapes, RunType
<1>2. run.n + 1 \in 0..MaxRuns
  BY <1>1, StoreAssumption
<1>3. RunType([run EXCEPT !.n = @ + 1])
  BY <1>1, <1>2 DEF RunType
<1>4. \A k \in Signers \cup {NoSigner} : RunType(NewRun(k))
  BY <1>2 DEF RunType, NewRun
<1> QED
  BY <1>3, <1>4

LEMMA SignArchiveFileInv ==
  ASSUME IInv, NEW k \in Signers, SignArchiveFile(k)
  PROVE  IInv'
<1> DEFINE p == SplitSignature(file)
<1>1. /\ pc = "idle" /\ file # <<>> /\ run.n < MaxRuns /\ file' = file /\ sealed' = sealed
      /\ ia' = ia
  BY DEF SignArchiveFile
<1>2. /\ Shapes /\ IsSeq(file) /\ KindsOK(file) /\ Len(file) \in Nat
  BY SeqFacts DEF IInv, Shapes
<1>3. RunType([run EXCEPT !.n = @ + 1]) /\ RunType(NewRun(k))
  BY <1>1, <1>2, NextRunType
<1>4. CASE ArchiveChecksum(file)
  <2>1. /\ Start("sign", SignatureBlock(k, file[p].sum), p + 1)
        /\ run' = NewRun(k) /\ result' = result
    BY <1>4 DEF SignArchiveFile
  <2>2. file[p].kind = "tail"
    BY <1>4 DEF ArchiveChecksum
  <2>3. PICK t \in 1..Len(file) : SoundAt(file, sealed, t)
    BY <1>1 DEF IInv, Opens, Sound
  <2>4. Tailed(file, t) /\ p = t + 1 /\ t \in Nat
    BY <1>2, <2>2, <2>3, SoundTailed
  <2>5. file[t].session >= sealed
    BY <2>3 DEF SoundAt
  <2> HIDE DEF p
  <2>6. p + 1 = t + 2
    BY <2>4
  <2>7. Start("sign", SignatureBlock(k, file[p].sum), t + 2)
    BY <2>1, <2>6 DEF Start
  <2> QED
    BY <1>1, <1>3, <2>1, <2>3, <2>4, <2>5, <2>7, SignStart
<1>5. CASE ~ArchiveChecksum(file)
  <2>1. /\ run' = [run EXCEPT !.n = @ + 1] /\ result' = Result("error", FALSE, FALSE)
        /\ UNCHANGED <<pc, mode, todo, at>>
    BY <1>5 DEF SignArchiveFile
  <2>2. result'.status \in {"ok", "error", "crashed"}
    BY <2>1 DEF Result
  <2> QED
    BY <1>1, <1>3, <2>1, <2>2, RefusedInv, Zenon
<1> QED
  BY <1>4, <1>5

LEMMA UpdateIncrementalInv ==
  ASSUME IInv, NEW k \in Signers \cup {NoSigner}, UpdateIncremental(k)
  PROVE  IInv'
<1> DEFINE l == LoadIncremental(file)
           sum == IF l.recovered THEN SubSeq(file, 1, l.tail) ELSE l.sum
<1>1. /\ pc = "idle" /\ file # <<>> /\ run.n < MaxRuns /\ file' = file /\ sealed' = sealed
  BY DEF UpdateIncremental
<1>2. /\ Shapes /\ IsSeq(file) /\ KindsOK(file) /\ Len(file) \in Nat /\ Opens /\ sealed \in Nat
      /\ mode = "none" /\ todo = <<>> /\ at \in Nat
  BY <1>1, SeqFacts DEF IInv, Shapes, Control
<1>3. PICK t \in 1..Len(file) : SoundAt(file, sealed, t)
  BY <1>1, <1>2 DEF Opens, Sound
<1>4. /\ LoadOK(file, sealed) /\ LastIndex(file) = t /\ TailOffset(file) = t
      /\ (ReadCheckpoint(file) <=> file[SplitSignature(file)].kind = "tail") /\ t \in Nat
  BY <1>2, <1>3, SoundLoads, SMTT(30)
<1>5. Chained(file, t) /\ file[t].session >= sealed
  BY <1>3, SMTT(30) DEF SoundAt
<1>6. l.last = t /\ l.tail = t /\ l.sessions = file[t].session /\ l.recovered = ~ReadCheckpoint(file)
  BY <1>4 DEF LoadIncremental
<1>7. /\ ia' = [last |-> l.last, tail |-> l.tail, sessions |-> l.sessions,
                recovered |-> l.recovered, sum |-> sum, oldTail |-> <<>>]
      /\ IF l.recovered
         THEN Start("repair", <<TailCell(l.last, sum)>>, l.tail + 1)
         ELSE pc' = "diff" /\ UNCHANGED <<mode, todo, at>>
      /\ run' = NewRun(k) /\ result' = result
  BY <1>4 DEF UpdateIncremental
<1>8. RunType(run')
  BY <1>1, <1>2, <1>7, NextRunType
<1> HIDE DEF l, sum
<1>9. /\ ia'.last = t /\ ia'.tail = t /\ ia'.sessions = file[t].session /\ ia'.oldTail = <<>>
  BY <1>6, <1>7
<1>10. file[t].session \in Nat
  BY <1>2, <1>4, <1>5, ChainType
<1>11. ia' \in [last : Nat, tail : Nat, sessions : Nat, recovered : BOOLEAN,
                sum : {ia'.sum}, oldTail : {ia'.oldTail}]
  <2>1. l.recovered = TRUE \/ l.recovered = FALSE
    BY <1>6
  <2>2. /\ ia' = [last |-> t, tail |-> t, sessions |-> file[t].session,
                 recovered |-> l.recovered, sum |-> sum, oldTail |-> <<>>]
    BY <1>6, <1>7
  <2>3. CASE l.recovered = TRUE
    <3>1. ia' = [last |-> t, tail |-> t, sessions |-> file[t].session,
                 recovered |-> TRUE, sum |-> sum, oldTail |-> <<>>]
      BY <2>2, <2>3, Zenon
    <3> QED
      BY <1>4, <1>10, <3>1
  <2>4. CASE l.recovered = FALSE
    <3>1. ia' = [last |-> t, tail |-> t, sessions |-> file[t].session,
                 recovered |-> FALSE, sum |-> sum, oldTail |-> <<>>]
      BY <2>2, <2>4, Zenon
    <3> QED
      BY <1>4, <1>10, <3>1
  <2> QED
    BY <2>1, <2>3, <2>4, Zenon
<1>12. Loaded' /\ ia'.sessions >= sealed'
  BY <1>1, <1>5, <1>9 DEF Loaded
<1>13. Opens'
  BY <1>1, <1>2 DEF Opens
<1>14. CASE l.recovered
  <2> DEFINE c == TailCell(t, sum)
  <2>1. pc' = "write" /\ mode' = "repair" /\ todo' = <<c>> /\ at' = t + 1
    BY <1>6, <1>7, <1>14 DEF Start
  <2>2. TailOf(c, t) /\ c.kind = "tail"
    BY DEF TailCell, TailOf
  <2> HIDE DEF c
  <2>3. <<c>> \in Seq({c}) /\ Len(<<c>>) = 1 /\ <<c>>[1] = c
    OBVIOUS
  <2>4. IsSeq(todo') /\ Len(todo') = 1 /\ todo'[1] = c
    BY <2>1, <2>3, MemberIsSeq, Zenon
  <2>5. KindsOK(todo') /\ todo' # <<>>
    <3>1. KindsOK(todo')
      BY <2>2, <2>4 DEF KindsOK
    <3>2. todo' # <<>>
      BY <2>4, SeqFacts
    <3> QED
      BY <3>1, <3>2
  <2>6. Shapes'
    <3>1. at' \in Nat /\ IsSeq(ia'.oldTail) /\ KindsOK(ia'.oldTail) /\ ia'.last = ia'.tail
      BY <1>4, <1>9, <2>1, EmptyFacts
    <3> QED
      BY <1>1, <1>2, <1>7, <1>8, <1>11, <2>4, <2>5, <3>1 DEF Shapes, RunType
  <2>7. Control'
    BY <2>1, <2>5 DEF Control
  <2>8. RepairInv'
    BY <1>1, <1>3, <1>9, <1>12, <2>1, <2>2, <2>4 DEF RepairInv
  <2>9. DiffInv' /\ AppendInv' /\ RestoreInv' /\ SignInv'
    BY <2>1, Vacuous
  <2> QED
    BY <1>13, <2>6, <2>7, <2>8, <2>9, SMTT(30) DEF IInv
<1>15. CASE ~l.recovered
  <2>1. pc' = "diff" /\ UNCHANGED <<mode, todo, at>>
    BY <1>7, <1>15
  <2>2. Tailed(file, t) /\ SplitSignature(file) = t + 1
    BY <1>2, <1>3, <1>4, <1>6, <1>15, SoundTailed, ZenonT(40)
  <2>3. Shapes'
    <3>1. IsSeq(ia'.oldTail) /\ KindsOK(ia'.oldTail) /\ ia'.last = ia'.tail
      BY <1>9, EmptyFacts
    <3> QED
      BY <1>1, <1>2, <1>7, <1>8, <1>11, <2>1, <3>1 DEF Shapes, RunType
  <2>4. Control'
    BY <1>2, <2>1 DEF Control
  <2>5. DiffInv'
    BY <1>1, <1>9, <1>12, <2>2 DEF DiffInv
  <2>6. RepairInv' /\ AppendInv' /\ RestoreInv' /\ SignInv'
    BY <1>2, <2>1, Vacuous
  <2> QED
    BY <1>13, <2>3, <2>4, <2>5, <2>6 DEF IInv
<1> QED
  BY <1>14, <1>15

LEMMA CreateIncrementalInv ==
  ASSUME IInv, NEW k \in Signers \cup {NoSigner}, CreateIncremental(k)
  PROVE  IInv'
<1>1. /\ pc = "idle" /\ run.n < MaxRuns /\ run' = [run EXCEPT !.n = @ + 1] /\ sealed' = 1
      /\ result' = Result("ok", k # NoSigner, FALSE) /\ UNCHANGED <<pc, mode, todo, at, ia>>
  BY DEF CreateIncremental
<1>2. PICK packs \in 0..MaxPacks :
         LET s == Session(run.n + 1, 1, 0, 0, packs)
         IN file' = Append(s, TailCell(Len(s), s)) \o
                      (IF k = NoSigner THEN <<>> ELSE SignatureBlock(k, s))
  BY Zenon DEF CreateIncremental
<1> DEFINE s == Session(run.n + 1, 1, 0, 0, packs)
           e == packs + 1
           c == TailCell(Len(s), s)
           h == Append(s, c)
           b == IF k = NoSigner THEN <<>> ELSE SignatureBlock(k, s)
<1>3. Shapes /\ Control /\ packs \in Nat /\ e \in Nat /\ at \in Nat /\ mode = "none"
  BY <1>1, StoreAssumption DEF IInv, Shapes, Control
<1>4. RunType(run')
  BY <1>1, <1>3, NextRunType
<1>5. /\ IsSeq(s) /\ Len(s) = e /\ \A i \in 1..packs : s[i] = Pack(run.n + 1)
      /\ s[e] = Index(run.n + 1, 1, 0, 1..packs)
  <2>1. /\ IsSeq(s) /\ Len(s) = packs + 1 /\ \A i \in 1..packs : s[i] = Pack(run.n + 1)
        /\ s[packs + 1] = Index(run.n + 1, 1, 0, (0 + 1)..(0 + packs))
    BY <1>3, SessionFacts
  <2>2. (0 + 1)..(0 + packs) = 1..packs
    BY <1>3
  <2> HIDE DEF s
  <2> QED
    BY <2>1, <2>2
<1>6. /\ IsSeq(b) /\ KindsOK(b) /\ Len(b) \in Nat
      /\ Len(b) > 0 => SigFits(b[Len(b)], e + 1 + Len(b), e)
  <2>1. CASE k = NoSigner
    BY <2>1, EmptyFacts
  <2>2. CASE k # NoSigner
    <3> DEFINE d == SignatureBlock(k, s)
    <3>1. k \in Signers /\ b = d
      BY <2>2
    <3>2. /\ IsSeq(d) /\ KindsOK(d) /\ Len(d) \in Nat \ {0}
          /\ \A n \in 1..Len(d) : SigFits(d[n], e + 2 + n - 1, e)
      BY <1>3, <3>1, BlockFacts
    <3> HIDE DEF d, b
    <3>3. Len(d) \in 1..Len(d) /\ e + 2 + Len(d) - 1 = e + 1 + Len(d)
      BY <1>3, <3>2
    <3>4. SigFits(d[Len(d)], e + 1 + Len(d), e)
      BY <3>2, <3>3
    <3> QED
      BY <3>1, <3>2, <3>4
  <2> QED
    BY <2>1, <2>2
<1>7. file' = h \o b
  BY <1>2
<1>8. c.kind = "tail" /\ c.last = Len(s)
  BY DEF TailCell
<1>9. e = packs + 1
  OBVIOUS
<1>10. h = Append(s, c)
  OBVIOUS
<1> HIDE DEF s, c, b, h, e
<1>11. /\ IsSeq(h) /\ Len(h) = e + 1 /\ h[e + 1] = c /\ \A i \in 1..e : h[i] = s[i]
  <2>1. /\ IsSeq(h) /\ Len(h) = Len(s) + 1 /\ h[Len(s) + 1] = c /\ \A i \in 1..Len(s) : h[i] = s[i]
    BY <1>5, <1>10, AppendFacts
  <2> QED
    BY <1>5, <2>1
<1>12. /\ IsSeq(file') /\ Len(file') = Len(h) + Len(b)
       /\ \A i \in 1..Len(h) : file'[i] = h[i]
       /\ \A i \in 1..Len(b) : file'[Len(h) + i] = b[i]
  BY <1>6, <1>7, <1>11, ConcatFacts
<1>13. Len(file') = e + 1 + Len(b) /\ Len(file') \in Nat /\ Len(file') > e
  BY <1>3, <1>6, <1>11, <1>12
<1>14. \A i \in 1..e : file'[i] = s[i]
  <2> TAKE i \in 1..e
  <2>1. i \in 1..Len(h)
    BY <1>3, <1>11
  <2> QED
    BY <1>11, <1>12, <2>1
<1>15. file'[e + 1] = c
  <2>1. e + 1 \in 1..Len(h)
    BY <1>3, <1>11
  <2> QED
    BY <1>11, <1>12, <2>1
<1>16. /\ \A i \in 1..packs : i \in 1..e /\ file'[i] = Pack(run.n + 1)
       /\ e \in 1..e /\ file'[e] = Index(run.n + 1, 1, 0, 1..packs)
  <2>1. e \in 1..e /\ \A i \in 1..packs : i \in 1..e
    BY <1>3, <1>9
  <2> QED
    BY <1>5, <1>14, <2>1
<1>17. /\ file'[e].kind = "index" /\ file'[e].session = 1 /\ file'[e].prev = 0
       /\ file'[e].packs = 1..packs /\ file'[e].run = run.n + 1
  BY <1>16 DEF Index
<1>18. \A i \in 1..packs : file'[i].kind = "pack"
  BY <1>16 DEF Pack
<1>19. Chained(file', e)
  <2>1. Linked(file', e)
    <3>1. \A p \in 1..packs : p \in 1..(e - 1)
      BY <1>3, <1>9
    <3> QED
      BY <1>16, <1>17, <3>1 DEF Linked
  <2>2. \A i \in 1..e : i \in 1..packs \/ i = e
    BY <1>3, <1>9
  <2>3. \A i \in 1..e : IsEntry(file'[i]) /\ (file'[i].kind = "index" => Linked(file', i))
    BY <1>17, <1>18, <2>1, <2>2 DEF IsEntry
  <2>4. e \in 1..Len(file')
    BY <1>3, <1>9, <1>13
  <2> QED
    BY <1>17, <2>3, <2>4 DEF Chained
<1>20. Tailed(file', e)
  <2>1. TailOf(file'[e + 1], e)
    BY <1>5, <1>8, <1>15 DEF TailOf
  <2>2. EndFits(file', e)
    <3>1. CASE Len(b) = 0
      <4>1. Len(file') = e + 1
        BY <1>3, <1>13, <3>1
      <4> QED
        BY <2>1, <4>1 DEF EndFits, TailOf, IsTrailer
    <3>2. CASE Len(b) > 0
      <4>1. Len(b) \in 1..Len(b) /\ Len(h) + Len(b) = Len(file')
        BY <1>6, <1>12, <3>2
      <4>2. SigFits(file'[Len(file')], Len(file'), e)
        BY <1>6, <1>12, <1>13, <3>2, <4>1, Zenon
      <4> QED
        BY <4>2 DEF EndFits, SigFits
    <3> QED
      BY <1>6, <3>1, <3>2
  <2> QED
    BY <1>13, <1>19, <2>1, <2>2 DEF Tailed
<1>21. Sound(file', 1)
  BY <1>3, <1>12, <1>17, <1>20, TailedSound
<1>22. KindsOK(file')
  <2> SUFFICES ASSUME NEW i \in 1..Len(file')
               PROVE  /\ file'[i].kind \in {"junk", "pack", "index", "tail", "sig"}
                      /\ file'[i].kind = "sig" => file'[i].of \in Nat
    BY DEF KindsOK
  <2>1. i \in 1..packs \/ i = e \/ i = e + 1 \/ i \in (e + 2)..Len(file')
    BY <1>3, <1>9, <1>13
  <2>2. CASE i \in (e + 2)..Len(file')
    <3>1. i - Len(h) \in 1..Len(b) /\ Len(h) + (i - Len(h)) = i
      BY <1>3, <1>6, <1>11, <1>13, <2>2
    <3>2. file'[i] = b[i - Len(h)]
      BY <1>12, <3>1
    <3> QED
      BY <1>6, <3>1, <3>2 DEF KindsOK
  <2> QED
    BY <1>8, <1>15, <1>17, <1>18, <2>1, <2>2
<1>23. Shapes'
  <2>1. result'.status \in {"ok", "error", "crashed"}
    BY <1>1 DEF Result
  <2> QED
    BY <1>1, <1>3, <1>4, <1>12, <1>22, <2>1, Zenon DEF Shapes, RunType
<1>24. Control' /\ Opens'
  BY <1>1, <1>3, <1>21 DEF Control, Opens
<1>25. DiffInv' /\ RepairInv' /\ AppendInv' /\ RestoreInv' /\ SignInv'
  BY <1>1, <1>3, Vacuous
<1> QED
  BY <1>23, <1>24, <1>25 DEF IInv

\* The run ends while it writes, and may leave a part of the cell at hand.
LEMMA CutShortInv ==
  ASSUME IInv, Ended, sealed' = sealed,
         file' = file \/ (pc = "write" /\ file' = Put(file, at, Junk))
  PROVE  IInv'
<1>1. CASE file' = file
  BY <1>1, FinishSame
<1>2. CASE pc = "write" /\ file' = Put(file, at, Junk)
  <2>1. IsSeq(file') /\ KindsOK(file') /\ Sound(file', sealed)
    BY <1>2, JunkSound
  <2>2. Shapes /\ sealed' \in Nat
    BY DEF IInv, Shapes
  <2>3. Opens'
    BY <2>1 DEF Opens
  <2> QED
    BY <2>1, <2>2, <2>3, FinishInv, SMTT(30)
<1> QED
  BY <1>1, <1>2

LEMMA KillInv ==
  ASSUME IInv, Kill
  PROVE  IInv'
<1>1. Ended /\ sealed' = sealed
  BY DEF Kill, Finish, Result, Ended
<1>2. file' = file \/ (pc = "write" /\ file' = Put(file, at, Junk))
  BY DEF Kill, Wrote
<1> QED
  BY <1>1, <1>2, CutShortInv

LEMMA WriteFailsInv ==
  ASSUME IInv, WriteFails
  PROVE  IInv'
<1>1. pc = "write" /\ sealed' = sealed /\ (file' = file \/ file' = Put(file, at, Junk))
  BY DEF WriteFails, Wrote
<1>2. CASE mode = "append"
  <2>1. Restore("error")
    BY <1>2 DEF WriteFails, Failed
  <2> QED
    BY <1>1, <1>2, <2>1, RestoreStart
<1>3. CASE mode # "append"
  <2>1. Ended
    BY <1>3 DEF WriteFails, Failed, Finish, Result, Ended
  <2> QED
    BY <1>1, <2>1, CutShortInv
<1> QED
  BY <1>2, <1>3

LEMMA SealFailsInv ==
  ASSUME IInv, SealFails
  PROVE  IInv'
<1>1. Ended /\ file' = file /\ sealed' = sealed
  BY DEF SealFails, Finish, Result, Ended
<1> QED
  BY <1>1, FinishSame

LEMMA EmptySessionInv ==
  ASSUME IInv, EmptySession
  PROVE  IInv'
<1>1. pc = "write" /\ mode = "append" /\ Restore("ok") /\ file' = file /\ sealed' = sealed
  BY DEF EmptySession
<1> QED
  BY <1>1, RestoreStart

LEMMA WriteCellInv ==
  ASSUME IInv, WriteCell
  PROVE  IInv'
<1>1. pc = "write"
  BY DEF WriteCell
<1>2. mode \in {"repair", "append", "restore", "sign"}
  BY <1>1, WriteFacts
<1> QED
  BY <1>2, CellOfRepair, CellOfSession, CellOfRestore, CellOfSignature

LEMMA TruncateInv ==
  ASSUME IInv, Truncate
  PROVE  IInv'
<1>1. mode \in {"repair", "append", "restore", "sign"}
  BY TruncateFacts
<1> QED
  BY <1>1, TruncateOfRepair, TruncateOfSession, TruncateOfRestore, TruncateOfSignature

----------------------------------------------------------------------------
(* The theorems *)

LEMMA InitIInv ==
  ASSUME Init
  PROVE  IInv
<1>1. /\ file = <<>> /\ sealed = 0 /\ pc = "idle" /\ mode = "none" /\ todo = <<>> /\ at = 0
      /\ ia = NoArchive /\ result = Result("ok", FALSE, FALSE)
      /\ run = [n |-> 0, signer |-> NoSigner, signature |-> <<>>, repaired |-> FALSE, cause |-> "ok"]
  BY DEF Init
<1>2. Shapes
  <2>1. 0 \in 0..MaxRuns
    BY StoreAssumption
  <2>2. ia.oldTail = <<>> /\ ia.last = ia.tail /\ result.status = "ok"
    BY <1>1 DEF NoArchive, Result
  <2>3. ia \in [last : Nat, tail : Nat, sessions : Nat, recovered : BOOLEAN,
                sum : {ia.sum}, oldTail : {ia.oldTail}]
    BY <1>1 DEF NoArchive
  <2>4. run \in [n : 0..MaxRuns, signer : Signers \cup {NoSigner}, signature : {run.signature},
                 repaired : BOOLEAN, cause : {"ok", "error"}]
    BY <1>1, <2>1
  <2> QED
    BY <1>1, <2>2, <2>3, <2>4, EmptyFacts, Zenon DEF Shapes
<1>3. Control /\ Opens
  BY <1>1 DEF Control, Opens
<1>4. DiffInv /\ RepairInv /\ AppendInv /\ RestoreInv /\ SignInv
  BY <1>1, Zenon DEF DiffInv, RepairInv, AppendInv, RestoreInv, SignInv
<1> QED
  BY <1>2, <1>3, <1>4 DEF IInv

LEMMA NextIInv ==
  ASSUME NoLoss, IInv, [Next]_vars
  PROVE  IInv'
<1>1. ASSUME NEW k \in Signers \cup {NoSigner}, CreateIncremental(k) PROVE IInv'
  BY <1>1, CreateIncrementalInv
<1>2. ASSUME NEW k \in Signers \cup {NoSigner}, UpdateIncremental(k) PROVE IInv'
  BY <1>2, UpdateIncrementalInv
<1>3. ASSUME NEW k \in Signers, SignArchiveFile(k) PROVE IInv'
  BY <1>3, SignArchiveFileInv
<1>4. CASE FinishUnchanged
  BY <1>4, FinishUnchangedInv
<1>5. CASE AppendSession
  BY <1>5, AppendSessionInv
<1>6. CASE EmptySession
  BY <1>6, EmptySessionInv
<1>7. CASE WriteCell
  BY <1>7, WriteCellInv
<1>8. CASE WriteFails
  BY <1>8, WriteFailsInv
<1>9. CASE Truncate
  BY <1>9, TruncateInv
<1>10. CASE Sync
  BY <1>10, SyncInv
<1>11. CASE SyncFails
  BY <1>11, SMTT(30) DEF SyncFails, NoLoss
<1>12. CASE Seal
  BY <1>12, SealInv
<1>13. CASE SealSync
  BY <1>13, SealSyncInv
<1>14. CASE SealFails
  BY <1>14, SealFailsInv
<1>15. CASE Kill
  BY <1>15, KillInv
<1>16. CASE PowerLoss
  BY <1>16 DEF PowerLoss, Lossy, NoLoss
<1>17. CASE UNCHANGED vars
  <2>1. UNCHANGED <<file, sealed, pc, mode, todo, at, ia, run, result>>
    BY <1>17 DEF vars
  <2>a. Shapes /\ Control /\ Opens /\ DiffInv /\ RepairInv /\ AppendInv /\ RestoreInv /\ SignInv
    BY DEF IInv
  <2>b. Loaded => Loaded'
    BY <2>1 DEF Loaded
  <2>c. OldTail => OldTail'
    BY <2>1 DEF OldTail
  <2>d. Leftover => Leftover'
    BY <2>1, SMTT(30) DEF Leftover
  <2>e. Writing => Writing'
    BY <2>1 DEF Writing, NewIndex, NewCell
  <2>2. Shapes' /\ Control' /\ Opens'
    BY <2>1, <2>a, SMTT(30) DEF Shapes, Control, Opens
  <2>3. DiffInv' /\ RepairInv'
    BY <2>1, <2>a, <2>b DEF DiffInv, RepairInv
  <2>4. AppendInv'
    BY <2>1, <2>a, <2>b, <2>c, <2>d, <2>e, SMTT(30) DEF AppendInv
  <2>5. RestoreInv'
    BY <2>1, <2>a, <2>b, <2>c, SMTT(30) DEF RestoreInv
  <2>6. SignInv'
    BY <2>1, <2>a DEF SignInv
  <2> QED
    BY <2>2, <2>3, <2>4, <2>5, <2>6 DEF IInv
<1> QED
  BY <1>1, <1>2, <1>3, <1>4, <1>5, <1>6, <1>7, <1>8, <1>9, <1>10, <1>11, <1>12, <1>13, <1>14,
     <1>15, <1>16, <1>17, SMTT(30) DEF Next

\* Without a power loss or a failed sync, the file is at every step what the run
\* that writes it has made of it so far (io/incremental_write.go:173-640).
THEOREM Invariant ==
  ASSUME NoLoss
  PROVE  Spec => []IInv
<1>1. Init => IInv
  BY InitIInv
<1>2. IInv /\ [Next]_vars => IInv'
  BY NextIInv
<1> QED
  BY <1>1, <1>2, PTL DEF Spec

LEMMA InvType ==
  ASSUME IInv
  PROVE  TypeOK
<1>1. Shapes /\ Control
  BY DEF IInv
<1>2. \A i \in DOMAIN file : file[i].kind \in {"junk", "pack", "index", "tail", "sig"}
  BY <1>1, SeqFacts DEF Shapes, KindsOK
<1>3. ia.tail \in Nat /\ ia.sessions \in Nat /\ ia.last \in Nat /\ run.n \in 0..MaxRuns
      /\ run.signer \in Signers \cup {NoSigner}
  BY <1>1 DEF Shapes
<1>4. ia.last \in 0..ia.tail
  BY <1>1, <1>3 DEF Shapes
<1> QED
  BY <1>1, <1>2, <1>3, <1>4 DEF TypeOK, Shapes, Control

LEMMA InvOpens ==
  ASSUME IInv
  PROVE  AlwaysOpens /\ NewestStateIntact
<1> SUFFICES ASSUME file # <<>>
             PROVE  /\ LoadOK(file, sealed)
                    /\ \A i \in 1..LastIndex(file) :
                         file[i].kind = "index" => \A p \in file[i].packs : file[p] = Pack(file[i].run)
  BY DEF AlwaysOpens, NewestStateIntact
<1>1. IsSeq(file) /\ KindsOK(file) /\ Len(file) \in Nat
  BY SeqFacts DEF IInv, Shapes
<1>2. PICK t \in 1..Len(file) : SoundAt(file, sealed, t)
  BY DEF IInv, Opens, Sound
<1>3. LoadOK(file, sealed) /\ LastIndex(file) = t
  BY <1>1, <1>2, SoundLoads
<1>4. Chained(file, t)
  BY <1>2 DEF SoundAt
<1>5. \A i \in 1..t : file[i].kind = "index" => Linked(file, i)
  BY <1>4 DEF Chained
<1>6. \A i \in 1..t : file[i].kind = "index" => \A p \in file[i].packs : file[p] = Pack(file[i].run)
  BY <1>5 DEF Linked
<1> QED
  BY <1>3, <1>6

\* Every state is typed, for any number of runs, packs and signers.
THEOREM TypeCorrect ==
  ASSUME NoLoss
  PROVE  Spec => []TypeOK
<1>1. IInv => TypeOK
  BY InvType
<1> QED
  BY <1>1, Invariant, PTL

\* loadIncremental opens the archive after any number of updates, repairs and
\* signatures, each killed or failed at any step (io/incremental.go:71-96).
THEOREM OpensAfterAnyKill ==
  ASSUME NoLoss
  PROVE  Spec => []AlwaysOpens
<1>1. IInv => AlwaysOpens
  BY InvOpens
<1> QED
  BY <1>1, Invariant, PTL

\* No step writes over a pack of a session that loads: every pack is still the
\* one its session's run wrote (appendSession, io/incremental_write.go:385-433).
THEOREM KeepsNewestState ==
  ASSUME NoLoss
  PROVE  Spec => []NewestStateIntact
<1>1. IInv => NewestStateIntact
  BY InvOpens
<1> QED
  BY <1>1, Invariant, PTL
=============================================================================
