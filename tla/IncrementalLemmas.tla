-------------------------- MODULE IncrementalLemmas --------------------------
(***************************************************************************)
(* What writing a cell, truncating and reading do to the cells of an       *)
(* archive: the facts the proofs about IncrementalStore rest on.           *)
(***************************************************************************)
EXTENDS IncrementalInvariant, SequenceTheorems, TLAPS

----------------------------------------------------------------------------
(* Sequences *)

LEMMA SeqFacts ==
  ASSUME NEW s, IsSeq(s)
  PROVE  /\ Len(s) \in Nat /\ DOMAIN s = 1..Len(s)
         /\ s = <<>> <=> Len(s) = 0
<1> DEFINE S == {s[i] : i \in DOMAIN s}
<1>1. s \in Seq(S)
  BY DEF IsSeq
<1> HIDE DEF S
<1> QED
  BY <1>1, LenProperties, EmptySeq

LEMMA MemberIsSeq ==
  ASSUME NEW S, NEW s \in Seq(S)
  PROVE  IsSeq(s)
<1>1. s \in [1..Len(s) -> S] /\ DOMAIN s = 1..Len(s) /\ Len(s) \in Nat
  BY LenProperties
<1>2. s \in [1..Len(s) -> {s[i] : i \in DOMAIN s}]
  BY <1>1
<1> QED
  BY <1>1, <1>2, SeqDef DEF IsSeq

LEMMA IntervalEnd ==
  ASSUME NEW m \in Nat, NEW n \in Nat, 1..m = 1..n
  PROVE  m = n
<1>1. ASSUME NEW a \in Nat, NEW b \in Nat, 1..a = 1..b, a < b PROVE FALSE
  <2>1. b \in 1..b
    BY <1>1
  <2>2. b \notin 1..a
    BY <1>1
  <2> QED
    BY <2>1, <2>2, <1>1
<1>2. ~(m < n)
  BY <1>1
<1>3. ~(n < m)
  BY <1>1
<1> QED
  BY <1>2, <1>3

LEMMA FunctionIsSeq ==
  ASSUME NEW n \in Nat, NEW f, f = [i \in 1..n |-> f[i]]
  PROVE  IsSeq(f) /\ Len(f) = n
<1> DEFINE S == {f[i] : i \in 1..n}
<1>1. f \in [1..n -> S] /\ DOMAIN f = 1..n
  OBVIOUS
<1>2. f \in Seq(S)
  BY <1>1, SeqDef
<1>3. Len(f) \in Nat /\ DOMAIN f = 1..Len(f)
  BY <1>2, LenProperties
<1>4. Len(f) = n
  BY <1>1, <1>3, IntervalEnd
<1> QED
  BY <1>2, <1>4, MemberIsSeq

\* Writing a cell at or right behind the end of the file or inside it.
LEMMA PutFacts ==
  ASSUME NEW s, IsSeq(s), NEW p \in 1..(Len(s) + 1), NEW v
  PROVE  /\ IsSeq(Put(s, p, v))
         /\ Len(Put(s, p, v)) = IF p > Len(s) THEN p ELSE Len(s)
         /\ Put(s, p, v)[p] = v
         /\ \A i \in 1..Len(Put(s, p, v)) : i # p => i \in 1..Len(s) /\ Put(s, p, v)[i] = s[i]
<1> DEFINE n == IF p > Len(s) THEN p ELSE Len(s)
           g == Put(s, p, v)
<1>1. Len(s) \in Nat
  BY SeqFacts
<1>2. n \in Nat /\ p \in 1..n
  BY <1>1
<1>3. g = [i \in 1..n |-> IF i = p THEN v ELSE s[i]]
  BY DEF Put
<1>4. g = [i \in 1..n |-> g[i]]
  BY <1>3
<1> HIDE DEF g
<1>5. IsSeq(g) /\ Len(g) = n
  BY <1>2, <1>4, FunctionIsSeq
<1>6. g[p] = v /\ \A i \in 1..n : i # p => g[i] = s[i]
  BY <1>2, <1>3
<1>7. \A i \in 1..n : i # p => i \in 1..Len(s)
  BY <1>1
<1> QED
  BY <1>5, <1>6, <1>7 DEF g

LEMMA CutFacts ==
  ASSUME NEW s, IsSeq(s), NEW n \in 0..Len(s)
  PROVE  /\ IsSeq(SubSeq(s, 1, n)) /\ Len(SubSeq(s, 1, n)) = n
         /\ \A i \in 1..n : SubSeq(s, 1, n)[i] = s[i]
<1> DEFINE S == {s[i] : i \in DOMAIN s}
<1>1. Len(s) \in Nat /\ DOMAIN s = 1..Len(s)
  BY SeqFacts
<1>2. \A i \in 1..n : s[i] \in S
  BY <1>1
<1> HIDE DEF S
<1>3. /\ SubSeq(s, 1, n) \in Seq(S)
      /\ Len(SubSeq(s, 1, n)) = IF 1 <= n THEN n - 1 + 1 ELSE 0
      /\ \A i \in 1..(n - 1 + 1) : SubSeq(s, 1, n)[i] = s[1 + i - 1]
  BY <1>1, <1>2, SubSeqProperties
<1>4. Len(SubSeq(s, 1, n)) = n
  BY <1>1, <1>3
<1>5. \A i \in 1..n : SubSeq(s, 1, n)[i] = s[i]
  BY <1>1, <1>3
<1>6. IsSeq(SubSeq(s, 1, n))
  BY <1>3, MemberIsSeq, Zenon
<1> QED
  BY <1>4, <1>5, <1>6

LEMMA EndFacts ==
  ASSUME NEW s, IsSeq(s), NEW m \in 1..Len(s)
  PROVE  LET e == SubSeq(s, m, Len(s))
         IN /\ IsSeq(e) /\ Len(e) = Len(s) - m + 1
            /\ \A i \in 1..Len(e) : e[i] = s[m + i - 1]
<1> DEFINE S == {s[i] : i \in DOMAIN s}
           e == SubSeq(s, m, Len(s))
<1>1. Len(s) \in Nat /\ DOMAIN s = 1..Len(s)
  BY SeqFacts
<1>2. \A i \in m..Len(s) : s[i] \in S
  BY <1>1
<1> HIDE DEF S
<1>3. /\ e \in Seq(S)
      /\ Len(e) = IF m <= Len(s) THEN Len(s) - m + 1 ELSE 0
      /\ \A i \in 1..(Len(s) - m + 1) : e[i] = s[m + i - 1]
  BY <1>1, <1>2, SubSeqProperties
<1>4. m <= Len(s) /\ Len(e) = Len(s) - m + 1
  BY <1>1, <1>3
<1> QED
  BY <1>3, <1>4, MemberIsSeq, Zenon

LEMMA TailFacts ==
  ASSUME NEW s, IsSeq(s), s # <<>>
  PROVE  /\ Head(s) = s[1] /\ Len(s) \in Nat /\ Len(s) > 0
         /\ IsSeq(Tail(s)) /\ Len(Tail(s)) = Len(s) - 1
         /\ \A i \in 1..Len(Tail(s)) : Tail(s)[i] = s[i + 1]
<1> DEFINE S == {s[i] : i \in DOMAIN s}
<1>1. s \in Seq(S)
  BY DEF IsSeq
<1> HIDE DEF S
<1>2. /\ Tail(s) \in Seq(S) /\ Len(Tail(s)) = Len(s) - 1
      /\ \A i \in 1..Len(Tail(s)) : Tail(s)[i] = s[i + 1]
  BY <1>1, HeadTailProperties
<1>3. Head(s) = s[1]
  BY <1>1
<1>4. Len(s) \in Nat /\ Len(s) > 0
  BY SeqFacts
<1>5. IsSeq(Tail(s))
  BY <1>2, MemberIsSeq, Zenon
<1> QED
  BY <1>2, <1>3, <1>4, <1>5

----------------------------------------------------------------------------
(* Reading *)

\* Where the signature is split off, when the end of the file fits.
LEMMA SplitFits ==
  ASSUME NEW f, IsSeq(f), NEW t \in Nat, Len(f) > t, EndFits(f, t)
  PROVE  IF IsTrailer(f[Len(f)]) THEN SplitSignature(f) = t + 1 ELSE SplitSignature(f) = Len(f)
<1>1. Len(f) \in Nat /\ f # <<>>
  BY SeqFacts
<1>2. CASE IsTrailer(f[Len(f)])
  <2>1. f[Len(f)].of = Len(f) - t - 1
    BY <1>2 DEF EndFits
  <2> QED
    BY <1>1, <1>2, <2>1 DEF SplitSignature
<1>3. CASE ~IsTrailer(f[Len(f)])
  BY <1>3 DEF SplitSignature
<1> QED
  BY <1>2, <1>3

\* Anything but an entry behind the session at t ends a scan there.
LEMMA BreakSound ==
  ASSUME NEW f, IsSeq(f), NEW t \in Nat, NEW s, Chained(f, t), f[t].session >= s,
         Len(f) > t, ~IsEntry(f[t + 1]), EndFits(f, t),
         f[t + 1].kind = "tail" => TailOf(f[t + 1], t)
  PROVE  SoundAt(f, s, t)
<1>1. Len(f) \in Nat
  BY SeqFacts
<1>2. SplitSignature(f) \in (t + 1)..Len(f)
  BY <1>1, SplitFits
<1>3. \A i \in (t + 1)..SplitSignature(f) :
        f[i].kind = "index" => \E j \in (t + 1)..i : ~IsEntry(f[j])
  BY <1>1, <1>2
<1>4. ASSUME f[SplitSignature(f)].kind = "tail"
      PROVE  SplitSignature(f) = t + 1 /\ TailOf(f[t + 1], t)
  <2>1. SplitSignature(f) = t + 1
    BY <1>4, SplitFits DEF EndFits, IsTrailer
  <2> QED
    BY <1>4, <2>1
<1> QED
  BY <1>1, <1>2, <1>3, <1>4 DEF SoundAt

LEMMA TailedSound ==
  ASSUME NEW f, IsSeq(f), NEW t \in Nat, NEW s, Tailed(f, t), f[t].session >= s
  PROVE  SoundAt(f, s, t) /\ Sound(f, s)
<1>1. SoundAt(f, s, t)
  BY BreakSound DEF Tailed, TailOf, IsEntry
<1>2. t \in 1..Len(f)
  BY DEF Tailed, Chained
<1> QED
  BY <1>1, <1>2 DEF Sound

\* An archive whose split ends in a tail is followed by its tail.
LEMMA SoundTailed ==
  ASSUME NEW f, IsSeq(f), KindsOK(f), NEW t \in Nat, NEW s, SoundAt(f, s, t),
         f[SplitSignature(f)].kind = "tail"
  PROVE  Tailed(f, t) /\ SplitSignature(f) = t + 1
<1>1. SplitSignature(f) = t + 1 /\ TailOf(f[t + 1], t) /\ Chained(f, t)
  BY DEF SoundAt
<1>2. Len(f) \in Nat /\ t \in 1..Len(f)
  BY <1>1, SeqFacts DEF Chained
<1>3. f[Len(f)].kind = "sig" => f[Len(f)].of \in Nat
  BY <1>2 DEF KindsOK
<1>4. Len(f) > t /\ EndFits(f, t)
  BY <1>1, <1>2, <1>3 DEF SplitSignature, EndFits, IsTrailer, TailOf
<1> QED
  BY <1>1, <1>4 DEF Tailed

LEMMA ChainReads ==
  ASSUME NEW f, NEW t \in Nat, Chained(f, t)
  PROVE  ReadIndexChain(f, t)
<1> DEFINE chain == {j \in 1..t : f[j].kind = "index"}
<1>1. t \in chain /\ chain \in SUBSET {j \in 1..t : f[j].kind = "index"}
  BY DEF Chained
<1>2. ASSUME NEW j \in chain
      PROVE  IF f[j].session = 1 THEN f[j].prev = 0
             ELSE f[j].prev \in chain /\ f[j].prev < j /\ f[f[j].prev].session = f[j].session - 1
  <2>1. Linked(f, j) /\ j \in 1..t
    BY DEF Chained
  <2> QED
    BY <2>1 DEF Linked
<1> QED
  BY <1>1, <1>2, Zenon DEF ReadIndexChain

LEMMA ScanFinds ==
  ASSUME NEW f, IsSeq(f), NEW t \in Nat, NEW s, SoundAt(f, s, t), SplitSignature(f) \in Int
  PROVE  t \in Scanned(f) /\ ScanForLastIndex(f) = t
<1>1. t \in Scanned(f)
  BY DEF SoundAt, Chained, Scanned
<1>2. ASSUME NEW i \in Scanned(f) PROVE i <= t
  <2>1. i \in 1..SplitSignature(f) /\ f[i].kind = "index" /\ \A j \in 1..i : IsEntry(f[j])
    BY DEF Scanned
  <2>2. CASE i \in (t + 1)..SplitSignature(f)
    <3>1. PICK j \in (t + 1)..i : ~IsEntry(f[j])
      BY <2>1, <2>2 DEF SoundAt
    <3> QED
      BY <2>1, <3>1
  <2> QED
    BY <2>1, <2>2
<1>3. \A i, j \in Scanned(f) : i \in Int /\ j \in Int
  BY DEF Scanned
<1>4. \A i \in Scanned(f) : (\A j \in Scanned(f) : j <= i) => i = t
  BY <1>1, <1>2, <1>3
<1> QED
  BY <1>1, <1>2, <1>4, Zenon DEF ScanForLastIndex

LEMMA SplitType ==
  ASSUME NEW f, IsSeq(f), KindsOK(f)
  PROVE  SplitSignature(f) \in 0..Len(f)
<1>1. Len(f) \in Nat /\ (f # <<>> => Len(f) \in 1..Len(f))
  BY SeqFacts
<1> QED
  BY <1>1 DEF SplitSignature, KindsOK, IsTrailer

\* An archive that is sound at t loads, and finds the session at t.
LEMMA SoundLoads ==
  ASSUME NEW f, IsSeq(f), KindsOK(f), NEW t \in Nat, NEW s, SoundAt(f, s, t)
  PROVE  /\ LoadOK(f, s) /\ LastIndex(f) = t /\ TailOffset(f) = t
         /\ ReadCheckpoint(f) <=> f[SplitSignature(f)].kind = "tail"
<1>1. SplitSignature(f) \in Int /\ t \in Scanned(f) /\ ScanForLastIndex(f) = t
  BY SplitType, SeqFacts, ScanFinds
<1>2. t \in 1..Len(f) /\ t <= SplitSignature(f)
  BY DEF SoundAt, Chained
<1>3. ASSUME f[SplitSignature(f)].kind = "tail"
      PROVE  ReadCheckpoint(f) /\ f[SplitSignature(f)].last = t /\ SplitSignature(f) = t + 1
  BY <1>1, <1>2, <1>3 DEF SoundAt, TailOf, ReadCheckpoint
<1>4. ReadCheckpoint(f) <=> f[SplitSignature(f)].kind = "tail"
  BY <1>3 DEF ReadCheckpoint
<1>5. LastIndex(f) = t /\ TailOffset(f) = t
  BY <1>1, <1>3, <1>4 DEF LastIndex, TailOffset
<1>6. ReadIndexChain(f, t) /\ f[t].kind = "index" /\ f[t].session >= s
  BY ChainReads DEF SoundAt, Chained
<1> QED
  BY <1>1, <1>4, <1>5, <1>6 DEF LoadOK

----------------------------------------------------------------------------
(* Writing *)

\* Sessions up to t do not depend on what follows them.
LEMMA ChainedKept ==
  ASSUME NEW f, NEW g, NEW t \in Nat, Chained(f, t), t <= Len(g), Len(g) \in Nat,
         \A i \in 1..t : g[i] = f[i]
  PROVE  Chained(g, t) /\ g[t] = f[t]
<1>1. t \in 1..Len(g) /\ t \in 1..t
  BY DEF Chained
<1>2. ASSUME NEW i \in 1..t PROVE IsEntry(g[i]) /\ (g[i].kind = "index" => Linked(g, i))
  <2>1. g[i] = f[i] /\ IsEntry(f[i]) /\ (f[i].kind = "index" => Linked(f, i))
    BY DEF Chained
  <2>2. ASSUME Linked(f, i) PROVE Linked(g, i)
    <3>1. f[i].prev \in 1..(i - 1) => g[f[i].prev] = f[f[i].prev]
      OBVIOUS
    <3>2. \A q \in 1..(i - 1) : g[q] = f[q]
      OBVIOUS
    <3> QED
      BY <2>1, <2>2, <3>1, <3>2 DEF Linked
  <2> QED
    BY <2>1, <2>2
<1> QED
  BY <1>1, <1>2 DEF Chained

LEMMA PutKeepsChain ==
  ASSUME NEW f, IsSeq(f), NEW t \in Nat, Chained(f, t), NEW p \in (t + 1)..(Len(f) + 1), NEW c
  PROVE  /\ Chained(Put(f, p, c), t) /\ Put(f, p, c)[t] = f[t]
         /\ \A i \in 1..t : Put(f, p, c)[i] = f[i]
<1>1. Len(f) \in Nat /\ t \in 1..Len(f) /\ p \in 1..(Len(f) + 1)
  BY SeqFacts DEF Chained
<1> DEFINE g == Put(f, p, c)
<1>2. /\ Len(g) \in Nat /\ Len(g) >= Len(f)
      /\ \A i \in 1..Len(g) : i # p => g[i] = f[i]
  BY <1>1, PutFacts
<1> HIDE DEF g
<1>3. \A i \in 1..t : g[i] = f[i]
  BY <1>1, <1>2
<1> QED
  BY <1>1, <1>2, <1>3, ChainedKept DEF g

\* A write behind the tail keeps the session before it readable, if the cell
\* may stand at the end of the file whenever it comes to stand there.
LEMMA PutAfterTail ==
  ASSUME NEW f, IsSeq(f), NEW t \in Nat, Tailed(f, t), NEW p \in (t + 2)..(Len(f) + 1), NEW c,
         p >= Len(f) => c.kind # "tail" /\ (IsTrailer(c) => c.of = p - t - 1)
  PROVE  Tailed(Put(f, p, c), t) /\ Put(f, p, c)[t] = f[t]
<1> DEFINE g == Put(f, p, c)
<1>1. Len(f) \in Nat /\ Len(f) > t /\ Chained(f, t) /\ TailOf(f[t + 1], t) /\ EndFits(f, t)
  BY SeqFacts DEF Tailed
<1>2. /\ Len(g) = (IF p > Len(f) THEN p ELSE Len(f)) /\ g[p] = c
      /\ \A i \in 1..Len(g) : i # p => g[i] = f[i]
  BY <1>1, PutFacts
<1>3. Chained(g, t) /\ g[t] = f[t]
  BY <1>1, PutKeepsChain
<1> HIDE DEF g
<1>4. Len(g) > t /\ g[t + 1] = f[t + 1]
  BY <1>1, <1>2
<1>5. EndFits(g, t)
  <2>1. CASE p >= Len(f)
    <3>1. Len(g) = p /\ g[Len(g)] = c
      BY <1>1, <1>2, <2>1
    <3> QED
      BY <2>1, <3>1 DEF EndFits
  <2>2. CASE p < Len(f)
    <3>1. Len(g) = Len(f) /\ g[Len(g)] = f[Len(f)]
      BY <1>1, <1>2, <2>2
    <3> QED
      BY <1>1, <3>1 DEF EndFits
  <2> QED
    BY <1>1, <2>1, <2>2
<1> QED
  BY <1>1, <1>3, <1>4, <1>5 DEF Tailed, g

\* A tail, or a part of one, written right behind the newest session.
LEMMA PutBehind ==
  ASSUME NEW f, IsSeq(f), KindsOK(f), NEW t \in Nat, NEW s, SoundAt(f, s, t), NEW c,
         c.kind = "junk" \/ TailOf(c, t)
  PROVE  SoundAt(Put(f, t + 1, c), s, t)
<1> DEFINE g == Put(f, t + 1, c)
<1>1. Len(f) \in Nat /\ t \in 1..Len(f) /\ Chained(f, t)
  BY SeqFacts DEF SoundAt, Chained
<1>2. /\ IsSeq(g) /\ Len(g) = (IF t + 1 > Len(f) THEN t + 1 ELSE Len(f)) /\ g[t + 1] = c
      /\ \A i \in 1..Len(g) : i # t + 1 => g[i] = f[i]
  BY <1>1, PutFacts
<1>3. Chained(g, t) /\ g[t].session >= s
  BY <1>1, PutKeepsChain DEF SoundAt
<1> HIDE DEF g
<1>4. ~IsEntry(c) /\ ~IsTrailer(c)
  BY DEF IsEntry, IsTrailer, TailOf
<1>5. CASE Len(f) <= t + 1
  <2>1. Len(g) = t + 1 /\ g[Len(g)] = c
    BY <1>1, <1>2, <1>5
  <2>2. EndFits(g, t)
    BY <1>4, <2>1 DEF EndFits
  <2>3. g[t + 1].kind = "tail" => TailOf(g[t + 1], t)
    BY <1>2 DEF TailOf
  <2> QED
    BY <1>2, <1>3, <1>4, <2>1, <2>2, <2>3, BreakSound DEF g
<1>6. CASE Len(f) > t + 1
  <2>1. Len(g) = Len(f) /\ g[Len(g)] = f[Len(f)]
    BY <1>1, <1>2, <1>6
  <2>2. f # <<>> /\ g # <<>>
    BY <1>1, <1>2, <2>1, SeqFacts
  <2>3. SplitSignature(g) = SplitSignature(f)
    BY <2>1, <2>2 DEF SplitSignature
  <2>4. \A i \in (t + 1)..SplitSignature(g) :
          g[i].kind = "index" => \E j \in (t + 1)..i : ~IsEntry(g[j])
    BY <1>2, <1>4
  <2>5. ASSUME g[SplitSignature(g)].kind = "tail"
        PROVE  SplitSignature(g) = t + 1 /\ TailOf(g[t + 1], t)
    <3>1. CASE SplitSignature(g) = t + 1
      BY <1>2, <2>5, <3>1 DEF TailOf
    <3>2. CASE SplitSignature(g) # t + 1
      <4>1. SplitSignature(f) \in 1..Len(f)
        BY <1>1, SplitType DEF SoundAt
      <4>2. g[SplitSignature(g)] = f[SplitSignature(f)]
        BY <1>1, <1>2, <2>1, <2>3, <3>2, <4>1
      <4> QED
        BY <2>3, <2>5, <3>2, <4>2 DEF SoundAt
    <3> QED
      BY <3>1, <3>2
  <2> QED
    BY <1>3, <2>3, <2>4, <2>5 DEF SoundAt, g
<1> QED
  BY <1>1, <1>5, <1>6

\* A new session written as far as its index is linked to the sessions before.
LEMMA NewChained ==
  ASSUME NEW f, IsSeq(f), ia.tail \in Nat, ia.sessions \in Nat, Chained(f, ia.tail),
         f[ia.tail].session = ia.sessions, NEW e \in Nat, e > ia.tail, e <= Len(f),
         \A q \in (ia.tail + 1)..e : NewCell(f[q], q, e)
  PROVE  Chained(f, e) /\ f[e].session = ia.sessions + 1
<1> DEFINE t == ia.tail
<1>1. Len(f) \in Nat /\ t \in 1..Len(f) /\ e \in 1..Len(f)
  BY SeqFacts DEF Chained
<1>2. f[e] = Index(run.n, ia.sessions + 1, t, (t + 1)..(e - 1))
  BY <1>1 DEF NewCell
<1>3. f[e].kind = "index" /\ f[e].session = ia.sessions + 1 /\ f[e].prev = t
      /\ f[e].packs = (t + 1)..(e - 1) /\ f[e].run = run.n
  BY <1>2 DEF Index
<1>4. \A q \in (t + 1)..(e - 1) : f[q] = Pack(run.n)
  BY <1>1 DEF NewCell
<1>5. ia.sessions \in Nat \ {0} /\ f[t].kind = "index"
  BY <1>1 DEF Chained, Linked
<1>6. Linked(f, e)
  BY <1>1, <1>3, <1>4, <1>5, SMTT(30) DEF Linked
<1>7. ASSUME NEW i \in 1..e PROVE IsEntry(f[i]) /\ (f[i].kind = "index" => Linked(f, i))
  <2>1. CASE i \in 1..t
    BY <2>1 DEF Chained
  <2>2. CASE i \in (t + 1)..(e - 1)
    BY <1>4, <2>2 DEF Pack, IsEntry
  <2>3. CASE i = e
    BY <1>3, <1>6, <2>3 DEF IsEntry
  <2> QED
    BY <1>1, <2>1, <2>2, <2>3
<1> QED
  BY <1>1, <1>3, <1>7 DEF Chained

\* Reading a file in which a new session was written up to position a: it finds
\* the old session or, once its index is there, the new one.
LEMMA WritingSound ==
  ASSUME NEW f, IsSeq(f), ia.tail \in Nat, ia.sessions \in Nat, Chained(f, ia.tail),
         f[ia.tail].session = ia.sessions, NEW s \in Nat, ia.sessions >= s,
         NEW e \in Nat, e > ia.tail, NEW a \in (ia.tail + 1)..(e + 2), Len(f) >= a - 1,
         \A q \in (ia.tail + 1)..(a - 1) : NewCell(f[q], q, e),
         \/ Len(f) = a - 1 /\ a > ia.tail + 1
         \/ Len(f) = a /\ f[a].kind = "junk" /\ a <= e + 1
         \/ /\ Len(f) >= a /\ IsTrailer(f[Len(f)]) /\ f[Len(f)].of = Len(f) - ia.tail - 1
            /\ a > ia.tail + 1 \/ f[a].kind = "junk"
  PROVE  Sound(f, s)
<1> DEFINE t == ia.tail
<1>1. Len(f) \in Nat /\ t \in 1..Len(f) /\ f # <<>>
  BY SeqFacts DEF Chained
<1>2. /\ \A q \in (t + 1)..(a - 1) : q < e => f[q].kind = "pack"
      /\ e <= a - 1 => f[e].kind = "index"
      /\ e + 1 <= a - 1 => TailOf(f[e + 1], e)
  <2>1. ASSUME NEW q \in (t + 1)..(a - 1), q < e PROVE f[q].kind = "pack"
    BY <1>1, <2>1, SMTT(30) DEF NewCell, Pack
  <2>2. ASSUME e <= a - 1 PROVE f[e].kind = "index"
    <3>1. e \in (t + 1)..(a - 1)
      BY <2>2
    <3> QED
      BY <3>1, SMTT(30) DEF NewCell, Index
  <2>3. ASSUME e + 1 <= a - 1 PROVE TailOf(f[e + 1], e)
    <3>1. e + 1 \in (t + 1)..(a - 1)
      BY <2>3
    <3> QED
      BY <3>1 DEF NewCell
  <2> QED
    BY <2>1, <2>2, <2>3, SMTT(30)
<1>3. ASSUME e <= a - 1
      PROVE  Chained(f, e) /\ f[e].session >= s /\ e \in 1..Len(f)
  <2>1. e <= Len(f) /\ \A q \in (ia.tail + 1)..e : NewCell(f[q], q, e)
    BY <1>1, <1>3
  <2>2. Chained(f, e) /\ f[e].session = ia.sessions + 1
    BY <1>1, <2>1, NewChained
  <2> QED
    BY <1>1, <1>3, <2>1, <2>2
<1>4. CASE Len(f) = a - 1 /\ a > t + 1
  <2>1. ~IsTrailer(f[Len(f)])
    BY <1>1, <1>2, <1>4 DEF IsTrailer, TailOf
  <2>2. SplitSignature(f) = a - 1
    BY <1>4, <2>1 DEF SplitSignature
  <2>3. CASE a - 1 < e
    <3>1. SoundAt(f, s, t)
      BY <1>1, <1>2, <1>4, <2>2, <2>3, SMTT(30) DEF SoundAt
    <3> QED
      BY <1>1, <3>1 DEF Sound
  <2>4. CASE a - 1 >= e
    <3>1. SoundAt(f, s, e)
      BY <1>1, <1>2, <1>3, <1>4, <2>2, <2>4 DEF SoundAt, TailOf
    <3> QED
      BY <1>1, <1>3, <2>4, <3>1 DEF Sound
  <2> QED
    BY <2>3, <2>4
<1>5. CASE Len(f) = a /\ f[a].kind = "junk" /\ a <= e + 1
  <2>1. SplitSignature(f) = a
    BY <1>5 DEF SplitSignature, IsTrailer
  <2>2. CASE a - 1 < e
    <3>1. SoundAt(f, s, t)
      BY <1>1, <1>2, <1>5, <2>1, <2>2, SMTT(60) DEF SoundAt
    <3> QED
      BY <1>1, <3>1 DEF Sound
  <2>3. CASE a - 1 >= e
    <3>1. SoundAt(f, s, e)
      BY <1>1, <1>3, <1>5, <2>1, <2>3 DEF SoundAt
    <3> QED
      BY <1>3, <2>3, <3>1 DEF Sound
  <2> QED
    BY <2>2, <2>3
<1>6. CASE /\ Len(f) >= a /\ IsTrailer(f[Len(f)]) /\ f[Len(f)].of = Len(f) - t - 1
           /\ a > t + 1 \/ f[a].kind = "junk"
  <2>1. SplitSignature(f) = t + 1
    BY <1>1, <1>6 DEF SplitSignature
  <2>2. CASE a = t + 1
    <3>1. SoundAt(f, s, t)
      <4>1. f[t + 1].kind = "junk" /\ t <= t + 1
        BY <1>1, <1>6, <2>2, SMTT(30)
      <4>2. \A i \in (t + 1)..(t + 1) : f[i].kind # "index"
        BY <1>1, <4>1
      <4> QED
        BY <2>1, <4>1, <4>2, SMTT(30) DEF SoundAt
    <3> QED
      BY <1>1, <3>1 DEF Sound
  <2>3. CASE a > t + 1 /\ e > t + 1
    <3>1. SoundAt(f, s, t)
      BY <1>1, <1>2, <1>6, <2>1, <2>3, SMTT(30) DEF SoundAt
    <3> QED
      BY <1>1, <3>1 DEF Sound
  <2>4. CASE a > t + 1 /\ e = t + 1
    <3>1. SoundAt(f, s, e)
      <4>1. f[e].kind = "index" /\ Chained(f, e) /\ f[e].session >= s /\ e <= SplitSignature(f)
        BY <1>1, <1>2, <1>3, <2>1, <2>4
      <4>2. (e + 1)..SplitSignature(f) = {} /\ f[SplitSignature(f)].kind # "tail"
        BY <2>1, <2>4, <4>1
      <4> QED
        BY <4>1, <4>2, Zenon DEF SoundAt
    <3> QED
      BY <1>3, <2>4, <3>1 DEF Sound
  <2> QED
    BY <2>2, <2>3, <2>4
<1> QED
  BY <1>4, <1>5, <1>6
=============================================================================
