---------------------------- MODULE ArchiveStream ----------------------------
(***************************************************************************)
(* What both archivers share: the inputs of a run, the ArchiveWriter       *)
(* (archive/writer.go) with its buffered output, the directory that is     *)
(* collected beside it (io/directory.go), solid groups (io/solid.go) and   *)
(* the two ways of listing the result.                                     *)
(*                                                                         *)
(* An operation on the archive is the set of its outcomes [ar, err]: the   *)
(* archive it leaves, and "none", "recoverable", "fatal" or, for a call    *)
(* that never returns, "stuck".                                            *)
(***************************************************************************)
EXTENDS Naturals, Sequences, FiniteSets, SequencesExt

CONSTANTS
  SolidMemberMaxSize,     \* the largest file that joins a solid group
  MaxSolidStreamSize,     \* the largest record stream of a group
  InlineStreamThreshold,  \* the smallest file that is never held in memory, and the
                          \* smallest that workers encrypt (minParallelFileSize)
  OverflowSize,           \* the smallest file with more blocks than the channel of
                          \* encryptAndStream takes after a failed write
  MaxDirectorySize        \* the records a directory may hold

StreamAssumption ==
  /\ {SolidMemberMaxSize, MaxSolidStreamSize, InlineStreamThreshold, OverflowSize}
       \subseteq Nat \ {0}
  /\ SolidMemberMaxSize <= MaxSolidStreamSize /\ SolidMemberMaxSize < InlineStreamThreshold
  /\ MaxDirectorySize \in Nat

VARIABLES
  inputs,   \* what the arguments expand to, in order: records [arg, special, size, ext]
  solid,    \* solid mode
  archive,  \* the archive being written, see NewArchive
  ret       \* what writing it returned: "none", "ok", "err"

\* splitSpecial: the regular files, and the directories and links.
Files == {f \in DOMAIN inputs : ~inputs[f].special}
Specials == DOMAIN inputs \ Files

Ascending(S) == SetToSortSeq(S, <)

----------------------------------------------------------------------------
(* The archive writer *)

\* An entry that holds the given inputs, of the given plaintext size.
Entry(type, holds, size) == [type |-> type, holds |-> holds, size |-> size, whole |-> TRUE]

Header == Entry("header", <<>>, 0)
End == Entry("end", <<>>, 0)

\* stream holds what has been written, an item's offset being its place; broken:
\* a write has failed, and the buffered writer fails every later one;
\* reported: the inputs whose failure was reported.
NewArchive ==
  [stream |-> <<Header>>, broken |-> FALSE,
   dir |-> [recs |-> <<>>, full |-> FALSE], reported |-> {}]

Outcome(ar, err) == [ar |-> ar, err |-> err]

Report(ar, fs) == [ar EXCEPT !.reported = @ \union fs]

\* The bytes of e are cut short.
Cut(ar, e) == [ar EXCEPT !.stream = Append(@, [e EXCEPT !.whole = FALSE])]

WriteFileEntry(ar, e) ==
  IF ar.broken THEN {Outcome(ar, "fatal")}
  ELSE {Outcome([ar EXCEPT !.stream = Append(@, e)], "none"),
        Outcome([Cut(ar, e) EXCEPT !.broken = TRUE], "fatal")}

----------------------------------------------------------------------------
(* The directory *)

\* A mutant: records collected before the directory was full are kept.
AddRecord_KeepsCollecting(dir, r) ==
  IF Len(dir.recs) = MaxDirectorySize THEN dir
  ELSE [dir EXCEPT !.recs = Append(@, r)]

\* directoryBuilder.add: once it would grow too large there is no directory.
AddRecord(dir, r) ==
  IF dir.full THEN dir
  ELSE IF Len(dir.recs) = MaxDirectorySize THEN [recs |-> <<>>, full |-> TRUE]
  ELSE [dir EXCEPT !.recs = Append(@, r)]

\* addEntry and addSolid: a record for everything the last entry holds.
AddEntry(ar) ==
  LET e == Last(ar.stream)
      AddMember(dir, f) == AddRecord(dir, [offset |-> Len(ar.stream), name |-> f])
  IN  [ar EXCEPT !.dir = FoldLeft(AddMember, @, e.holds)]

\* The entry is written, then recorded; a record that cannot be encoded is fatal.
WriteAndRecord(ar, e) ==
  UNION {IF o.err = "none" THEN {Outcome(AddEntry(o.ar), "none"), Outcome(o.ar, "fatal")}
                           ELSE {o} : o \in WriteFileEntry(ar, e)}

\* sealPayloadEntry and its like fail: nothing has been written.
SealFails(ar) == {Outcome(ar, "fatal")}

\* writeSpecialEntries, for one directory or link.
WriteSpecialEntry(ar, f) ==
  SealFails(ar) \union WriteAndRecord(ar, Entry("special", <<f>>, 0))

\* What finishArchive writes: the directory, its locator and the end.
Closing(ar) ==
  (IF ar.dir.full THEN <<>>
   ELSE <<Entry("directory", ar.dir.recs, 0), Entry("locator", <<Len(ar.stream) + 1>>, 0)>>)
  \o <<End>>

\* A mutant: an earlier failure of the buffered writer goes unnoticed.
Finish_Unchecked(ar) ==
  {Outcome([ar EXCEPT !.stream = @ \o Closing(ar)], "none")}

\* finishArchive, which may fail after any part of it and, to sign, after all.
Finish(ar) ==
  IF ar.broken THEN {Outcome(ar, "fatal")}
  ELSE {Outcome([ar EXCEPT !.stream = @ \o t], "fatal") : t \in Prefixes(Closing(ar))}
       \union {Outcome([ar EXCEPT !.stream = @ \o Closing(ar)], "none")}

----------------------------------------------------------------------------
(* One file, or a solid group *)

\* The file goes through encryptAndStream, which does not return when a write fails
\* with more blocks to come than its channel takes (EncryptPipeline).
MayStick(f, workers) ==
  /\ workers = 1 \/ inputs[f].size < InlineStreamThreshold
  /\ inputs[f].size >= OverflowSize

\* addFileStreaming and the directory record.  Opening or probing the file fails
\* before anything is written, as does preparing its keys; once the entry has
\* begun, a failing read or write leaves it cut short, and may leave the call
\* waiting for ever.
AddStreamed(ar, f, workers) ==
  LET e == Entry("file", <<f>>, inputs[f].size)
  IN  {Outcome(ar, "recoverable"), Outcome(ar, "fatal")}
      \union (IF ar.broken THEN {} ELSE {Outcome(Cut(ar, e), "fatal")})
      \union (IF ar.broken \/ ~MayStick(f, workers) THEN {}
              ELSE {Outcome([Cut(ar, e) EXCEPT !.broken = TRUE], "stuck")})
      \union WriteAndRecord(ar, e)

\* solidCandidate
Candidate(f) == inputs[f].size <= SolidMemberMaxSize

\* The size a member turns out to have when it is read, after it was planned: it
\* cannot be read (0), is as it was, or has grown.
SizesRead(f) == {0, inputs[f].size, inputs[f].size + 1}

\* AppendSolidRecord: file f, of the given size, joins the group.
AppendSolidRecord(s, f, size) == [s EXCEPT !.holds = Append(@, f), !.size = @ + size]

\* A mutant: a member is taken at the size it was planned with.
AppendSolidMember_Planned(s, f, read) ==
  IF read[f] = 0 \/ inputs[f].size > SolidMemberMaxSize \/ s.size + inputs[f].size > MaxSolidStreamSize
  THEN s ELSE AppendSolidRecord(s, f, read[f])

\* appendSolidMember
AppendSolidMember(s, f, read) ==
  IF read[f] = 0 \/ read[f] > SolidMemberMaxSize \/ s.size + read[f] > MaxSolidStreamSize
  THEN s ELSE AppendSolidRecord(s, f, read[f])

\* buildSolidEntry: the entries the members may give, and which of them failed.
SolidEntries(members) ==
  {FoldLeft(LAMBDA s, f : AppendSolidMember(s, f, read), Entry("solid", <<>>, 0), members) :
     read \in {g \in [ToSet(members) -> 0..(SolidMemberMaxSize + 1)] :
                 \A f \in ToSet(members) : g[f] \in SizesRead(f)}}

\* A group is written unless no member could be read; then failures are reported.
WriteSolid(ar, members, e) ==
  LET failed == ToSet(members) \ ToSet(e.holds)
  IN  {[o EXCEPT !.ar = IF o.err = "none" THEN Report(@, failed) ELSE @] :
         o \in IF e.holds = <<>> THEN {Outcome(ar, "none")} ELSE WriteAndRecord(ar, e)}

----------------------------------------------------------------------------
(* Planning the jobs of the concurrent archiver *)

\* The current group of a plan is closed; a group of one is stored by itself.
Flush(p) ==
  [p EXCEPT !.individual = IF Len(p.group) = 1 THEN @ \o p.group ELSE @,
            !.groups = IF Len(p.group) > 1 THEN Append(@, p.group) ELSE @,
            !.group = <<>>, !.size = 0]

PlanMember(p, f) ==
  LET q == IF p.size + inputs[f].size > MaxSolidStreamSize THEN Flush(p) ELSE p
  IN  [q EXCEPT !.group = Append(@, f), !.size = @ + inputs[f].size]

\* planSolid: candidates are grouped in the order of their extensions.
PlanSolid ==
  LET byExt == SetToSortSeq({f \in Files : Candidate(f)},
                 LAMBDA f, g : \/ inputs[f].ext < inputs[g].ext
                               \/ inputs[f].ext = inputs[g].ext /\ f < g)
      none == [individual |-> Ascending({f \in Files : ~Candidate(f)}),
               groups |-> <<>>, group |-> <<>>, size |-> 0]
  IN  Flush(FoldLeft(PlanMember, none, byExt))

\* planJobs: individual files, then groups; a run of one file streams it.
PlanJobs ==
  LET plan == IF solid THEN PlanSolid ELSE [individual |-> Ascending(Files), groups |-> <<>>]
      Job(f) == [members |-> <<f>>, group |-> FALSE,
                 inline |-> Cardinality(Files) = 1 \/ inputs[f].size >= InlineStreamThreshold]
  IN  [i \in DOMAIN plan.individual |-> Job(plan.individual[i])]
      \o [i \in DOMAIN plan.groups |->
            [members |-> plan.groups[i], group |-> TRUE, inline |-> FALSE]]

----------------------------------------------------------------------------
(* Listing the archive *)

NoListing == <<0>>

EntriesOf(s) == SelectSeq(s, LAMBDA e : e.type \in {"file", "solid", "special"})

\* scanList: the names in the order of the entries, when the scan meets the end.
ScanList(s) ==
  IF Last(s).type # "end" \/ \E i \in DOMAIN s : ~s[i].whole THEN NoListing
  ELSE FlattenSeq([i \in DOMAIN EntriesOf(s) |-> EntriesOf(s)[i].holds])

\* readDirectory: found from the end of the archive.
HasDirectory(s) ==
  /\ Len(s) > 2 /\ s[Len(s)].type = "end" /\ s[Len(s) - 1].type = "locator"
  /\ s[s[Len(s) - 1].holds[1]].type = "directory"

\* ParseDirectory: the records at the place the locator gives.
ParseDirectory(s) == s[s[Len(s) - 1].holds[1]].holds

DirectoryListing(records) == [i \in DOMAIN records |-> records[i].name]

\* listRandom: by the directory, or by a scan.
ListRandom(s) ==
  IF HasDirectory(s) THEN DirectoryListing(ParseDirectory(s)) ELSE ScanList(s)
=============================================================================
