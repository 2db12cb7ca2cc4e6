-------------------------- MODULE IncrementalBackup --------------------------
(***************************************************************************)
(* What incremental sessions record and what a restore brings back:        *)
(* expandInputs and diffInputs find what changed, addFile cuts files into  *)
(* chunks and stores those the archive does not hold, apply rebuilds the   *)
(* state from the sessions, and extractIncremental routes the chunks of    *)
(* the packs to the files.  The inputs may change at any moment.  How a    *)
(* session reaches the file is IncrementalStore's subject: here it is      *)
(* committed whole or not at all, though an error may be returned for one  *)
(* that was.                                                               *)
(***************************************************************************)
EXTENDS Naturals, Sequences, SequencesExt, FiniteSets, FiniteSetsExt, TLC

CONSTANTS
  NumNames,             \* the names under which inputs are stored are 1..NumNames
  Inner,                \* those inside a subdirectory of the input
  Contents,             \* what a file may contain: sequences of bytes
  MinChunk, MaxChunk,   \* MinCDCChunkSize, MaxCDCChunkSize
  MaxPack,              \* MaxPackSize
  MaxEdits, MaxRuns,    \* bounds on the changes to the inputs and on the runs
  Faults                \* subset of {"read", "write", "output", "damage"}

BackupAssumption ==
  /\ {NumNames, MinChunk, MaxEdits, MaxRuns} \subseteq Nat
  /\ MaxChunk \in Nat /\ MinChunk < MaxChunk /\ MaxChunk <= MaxPack
  /\ Inner \subseteq 1..NumNames
  /\ Faults \subseteq {"read", "write", "output", "damage"}

Names == 1..NumNames
Absent == [kind |-> "none", stamp |-> 0, ino |-> 0, data |-> <<>>]
NoVersion == [kind |-> "none", stamp |-> 0, target |-> 0, size |-> 0, chunks |-> <<>>]

VARIABLES
  disk,      \* the inputs: kind, modification time, inode and data of each name
  clock,     \* the changes made to them so far: stamps and inodes are drawn from it
  ia,        \* the archive: the state its sessions make up, applied in order
  packs,     \* the plaintext of the packs, in archive order
  pc,        \* "idle", "diff", "next", "read", "ended"; "pack", "restored", "failed"
  runs,      \* runs started
  walked,    \* the attributes expandInputs recorded, NoVersion for a name not found
  kept,      \* names it could not read
  failed,    \* files that could not be read later in the run
  todo,      \* changed entries still to be recorded
  deleted,   \* names to record as deleted
  cur,       \* the file being added: its name, the open file, the bytes read from it,
             \* those the chunker still holds, its version so far
  draft,     \* the session being written: its index and the data of its packs
  outcome,   \* what the last run returned: "none", "ok", "err"
  touched,   \* names changed since the inputs were walked
  before,    \* when the run started: the sessions, what a restore would have given,
             \* and the names that were not links
  rf,        \* the restoreFile of each name
  pack, idx, pos,  \* the pack being read, chunks delivered from it, bytes passed
  out,       \* what the restore leaves in the output directory
  result,    \* the results reported: "none", "ok", "err"
  hurt, unwritable  \* packs found damaged, names that could not be written

inputs == <<disk, clock, touched>>
session == <<ia, packs, runs, walked, kept, failed, todo, deleted, cur, draft, outcome, before>>
restore == <<rf, pack, idx, pos, out, result, hurt, unwritable>>
vars == <<inputs, session, restore, pc>>

----------------------------------------------------------------------------
(* The state of an archive: its sessions applied in order *)

NewArchive == [sessions |-> 0, chunks |-> <<>>, files |-> [n \in Names |-> NoVersion], ok |-> TRUE]

\* A chunk record lies in a listed pack, within MaxPack.
ChunkParses(c, numPacks) ==
  c.pack \in 1..numPacks /\ c.raw \in 1..MaxChunk /\ c.offset + c.raw <= MaxPack

\* A file uses chunks numbered so far, any other entry none.
FileParses(v, chunkLimit) ==
  Range(v.chunks) \subseteq 1..chunkLimit /\ (v.kind # "file" => v.chunks = <<>>)

\* ParseSessionIndex
Parses(si) ==
  /\ \A c \in Range(si.chunks) : ChunkParses(c, Len(si.packs))
  /\ \A n \in DOMAIN si.files : FileParses(si.files[n], si.first + Len(si.chunks))

RawSize(chunks, refs) == FoldLeft(LAMBDA sum, c : sum + chunks[c].raw, 0, refs)

\* apply: chunk numbers continue, packs are the archive's, sizes add up.
Apply(si) ==
  LET chunks == ia.chunks \o
                  [i \in DOMAIN si.chunks |-> [si.chunks[i] EXCEPT !.pack = si.packs[@]]]
  IN [sessions |-> ia.sessions + 1,
      chunks   |-> chunks,
      files    |-> [n \in Names |->
                      CASE n \in si.deleted -> NoVersion
                        [] n \in DOMAIN si.files \ si.deleted -> si.files[n]
                        [] OTHER -> ia.files[n]],
      ok       |-> /\ ia.ok /\ Parses(si)
                   /\ si.first = Len(ia.chunks)
                   /\ \A n \in DOMAIN si.files :
                        RawSize(chunks, si.files[n].chunks) = si.files[n].size]

\* The bytes of a chunk, as its pack holds them.
ChunkData(c) == SubSeq(packs[c.pack], c.offset + 1, c.offset + c.raw)

FileData(v) == FlattenSeq([i \in DOMAIN v.chunks |-> ChunkData(ia.chunks[v.chunks[i]])])

Nothing == [kind |-> "none", data |-> <<>>]
Directory == [kind |-> "dir", data |-> <<>>]
Older == [kind |-> "old", data |-> <<>>]   \* a file that stood there before the restore

\* What a hard link gives: whatever was at its name is removed, and it becomes
\* another name of the file that stands under its target's.  Links are made in name
\* order, and a link names an earlier name.
LinkAll(files, made) ==
  LET with[n \in Names] ==
        IF files[n].kind # "link" THEN made[n]
        ELSE IF with[files[n].target].kind \in {"file", "old"} THEN with[files[n].target]
        ELSE Nothing
  IN with

\* What a restore without faults gives.
Restorable ==
  LinkAll(ia.files, [n \in Names |->
       CASE ia.files[n].kind = "file" -> [kind |-> "file", data |-> FileData(ia.files[n])]
         [] ia.files[n].kind = "dir" -> Directory
         [] OTHER -> Nothing])

----------------------------------------------------------------------------
(* The inputs: files come, change, are linked and go while nobody looks *)

Fresh == clock + NumNames + 1   \* a modification time or an inode not used before

Touch(S) ==
  /\ pc \notin {"pack", "restored", "failed"}
  /\ clock < MaxEdits
  /\ clock' = clock + 1
  /\ touched' = touched \union S
  /\ UNCHANGED <<session, restore, pc>>

\* A new file takes the name; one already open keeps its data.
Replace(n, d) ==
  /\ disk' = [disk EXCEPT ![n] = [kind |-> "file", stamp |-> Fresh, ino |-> Fresh, data |-> d]]
  /\ Touch({n})

MakeDir(n) ==
  /\ disk[n].kind # "dir"
  /\ disk' = [disk EXCEPT ![n] = [kind |-> "dir", stamp |-> Fresh, ino |-> Fresh, data |-> <<>>]]
  /\ Touch({n})

Delete(n) ==
  /\ disk[n] # Absent
  /\ disk' = [disk EXCEPT ![n] = Absent]
  /\ Touch({n})

\* n becomes a second name of the file m; its modification time stays.
Link(n, m) ==
  /\ disk[m].kind = "file" /\ disk[n].ino # disk[m].ino
  /\ disk' = [disk EXCEPT ![n] = disk[m]]
  /\ Touch({n, m})

\* Written in place: every name of the file changes, and so does what an open
\* file still has to read.
Overwrite(n, d) ==
  LET same == {m \in Names : disk[m].ino = disk[n].ino}
  IN /\ disk[n].kind = "file"
     /\ disk' = [m \in Names |-> IF m \in same
                   THEN [disk[m] EXCEPT !.stamp = Fresh, !.data = d] ELSE disk[m]]
     /\ pc \notin {"pack", "restored", "failed"}
     /\ clock < MaxEdits
     /\ clock' = clock + 1
     /\ touched' = touched \union same
     /\ cur' = IF cur.ino = disk[n].ino THEN [cur EXCEPT !.fd = d] ELSE cur
     /\ UNCHANGED <<ia, packs, runs, walked, kept, failed, todo, deleted, draft, outcome, before,
                    restore, pc>>

Edit ==
  \E n \in Names :
    \/ \E d \in Contents : Replace(n, d) \/ Overwrite(n, d)
    \/ MakeDir(n)
    \/ Delete(n)
    \/ \E m \in Names \ {n} : Link(n, m)

----------------------------------------------------------------------------
(* A run: walk, compare, record *)

\* Bounds on the faults: one read failure per run, one damaged pack and one
\* output failure per restore.
MayFailRead == "read" \in Faults /\ kept \union failed = {}
MayFailOutput(S) == {{}} \union (IF "output" \in Faults /\ unwritable = {} THEN {{n} : n \in S} ELSE {})

NoFile == [name |-> 0, ino |-> 0, fd |-> <<>>, read |-> 0, buf |-> <<>>, version |-> NoVersion]
NewSession == [packs |-> <<>>, chunks |-> <<>>, files |-> <<>>]

\* add: the first name of a file stands for it, its other names are links to that one.
Attributes(found, n) ==
  LET first == Min({m \in found : disk[m].ino = disk[n].ino})
  IN IF n \notin found
       THEN NoVersion
       ELSE [NoVersion EXCEPT !.kind = IF first = n THEN disk[n].kind ELSE "link",
                              !.stamp = disk[n].stamp,
                              !.target = IF first = n THEN 0 ELSE first]

\* expandInputs: an entry that cannot be examined is skipped, and so is, unseen,
\* everything in a directory that cannot be read.
ExpandInputs(unreadable) ==
  LET found == {n \in Names \ unreadable : disk[n] # Absent}
  IN walked' = [n \in Names |-> Attributes(found, n)]

Unreadable ==
  {{}} \union (IF "read" \in Faults THEN {Inner} \union {{n} : n \in {m \in Names : disk[m] # Absent}} ELSE {})

\* ArchiveIncremental: the run starts; an input argument that cannot be read fails it.
StartRun ==
  /\ pc \in {"idle", "ended"} /\ runs < MaxRuns /\ ia.ok
  /\ runs' = runs + 1
  /\ before' = [sessions |-> ia.sessions, gives |-> Restorable,
                own |-> {n \in Names : ia.files[n].kind # "link"}]
  /\ touched' = {}
  /\ failed' = {} /\ todo' = {} /\ deleted' = {} /\ cur' = NoFile /\ draft' = NewSession
  /\ \/ /\ kept' \in Unreadable
        /\ ExpandInputs(kept')
        /\ outcome' = "none" /\ pc' = "diff"
     \/ /\ "read" \in Faults
        /\ kept' = Names /\ walked' = [n \in Names |-> NoVersion]
        /\ outcome' = "err" /\ pc' = "ended"
  /\ UNCHANGED <<disk, clock, ia, packs, restore>>

SameAttributes(v, a) == v.kind = a.kind /\ v.stamp = a.stamp /\ v.target = a.target

\* A mutant: names the walk could not reach are taken for deleted.
DiffInputs_Unprotected(bad) ==
  LET found == {n \in Names : walked[n].kind # "none"}
      same  == {n \in found \ bad :
                  /\ SameAttributes(ia.files[n], walked[n])
                  /\ walked[n].kind = "file" => ia.files[n].size = Len(disk[n].data)}
  IN /\ todo' = found \ (same \union bad)
     /\ failed' = bad
     /\ deleted' = {n \in Names \ found : ia.files[n].kind # "none"}

\* diffInputs, given the files os.Stat fails for: what is new or different, and
\* what is gone.  createIncremental records everything.
DiffInputs(bad) ==
  LET found == {n \in Names : walked[n].kind # "none"}
      same  == {n \in found \ bad :
                  /\ SameAttributes(ia.files[n], walked[n])
                  /\ walked[n].kind = "file" => ia.files[n].size = Len(disk[n].data)}
  IN /\ todo' = found \ (same \union bad)
     /\ failed' = bad
     /\ deleted' = {n \in Names \ (found \union kept) : ia.files[n].kind # "none"}

\* What a run that has come to its end returns.  An update may return an error
\* although its session is in the file: when the session count cannot be sealed or
\* the file not synced, or the signature not written.
Returned == {"ok"} \union (IF "write" \in Faults /\ ia.sessions > 0 THEN {"err"} ELSE {})

\* updateIncremental ends at once, signing if it has to, when nothing changed.
Diff ==
  /\ pc = "diff"
  /\ LET regular == {n \in Names : walked[n].kind = "file"}
         gone    == {n \in regular : disk[n] = Absent}
     IN \E bad \in {{}} \union (IF MayFailRead THEN {{n} : n \in regular} ELSE {}) :
          DiffInputs(bad \union gone)
  /\ IF ia.sessions > 0 /\ todo' \union failed' \union deleted' = {}
       THEN pc' = "ended" /\ outcome' \in Returned
       ELSE pc' = "next" /\ UNCHANGED outcome
  /\ UNCHANGED <<inputs, ia, packs, runs, walked, kept, cur, draft, before, restore>>

\* addFile opens the next file; directories and links are recorded as they are.
NextEntry ==
  /\ pc = "next" /\ todo # {}
  /\ LET n == Min(todo)
         v == [walked[n] EXCEPT !.size = 0]
     IN /\ todo' = todo \ {n}
        /\ \/ /\ v.kind # "file"
              /\ draft' = [draft EXCEPT !.files = (n :> v) @@ @]
              /\ UNCHANGED <<pc, cur, failed>>
           \/ /\ v.kind = "file" /\ disk[n].kind = "file"
              /\ cur' = [NoFile EXCEPT !.name = n, !.ino = disk[n].ino, !.fd = disk[n].data, !.version = v]
              /\ pc' = "read"
              /\ UNCHANGED <<draft, failed>>
           \/ /\ v.kind = "file" /\ (disk[n].kind # "file" \/ MayFailRead)
              /\ failed' = failed \union {n}
              /\ UNCHANGED <<pc, cur, draft>>
  /\ UNCHANGED <<inputs, ia, packs, runs, walked, kept, deleted, outcome, before, restore>>

\* cutPoint: at least MinChunk bytes are skipped, then the first boundary of the
\* content (here, after a byte 0) or MaxChunk ends the chunk.
CutPoint(data) ==
  IF Len(data) <= MinChunk
    THEN Len(data)
    ELSE LET cuts == {k \in (MinChunk + 1)..Min({Len(data), MaxChunk}) : data[k] = 0}
         IN IF cuts = {} THEN Min({Len(data), MaxChunk}) ELSE Min(cuts)

\* storeChunk: a full pack is closed and another begun; the chunk gets the next number.
StoreChunk(d, chunk) ==
  LET roll == d.packs = <<>> \/ Len(Last(d.packs)) + Len(chunk) > MaxPack
      ps   == IF roll THEN Append(d.packs, chunk) ELSE [d.packs EXCEPT ![Len(d.packs)] = @ \o chunk]
  IN [d EXCEPT !.packs = ps,
               !.chunks = Append(@, [id |-> chunk, pack |-> Len(ps),
                                     offset |-> Len(Last(ps)) - Len(chunk), raw |-> Len(chunk)])]

\* A mutant: only the chunks of earlier sessions are looked up.
Known_Earlier(chunk) == {i \in DOMAIN ia.chunks : ia.chunks[i].id = chunk}

\* The numbers under which the archive or this session holds a chunk.
Known(chunk) ==
  {i \in DOMAIN ia.chunks : ia.chunks[i].id = chunk}
    \union {Len(ia.chunks) + i : i \in {j \in DOMAIN draft.chunks : draft.chunks[j].id = chunk}}

\* One chunk of addFile.  The chunker reads ahead, so what it cuts may have been
\* read from the file at different times.
AddChunk ==
  LET ahead == cur.buf \o SubSeq(cur.fd, cur.read + 1, Min({Len(cur.fd), cur.read + MaxChunk - Len(cur.buf)}))
      chunk == SubSeq(ahead, 1, CutPoint(ahead))
      known == Known(chunk)
      n     == IF known = {} THEN Len(ia.chunks) + Len(draft.chunks) + 1 ELSE Max(known)
  IN /\ pc = "read" /\ ahead # <<>>
     /\ draft' = IF known = {} THEN StoreChunk(draft, chunk) ELSE draft
     /\ cur' = [cur EXCEPT !.read = @ + Len(ahead) - Len(cur.buf),
                           !.buf = SubSeq(ahead, Len(chunk) + 1, Len(ahead)),
                           !.version.size = @ + Len(chunk),
                           !.version.chunks = Append(@, n)]
     /\ UNCHANGED <<inputs, ia, packs, runs, walked, kept, failed, todo, deleted, outcome, before,
                    restore, pc>>

\* A mutant: the attributes are read once the content has been.
FinishFile_LateStat ==
  /\ pc = "read" /\ cur.buf = <<>> /\ cur.read >= Len(cur.fd)
  /\ draft' = [draft EXCEPT !.files = (cur.name :> [cur.version EXCEPT !.stamp = disk[cur.name].stamp]) @@ @]
  /\ pc' = "next" /\ cur' = NoFile
  /\ UNCHANGED <<inputs, ia, packs, runs, walked, kept, failed, todo, deleted, outcome, before, restore>>

\* The file has ended: its version, with the attributes of the walk, is recorded.
FinishFile ==
  /\ pc = "read" /\ cur.buf = <<>> /\ cur.read >= Len(cur.fd)
  /\ draft' = [draft EXCEPT !.files = (cur.name :> cur.version) @@ @]
  /\ pc' = "next" /\ cur' = NoFile
  /\ UNCHANGED <<inputs, ia, packs, runs, walked, kept, failed, todo, deleted, outcome, before, restore>>

\* A read fails: the file is left out of the session, its chunks stay in.
ReadFails ==
  /\ pc = "read" /\ MayFailRead
  /\ failed' = failed \union {cur.name}
  /\ pc' = "next" /\ cur' = NoFile
  /\ UNCHANGED <<inputs, ia, packs, runs, walked, kept, todo, deleted, draft, outcome, before, restore>>

\* A mutant: the first chunk number is taken after the session's chunks were added.
SessionIndex_LateFirst ==
  [first   |-> Len(ia.chunks) + Len(draft.chunks),
   packs   |-> [i \in DOMAIN draft.packs |-> Len(packs) + i],
   chunks  |-> draft.chunks,
   files   |-> draft.files,
   deleted |-> deleted]

\* The session's index, once every entry is recorded; FirstChunk was fixed when
\* the session began, packs are numbered in the archive.
SessionIndex ==
  [first   |-> Len(ia.chunks),
   packs   |-> [i \in DOMAIN draft.packs |-> Len(packs) + i],
   chunks  |-> draft.chunks,
   files   |-> draft.files,
   deleted |-> deleted]

\* writeSession ends: an update that records nothing leaves the archive alone.
EndSession ==
  /\ pc = "next" /\ todo = {}
  /\ IF ia.sessions > 0 /\ draft.files = <<>> /\ deleted = {}
       THEN UNCHANGED <<ia, packs>>
       ELSE ia' = Apply(SessionIndex) /\ packs' = packs \o draft.packs
  /\ pc' = "ended" /\ outcome' \in Returned
  /\ UNCHANGED <<inputs, runs, walked, kept, failed, todo, deleted, cur, draft, before, restore>>

\* Writing the session fails: the run stops and the archive is as it was.
SessionFails ==
  /\ pc \in {"next", "read"} /\ "write" \in Faults
  /\ pc' = "ended" /\ outcome' = "err"
  /\ UNCHANGED <<inputs, ia, packs, runs, walked, kept, failed, todo, deleted, cur, draft, before, restore>>

----------------------------------------------------------------------------
(* Restoring the newest state *)

NoRestore == [tmp |-> <<>>, open |-> FALSE, pending |-> 0, err |-> FALSE]
Hole == 2   \* a byte not written yet

\* A restore is another process, perhaps on another machine: nothing of the last
\* run and its inputs matters to it.
NewProcess ==
  /\ disk' = [n \in Names |-> Absent] /\ clock' = MaxEdits /\ touched' = {} /\ runs' = MaxRuns
  /\ walked' = [n \in Names |-> NoVersion] /\ kept' = {} /\ failed' = {} /\ todo' = {} /\ deleted' = {}
  /\ cur' = NoFile /\ draft' = NewSession /\ outcome' = "none"
  /\ before' = [sessions |-> 0, gives |-> [n \in Names |-> Nothing], own |-> {}]

\* prepareRestore: a temporary file for each file; one that cannot be created
\* carries the error and none of its chunks is routed.
StartRestore ==
  LET files == {n \in Names : ia.files[n].kind = "file"}
  IN /\ pc \in {"idle", "ended"} /\ ia.sessions > 0 /\ ia.ok
     /\ unwritable' \in MayFailOutput(files)
     /\ rf' = [n \in Names |->
                 IF n \notin files THEN NoRestore
                 ELSE [tmp     |-> [i \in 1..ia.files[n].size |-> Hole],
                       open    |-> n \notin unwritable',
                       pending |-> Len(ia.files[n].chunks),
                       err     |-> n \in unwritable']]
     /\ pc' = "pack" /\ pack' = 1 /\ idx' = 0 /\ pos' = 0
     /\ NewProcess
     /\ UNCHANGED <<ia, packs, out, result, hurt>>

\* The output directory cannot be opened: nothing is restored.
RestoreFails ==
  /\ pc \in {"idle", "ended"} /\ ia.sessions > 0 /\ "output" \in Faults
  /\ pc' = "failed"
  /\ NewProcess
  /\ UNCHANGED <<ia, packs, restore>>

\* A mutant: the chunk's own length is counted in its position.
Positions_After(n, c) ==
  {RawSize(ia.chunks, SubSeq(ia.files[n].chunks, 1, i)) :
     i \in {j \in DOMAIN ia.files[n].chunks : ia.files[n].chunks[j] = c}}

\* The positions of file n that chunk c fills.
Positions(n, c) ==
  {RawSize(ia.chunks, SubSeq(ia.files[n].chunks, 1, i - 1)) :
     i \in {j \in DOMAIN ia.files[n].chunks : ia.files[n].chunks[j] = c}}

Users(c) == {n \in Names : rf[n].open /\ c \in Range(ia.files[n].chunks)}

\* The chunks of a pack that some file needs, in the order they lie in it.
Needed(p) ==
  SetToSortSeq({c \in DOMAIN ia.chunks : ia.chunks[c].pack = p /\ Users(c) # {}},
               LAMBDA c, d : ia.chunks[c].offset < ia.chunks[d].offset)

\* deliverChunk's check, and the router's that chunks do not overlap.
Intact(loc) == pos <= loc.offset /\ ChunkData(loc) = loc.id

\* deliverChunk: written to every position of every file that has not failed.
DeliverChunk ==
  LET needed == Needed(pack)
      c      == needed[idx + 1]
      loc    == ia.chunks[c]
      files  == {n \in Users(c) : ~rf[n].err}
  IN /\ pc = "pack" /\ pack <= Len(packs) /\ idx < Len(needed) /\ Intact(loc)
     /\ \E lost \in MayFailOutput(files) :
          /\ unwritable' = unwritable \union lost
          /\ rf' = [n \in Names |->
               LET at == Positions(n, c)
               IN CASE n \in lost -> [rf[n] EXCEPT !.err = TRUE]
                    [] n \in files \ lost ->
                         [rf[n] EXCEPT
                           !.tmp = [i \in DOMAIN @ |->
                                      IF \E o \in at : i \in (o + 1)..(o + loc.raw)
                                        THEN loc.id[i - (CHOOSE o \in at : i \in (o + 1)..(o + loc.raw))]
                                        ELSE @[i]],
                           !.pending = @ - Cardinality(at)]
                    [] OTHER -> rf[n]]
     /\ idx' = idx + 1 /\ pos' = loc.offset + loc.raw
     /\ UNCHANGED <<inputs, session, pc, pack, out, result, hurt>>

\* A mutant: one bad pack fails every file of the restore.
PackFails_All ==
  LET needed == Needed(pack)
      sound  == idx = Len(needed) \/ Intact(ia.chunks[needed[idx + 1]])
  IN /\ pc = "pack" /\ pack <= Len(packs) /\ needed # <<>>
     /\ sound => "damage" \in Faults /\ hurt = {}
     /\ rf' = [n \in Names |-> [rf[n] EXCEPT !.err = TRUE]]
     /\ hurt' = IF sound THEN hurt \union {pack} ELSE hurt
     /\ pack' = pack + 1 /\ idx' = 0 /\ pos' = 0
     /\ UNCHANGED <<inputs, session, pc, out, result, unwritable>>

\* restorePack fails, at a block, at a chunk or at the trailer: every file that
\* needs a chunk of the pack fails.
PackFails ==
  LET needed == Needed(pack)
      sound  == idx = Len(needed) \/ Intact(ia.chunks[needed[idx + 1]])
  IN /\ pc = "pack" /\ pack <= Len(packs) /\ needed # <<>>
     /\ sound => "damage" \in Faults /\ hurt = {}
     /\ rf' = [n \in Names |->
                 IF \E c \in Range(needed) : n \in Users(c) THEN [rf[n] EXCEPT !.err = TRUE] ELSE rf[n]]
     /\ hurt' = IF sound THEN hurt \union {pack} ELSE hurt
     /\ pack' = pack + 1 /\ idx' = 0 /\ pos' = 0
     /\ UNCHANGED <<inputs, session, pc, out, result, unwritable>>

PackEnds ==
  /\ pc = "pack" /\ pack <= Len(packs)
  /\ idx = Len(Needed(pack))
  /\ pack' = pack + 1 /\ idx' = 0 /\ pos' = 0
  /\ UNCHANGED <<inputs, session, pc, rf, out, result, hurt, unwritable>>

\* What the output directory held before: nothing, or a file under every name.
Before == {[n \in Names |-> f] : f \in {Nothing, Older}}

Complete(n) == ~rf[n].err /\ rf[n].pending = 0

\* restoreSpecial: a directory is not made where a file stands, and a hard link needs
\* a file under its target's name.
SpecialRestored(n, was) ==
  IF ia.files[n].kind = "dir" THEN was[n] # Older
  ELSE out'[ia.files[n].target].kind \in {"file", "old"}

\* publishRestores, then restoreSpecial: complete files are renamed into place,
\* directories and links follow; temporary files left over are removed.  A link
\* may fail before or after an older file at its name is removed.
Publish ==
  /\ pc = "pack" /\ pack > Len(packs)
  /\ \E bad \in MayFailOutput(Names), was \in Before : \E removed \in SUBSET bad :
       LET files == ia.files
           made  == [n \in Names |->
                       CASE files[n].kind = "file" /\ Complete(n) /\ n \notin bad ->
                              [kind |-> "file", data |-> rf[n].tmp]
                         [] files[n].kind = "dir" /\ n \notin bad /\ was[n] # Older -> Directory
                         [] files[n].kind = "link" /\ n \in removed -> Nothing
                         [] OTHER -> was[n]]
       IN /\ out' = LinkAll([n \in Names |-> IF n \in bad THEN NoVersion ELSE files[n]], made)
          /\ result' = [n \in Names |->
                          CASE files[n].kind = "none" -> "none"
                            [] files[n].kind = "file" /\ n \notin bad /\ Complete(n) -> "ok"
                            [] files[n].kind \in {"dir", "link"} /\ n \notin bad
                                 /\ SpecialRestored(n, was) -> "ok"
                            [] OTHER -> "err"]
          /\ unwritable' = unwritable \union bad
  /\ pc' = "restored"
  /\ rf' = [n \in Names |-> NoRestore]
  /\ UNCHANGED <<inputs, session, pack, idx, pos, hurt>>

----------------------------------------------------------------------------

Init ==
  /\ \E there \in SUBSET Names, d \in [Names -> Contents] :
       disk = [n \in Names |-> IF n \notin there THEN Absent
                                ELSE [kind |-> "file", stamp |-> n, ino |-> n, data |-> d[n]]]
  /\ clock = 0 /\ touched = {}
  /\ ia = NewArchive /\ packs = <<>> /\ runs = 0 /\ pc = "idle"
  /\ walked = [n \in Names |-> NoVersion] /\ kept = {} /\ failed = {} /\ todo = {} /\ deleted = {}
  /\ cur = NoFile /\ draft = NewSession /\ outcome = "none"
  /\ before = [sessions |-> 0, gives |-> [n \in Names |-> Nothing], own |-> {}]
  /\ rf = [n \in Names |-> NoRestore] /\ pack = 0 /\ idx = 0 /\ pos = 0
  /\ out = [n \in Names |-> Nothing] /\ result = [n \in Names |-> "none"]
  /\ hurt = {} /\ unwritable = {}

Next ==
  \/ Edit
  \/ StartRun \/ Diff \/ NextEntry \/ AddChunk \/ FinishFile \/ ReadFails \/ EndSession \/ SessionFails
  \/ StartRestore \/ RestoreFails \/ DeliverChunk \/ PackFails \/ PackEnds \/ Publish

Spec == Init /\ [][Next]_vars

----------------------------------------------------------------------------
(* Properties *)

\* Every session writeSession appends is one the next run can load: numbering,
\* pack bounds and sizes satisfy ParseSessionIndex and apply, whatever files
\* failed half-way in this or an earlier run.
SessionsLoad == ia.ok

\* No chunk is stored twice, though a file may fail after its chunks were stored
\* and the same data may turn up again in any later session.
ChunksStoredOnce ==
  LET chunks == ia.chunks
  IN \A i, j \in DOMAIN chunks : chunks[i].id = chunks[j].id => i = j

\* After a run that succeeded, or that failed with its session in the archive,
\* every input that was read and has not changed since the walk is restorable as it
\* is on disk, even one that an earlier run caught in the middle of a change.  (A
\* link depends on the file it names.)
UpToDate ==
  pc = "ended" /\ (outcome = "ok" \/ ia.sessions > before.sessions) =>
    LET files == ia.files
        spoilt == touched \union failed \union kept
    IN \A n \in Names \ spoilt :
         files[n].target \notin spoilt =>
           /\ Restorable[n] = [kind |-> disk[n].kind, data |-> disk[n].data]
           /\ files[n].stamp = disk[n].stamp

\* A file that could not be read keeps the version the archive had of it, whether
\* the run succeeds or fails, with or without its session in the archive.  (For a
\* name stored as a hard link, see UnreadLinksKept.)
UnreadKept ==
  pc = "ended" =>
    \A n \in before.own : n \in kept \union failed => Restorable[n] = before.gives[n]

\* The same, for names stored as hard links too: "a file or directory inside one
\* that cannot be read keeps its previous version".
UnreadLinksKept ==
  pc = "ended" =>
    \A n \in Names :
      (n \in kept \union failed /\ before.gives[n] # Nothing) => Restorable[n] = before.gives[n]

\* A restore is exact about damage: what it puts under a name is the whole recorded
\* content, never a file with a chunk missing, misplaced or damaged; a damaged pack
\* costs the files that use it and no others; every entry of the newest state gets a
\* result, and success means that the content is there (io/incremental_restore.go:
\* 165-300).  The exception is a hard link to a file that was not restored: where an
\* older file has that file's name the link is made to it, and reported as restored
\* (io/output_tree.go:266-268).
RestoredExactly ==
  LET hit(n) == \/ n \in unwritable
                \/ \E c \in Range(ia.files[n].chunks) : ia.chunks[c].pack \in hurt
      isLink(n) == ia.files[n].kind = "link"
      target(n) == ia.files[n].target
  IN \A n \in Names :
       /\ out[n] \notin {Nothing, Older} => out[n] = Restorable[n]
       /\ pc = "restored" =>
            /\ ia.files[n].kind # "none" => result[n] # "none"
            /\ result[n] = "ok" =>
                 out[n] = Restorable[n] \/ (isLink(n) /\ out[n] = Older /\ out[target(n)] = Older)
            /\ (result[n] = "err" /\ Restorable[n] # Nothing) =>
                 \/ hit(n) \/ (isLink(n) /\ hit(target(n)))
                 \/ ia.files[n].kind = "dir" /\ out[n] = Older
=============================================================================
