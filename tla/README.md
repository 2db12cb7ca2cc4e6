# Verification of sarc

sarc writes encrypted archives. This directory holds TLA+ models of the parts
of it whose correctness depends on the order of steps: what a killed process
leaves in a file, what goroutines do to each other's buffers, which of several
errors wins. TLC checks them on small instances, and TLAPS proves the central
results for every value of the constants.

`PROJECT.json` lists components, runs, the map from definitions to source lines,
hazards and theorems. Paths below are relative to `src/`.

## The system

| part | source | what it does | module |
|---|---|---|---|
| incremental archive file | `io/incremental_write.go`, `io/incremental.go`, `io/signature.go` | updates an archive in place: sessions of packs and an index, then a tail (checkpoint, footer), then perhaps a signature; a session count sealed in the header | `IncrementalStore` |
| incremental diff, dedupe and restore | `io/incremental_write.go`, `io/inputs.go`, `io/incremental_restore.go`, `archive/chunker.go` | which files a session records, which chunks it stores, and what a restore makes of them | `IncrementalBackup` |
| sequential encryption | `io/pipeline.go`, `io/mmap_pipeline.go` | a goroutine reads and encrypts, the caller writes | `EncryptPipeline`, `DataPipelines` |
| parallel encryption | `io/pipeline.go`, `io/mmap_pipeline.go` | dispatcher, workers, ordered writer, buffers that circulate | `ParallelEncrypt` |
| parallel decryption | `io/decrypt_pipeline.go` | the same shape for reading | `DecryptPipeline` |
| archive stream | `archive/writer.go`, `io/solid.go`, `io/directory.go` | entries, solid groups of small files, the random-access directory, the end of an archive | `ArchiveStream` |
| concurrent archiver | `io/concurrent.go`, `io/special.go` | whole files encrypted by a pool, written in order | `ConcurrentArchiver` |
| streaming archiver | `io/streaming.go` | one file after the other, small ones queued for a group | `StreamingArchiver` |
| archive command | `cmd/sarc/archive.go` | chooses an archiver, commits or gives up the output | `ArchiveCommand` |
| split volumes | `io/volume.go`, `archive/volume.go` | an archive as numbered files, written and joined | `Volumes` |
| storage backends and readers | `storage/`, `cmd/sarc/stdio.go` | multipart uploads, commit or abort, resuming range reads | `RemoteStorage` |
| extractor, output tree | `io/extractor.go`, `io/output_tree.go`, `io/verified_file.go` | verifies entries, publishes files | `Extractor` |
| framing, keys, crypto, other commands | `archive/`, `crypto/`, `cmd/sarc/` | byte layout, AES-GCM, HMAC, flag parsing | not modelled |

An archive run walks its inputs. With several workers the concurrent archiver
turns them into entries, with one the streaming archiver. Small files are
encrypted whole by the pool or join a solid group; a large file is streamed
through one of the encryption pipelines. The bytes go to a file, to a set of
volumes or to a storage backend. An incremental run uses the same framing but
writes into an existing file. An extract run reads entries and decrypts their
blocks through the decryption pipeline.

How the modules fit together: `DataPipelines` is the choice among the pipelines,
`ArchiveCommand` composes the two archivers over `ArchiveStream`, and
`ArchiveOutput` is the choice of where the archive goes. In these models a
streamed file is an entry that is whole, cut short or skipped, or a call that
never returns, which is what the pipelines are shown to leave; a session of
`IncrementalBackup` is committed whole or not at all, which is what
`IncrementalStore` is shown to do.

Three modules put models side by side so that one run covers them; a behaviour
is of one kind, chosen at the start, and the other state does not move.
`Archiving` is the archive command or one call of a pipeline. `Extraction` is the
switch on the archive's header in `Extract` and `List` (`io/extractor.go:187`,
`737`, `755`): `Extractor` for a stream, `IncrementalBackup` otherwise.
`IncrementalFailures` is `IncrementalStore` twice, once where the process fails
and once where the machine does. `ArchiveInputs` holds the inputs of the archive
command, and `MCArchiveCommand`, `MCIncrementalStore` and `MCIncrementalBackup`
are instances of single modules.

## Modules

### IncrementalStore: the file of an incremental archive

The file is a sequence of cells behind the header. A cell is a pack, a session
index, a tail or a piece of a signature block. Those are the units the code
parses as a whole, and byte offsets of the code become positions. `file` is
what a process reads, `sealed` the count in the header, `ia` the loaded
`incrementalArchive`, `run` and `result` the running invocation and what it
reported. `pc`, `mode`, `todo` and `at` say which write is in progress and how
far it is.

| action | code |
|---|---|
| `CreateIncremental` | `createIncremental`: temporary file, sync, rename |
| `UpdateIncremental` | `updateIncremental` up to the diff, with `loadIncremental`; a recovered archive gets its tail rewritten first |
| `FinishUnchanged` | nothing changed: keep, refuse, or add a signature |
| `AppendSession`, `EmptySession` | `appendSession`, with the old tail saved; no input could be read |
| `SignArchiveFile` | `sarc sign` |
| `WriteCell`, `Truncate`, `Sync` | the three steps every in-place write consists of |
| `Seal`, `SealSync` | the session count is rewritten in the header |
| `WriteFails`, `SyncFails`, `SealFails` | I/O errors, and the restore closure |
| `Kill`, `PowerLoss` | the process dies; the machine loses power |

A kill keeps what was written, with the cell being written torn (`Junk`). A
power loss keeps any subset of the writes since the last sync: `maybe`, `lens`
and `seals` record which contents, lengths and counts may survive. Reading is a
set of pure operators: `SplitSignature`, `ReadCheckpoint`, `ScanForLastIndex`,
`ReadIndexChain`, `LoadOK`.

Abstracted: pack contents (a pack carries the run that wrote it and whether its
data survived), the checksum (the value of a checksum is the cells it covers,
so the extension of a saved hash state is an append), and encryption of
entries. The 36-byte rewrite of the sealed count is atomic. Creation is one
step, because a failure before the rename leaves no archive. There is one
writer at a time: nothing in the code locks the file, and nothing promises
that two writers work.

`SessionLog` is the abstract specification: a log of sessions that grows one at
a time, at most one per run, from which only an unsealed newest session may be
taken back. `IncrementalHistory` maps the file to it: the log is what a scan
finds, the count is the sealed one.

### IncrementalBackup: what sessions record and restores bring back

`disk` is the inputs: for each name a file with modification time, inode and
bytes, a directory, or nothing. `Edit` changes them between any two steps: a
file is replaced, overwritten, linked, deleted or made a directory. `ia` is the
archive's state as `apply` rebuilds it from the sessions, `packs` what the packs
hold, `cur` and `draft` the file and the session being written.

| action | code |
|---|---|
| `StartRun`, `Diff` | `expandInputs` with unreadable entries and hard links; `diffInputs` against the recorded versions |
| `NextEntry`, `AddChunk`, `FinishFile`, `ReadFails` | `addFile`: open, fill the buffer, cut, store or reuse a chunk; a file that fails is left out or keeps its version |
| `EndSession`, `SessionFails` | the index is written, parsed back and applied; or the session is given up |
| `StartRestore`, `RestoreFails` | `prepareRestore`: a temporary file for each file; or the output directory cannot be opened |
| `DeliverChunk`, `PackFails`, `PackEnds` | the pass over the packs: every chunk goes to each position that wants it |
| `Publish` | complete files are renamed into place, then directories and links are made |

An update may return an error although its session is in the archive, when the
count cannot be sealed, the file not synced or the signature not written
(`io/incremental_write.go:225`, `420-429`): that is the "err" of `Returned`. A
restore may find nothing in the output directory or an older file under every
name (`Before`). A hard link becomes another name of whatever stands under its
target's (`LinkAll`).

Bytes are kept, because what a chunk is depends on them: `CutPoint` cuts at a
boundary value between `MinChunk` and `MaxChunk` and sees only what has been read
ahead, as the code does. A chunk's hash is its bytes. Parsing an index is
modelled by the conditions it checks (`ChunkParses`, `FileParses`).

### The pipelines

Channels are sequences with the code's capacity, `close` is membership in
`closed`, and each goroutine has a program counter whose values stand for the
channel operations at which it can block. Between two of those a goroutine's
steps are one action. Read, nonce, encryption, send and sink failures may
happen at every call that can fail.

* `EncryptPipeline`: `encryptAndStream`. Block k is the number k, and a result
  with an error is 0.
* `ParallelEncrypt`: `encryptAndStreamParallel`, and `encryptAndStreamMmap` when
  `mapped`. `content` says what each buffer holds, so a buffer reused too early
  is visible. The mapped version differs in its dispatcher (no read errors, a
  nonce error instead) and is a second set of initial states.
* `DecryptPipeline`: `decryptBlocksParallel` step by step;
  `decryptBlocksSequential` as the value it computes (`SequentialSunk`,
  `SequentialReturn`).
* `DataPipelines` instantiates all three and adds the sequential mapped version;
  a behaviour is one call of one of them, as `addFileStreaming` and
  `streamDataBlocks` choose.

### The archivers

`ArchiveStream` is what they share. An operation on the archive is the set of its
outcomes, an archive and an error kind. `broken` is the sticky error of the
buffered writer, `dir` the records collected for the directory, `reported` the
files whose failure was reported. A streamed file of `OverflowSize` or more that is
encrypted without workers may leave the caller waiting after a failed write
(`MayStick`), which is what `EncryptPipeline` shows of it; the archiver then is
"stuck". A size is a record size. `PlanSolid` and
`PlanJobs` are the planning of groups and jobs; `ScanList` and `ListRandom` are
the two ways of listing the result. A member of a group may have changed between
planning and reading (`SizesRead`). The `stat` failure in `solidCandidate` is the
same as a failure of the later read.

* `ConcurrentArchiver`: dispatcher, slots, workers and the ordered writer of
  `archiveJobs`, then special entries, directory and end.
* `StreamingArchiver`: `AddFile` for each argument, the queue of small files, its
  flush at the bound and at the end, special entries, `Finalize`. `logged` is
  that the command has logged a fatal error and gone on.
* `ArchiveCommand`: `runArchive`, which runs one of the two and commits the output
  or not (`exit`).

### Where archives go

`Volumes`: `VolumeWriter` writes units over whatever earlier runs left at the same
paths, one system call per action (create, header, payload, final header,
checksum, removal of stale files, which ends without an error at a number that is
missing or cannot be read). `VolumeReader` checks the set and then joins
it, and a writer may be at work at the same time. The random archive ID is the
number of the run.

`RemoteStorage`: one object key, uploads one after the other, and a reader at any
moment.

| action | code |
|---|---|
| `CreateObject`, `WriteUnit`, `CloseObject` | `Create`, `Write` and `Close` of a backend's writer |
| `StartUpload`, `TakePart`, `SendPart` | `flushPart` in S3: `CreateMultipartUpload` once, a part number and size, a slot |
| `PartDone`, `PartFails` | the goroutines that upload parts, in any order |
| `WaitParts`, `CompleteUpload`, `StopUpload`, `Drained`, `AbortUpload`, `DiscardWriter` | `Close` and `Abort` in S3: wait, complete with the sorted list, or cancel, drain and abort |
| `PutObject`, `CommitStream`, `CommitFile` | a small S3 object, the azblob and gcs writers, the local rename |
| `ArchiverFails`, `Interrupt`, `KillUpload` | the run fails or is interrupted, so the output is aborted; the process dies |
| `OpenObject`, `NewRangeReader`, `ReadBody`, `ReadEof` | `Open` and the resuming `rangeReader` |

The store is external: a request takes effect or not, and its reply may be lost.
`server` is the unfinished upload and its parts in the store. `excused` records
what the code can do nothing about (a kill, a lost reply). A canceled part may or
may not have arrived, but not after the store has answered the request that
discards the upload. Delays between resumes are left out.

### Extractor

One sequential pass of `Extract` or `scanList` over an archive, field by field:
type, head, padding, data blocks, sentinel, trailer. The archive is not fixed
beforehand. Each read finds an intact field, a damaged one or the end of the
stream, so every archive within the bounds, with every damage described below, is
a behaviour.
`field` is what really comes next and `pc` is what the reader takes it for.
`tree` is what stands at each name of the output directory, `tmp` the temporary
file, `result` what is reported.

| action | code |
|---|---|
| `NextEntryType`, `TypeAtEnd` | `nextEntryType`, with the locator part of `skipDirectory` |
| `ReadEntryHead` | `readEntryHead`, and the choice of how to read the body |
| `NewVerifiedFile` | `newVerifiedFile`, which opens the output directory on first use |
| `SkipPadding`, `SkipDataBlocks`, `SkipTrailer` | the functions of those names, within `skipEntryBody` or a listing |
| `StreamDataBlocks` | `streamDataBlocks`, sequential or parallel (`DecryptPipeline` shows that these deliver the same and succeed alike) |
| `ReadTrailer` | `readTrailer` and the check of HMAC and size |
| `Publish`, `CreateMember`, `WriteMember`, `Special` | `publish`, `writeFile` for each member of a solid group, `special` |
| `Kill` | the process dies |

Damage is what the reader can meet without losing its place: a field that does
not open, or a length beyond its maximum. A damaged length that stays in range
makes the reader take later bytes for lengths and is not modelled. Names are
distinct and valid or refused; attributes and the deferred attributes of
directories are left out, and so is a failing removal in `discard`, which the
code ignores (`io/output_tree.go:157-160`). The random name of a temporary file
cannot fail: since Go 1.24 `rand.Read` returns no error, and `go.mod` asks for a
later one. `Old` is what stood at a name before, `OldLink` another name of it.

## Runs

| run | instance | result |
|---|---|---|
| `archiving` | concurrent: 2 workers, look-ahead 1, 6 mixes of up to 6 inputs; streaming: three files, small, plain or large, and small ones in directories; solid or not; every outcome of reading, sealing and writing. Sequential encryption: up to 7 chunks, `pipelineDepth` 4 as in the code; parallel: 2 workers, 2 buffers each, up to 6 chunks; decryption: 2 workers, 1 queued block each, every stream of up to 3 blocks | entries in plan order (`EntriesInOrder`); the workers run no further ahead than the window (`InFlightBounded`); every input is in the archive, reported, or the command fails, as it does after a write error (`NothingLost`); listing by directory and by scan agree (`ListingsAgree`); no group exceeds what readers accept (`GroupsReadable`); order and completeness without workers (`BlocksInOrder`, `OkMeansComplete`) and with them (`ParallelWritesAll`); ciphertext is sent from a buffer nobody else holds, and none is lost (`BuffersOwned`); decryption with workers delivers and leaves the stream as the sequential one does, and succeeds when it does (`DecryptsAsSequential`); everything ends, except a file encrypted without workers whose write failed (`WindsDown`) |
| `results_held` | the concurrent archiver, as above | **violated** `ResultsBounded` |
| `stream_fatal` | the command, as above | **violated** `CommittedReadsBack` |
| `enc_seq_hang` | sequential encryption, as above | **violated** `Returns` |
| `dec_error` | decryption, up to 2 blocks | **violated** `SameAsSequential` |
| `out_set` | volumes: 3 runs of up to 4 units, 2 per volume, one reader; storage: 2 uploads of up to 4 units to each kind of backend, parts of 1 and 2 units, 3 parts at most, 2 slots, 1 resume; failed requests, lost replies, interrupts, kills | a reader of volumes that reaches the end read one archive (`JoinedIsOneArchive`); a closed set is whole (`ClosedSetIsWhole`); an object is all of one upload, in order (`ObjectWhole`); no parts are left (`NoUploadLeft`); the command's answer is true (`AnswerTrue`); a reader never mixes versions (`OneVersionRead`); uploads and reads end (`TransfersEnd`) |
| `vol_stale` | 3 runs, 1 unit per volume, kills | **violated** `NoStaleVolumes` |
| `part_buffers` | one upload of 4 units to each kind of backend, nothing fails | **violated** `PartsBounded` |
| `extraction` | streams: archives of both versions with up to 2 entries of any kind and a directory, 2 blocks, 2 members; damage, truncation, output errors, kills. Incremental: 2 names, one in a subdirectory, 2 contents that share chunks, 2 edits, 2 runs and a restore; read, write and output errors, a damaged pack, older files in the output directory | the reader never takes one field for another (`StreamAligned`); only whole, verified files appear (`OnlyVerifiedPublished`); one bad entry costs only itself and the results say so (`ResultsFaithful`); a truncated archive is noticed (`TruncationNoticed`); no temporary file is left (`NoTempLeft`); types (`TypeOK`). What a run writes loads again (`SessionsLoad`); no chunk is stored twice (`ChunksStoredOnce`); inputs that did not change during a run are restorable as they are (`UpToDate`); what could not be read keeps its version, whatever the run returns (`UnreadKept`); a restored file is all of its version, and damage costs only the files that use the pack (`RestoredExactly`) |
| `inc_links` | incremental, as above | **violated** `UnreadLinksKept` |
| `inc_failures` | the process fails: 4 runs, at most 1 pack per session, two keys with signatures of 1 and 2 cells, kills and write errors. The machine fails: 3 runs, power losses, write and sync errors | the archive always opens (`AlwaysOpens`) with its packs intact (`NewestStateIntact`); checkpoint and scan agree (`CheckpointSound`); an old signature never stands behind a new tail (`SignatureCovers`); failed sessions are undone (`RestoreBringsBack`); sealed bytes never change (`SealedNeverRewritten`), nor do they when the machine fails (`SealedKeptOnLoss`); removed signatures are reported (`RemovalReported`); the file implements the session log (`ImplementsSessionLog`) |
| `inc_power` | 2 runs, power losses | **violated** `AlwaysOpens`, see below |

Why the bounds are enough.

* Four runs allow create, a killed update, a repair that is killed again, and an
  update or signature after it. Two signature lengths make a shorter block land
  on a longer one.
* Two names give a hard link and its first name, and one of them can lie in an
  unreadable directory. The longer content needs three chunks and two packs,
  repeats a chunk, and ends in one that is the whole shorter content.
* Seven chunks exceed a channel of four with both goroutines holding one. Six
  chunks exceed four buffers; three blocks exceed the queue's two places, and
  let one follow a failure while another is still with a worker. Five files exceed
  the window of three, with large files first, last and in between; three small
  files fill one group and start another.
* Four units with capacity two give one, two or three volumes, exactly filled
  ones among them, so a later archive can be shorter by one or two. Four units in
  parts of one and two units need more parts than slots, a larger part, and
  reach the limit of three parts.
* Two entries let the second be read after any failure of the first; two blocks
  let one follow a damaged one; two members let one fail and the other not.

`CHECK_DEADLOCK FALSE` is set throughout: every model ends when its runs or its
blocks are used up. For the pipelines, the archivers and the storage backends,
termination is checked as a liveness property instead.

### Fairness

The pipelines and the archive command assume that while some goroutine can take a
step, one does: weak fairness of the whole next-state relation. The Go scheduler
gives more, every runnable goroutine runs; the weaker assumption is enough,
because no behaviour of these models is endless, so what it shows holds for any
scheduler. (The runs of one pipeline by itself assume weak fairness of each
goroutine.) `RemoteStorage` assumes weak fairness of the upload and of the read: a request is answered or times out, and whoever writes an
archive goes on until it is finished. Nothing is assumed about the outcome of a
call that may fail. The number of chunks, blocks, jobs and units is bounded, as a
file is finite. `IncrementalStore`, `IncrementalBackup`, `Volumes` and
`Extractor` have no fairness and only safety properties.

### Disagreements found

* `inc_power`: a power loss before the sync of a session may keep the new
  checkpoint and lose the index it points to. `loadIncremental` trusts a
  checkpoint that parses and fails on the index instead of scanning
  (`io/incremental.go:81`), while `docs/ARCHITECTURE.md:299-300` says readers
  that find a damaged tail scan for the last index that verifies.
* `enc_seq_hang`: after a failed send, `encryptAndStream` waits for the MAC and
  no longer empties `blockCh` (`io/pipeline.go:113-119`). If more results than
  the channel holds are still to come, both sides wait for ever. The parallel
  version, whose test says a failing send does not hang, delegates to this one
  when it has fewer than two workers.
* `vol_stale`: `removeStaleVolumes` stops at the first missing number. A run
  killed while removing leaves a gap, and volumes behind it stay for good.
* `inc_links`: a hard link inside a directory that cannot be read keeps its
  recorded version, but that version only names another entry. If this entry is
  outside and was deleted or replaced, the link loses its content
  (`io/incremental_write.go:294`), while the comment at lines 75-76 says that
  what cannot be read keeps its previous version.
* `results_held`: the writer takes the token of a result out of `slots` and then
  writes the result (`io/concurrent.go:156-158`). While it writes,
  `workers+resultLookahead` others can be finished, one more in memory than
  the comment at lines 107-109 says.
* `dec_error`: on a stream that breaks off after a damaged block the parallel
  decryption reports the block and the sequential one the break, although it is
  said to have the same failure behaviour (`io/decrypt_pipeline.go:121-122`).
* `part_buffers`: `flushPart` allocates the next buffer before it waits for a slot
  (`storage/s3/s3.go:188`), so there are `uploadConcurrency+2` buffers; the
  comment at lines 45-46 says `uploadConcurrency+1`.
* `stream_fatal`: with one worker the command logs a fatal error of `AddFile`,
  finalizes and commits (`cmd/sarc/archive.go:134`). The archive then holds an
  entry cut short and cannot be read to its end, although `io/errors.go:12` says
  that after a fatal error the archive cannot be processed further.

Noticed as well, and described by the properties as the code behaves:

* A failed write or sync of the sealed count does not restore the old tail
  (`io/incremental_write.go:420-429`), and `RestoreBringsBack` is not about it. A
  run that repairs a tail and then records nothing does not report the signature
  it removed (`io/incremental_write.go:220-222`), which `RemovalReported` excepts;
  `docs/ARCHITECTURE.md:357-358` promises the report for a run that changes the
  archive.
* An argument that is a directory and cannot be read does not fail the run when
  it has a prefix, although the comment at `io/incremental_write.go:74-75` says
  that it does.
* The wait of `enc_seq_hang` needs at least six chunks of a file that is not mapped
  and has no workers: one below 4 MiB that is streamed, or any where there is one
  processor. `WindsDown` excepts it.
* After a fatal error that the command logs (`stream_fatal`), the rest of the
  argument and the members of a group whose flush failed are missing without
  being named. `NothingLost` then still says that nothing is stored twice.
* "A hard link's target always precedes it" (`io/special.go:12-13`), except when
  the target could not be read: the link is archived all the same and fails when
  it is extracted.
* The local backend gives no versions (`storage/local/local.go:89-90`), so a
  resumed read may join two files; `OneVersionRead` leaves it out.
* A link removes what stood at its name before it is made, so a link that fails
  leaves nothing there (`io/output_tree.go:247`, `266`). A hard link whose target
  entry failed is made to an older file of that name, if there is one, and
  reported as restored (`io/output_tree.go:267`): `ResultsFaithful` and
  `RestoredExactly` allow it, and nothing else of the kind. A version 1 archive ends
  without an error at a damaged type byte (`io/extractor.go:345`).

## Proofs

### IncrementalProofs

For any number of runs, packs and keys, any lengths of signatures, and any mix
of kills and write errors (assumption `NoLoss`: no power loss and no failed
sync), every state satisfies `TypeOK` (`TypeCorrect`), `AlwaysOpens`
(`OpensAfterAnyKill`) and `NewestStateIntact` (`KeepsNewestState`). `NoLoss` is
needed: `inc_power` shows that `AlwaysOpens` fails without it. The only other
assumption is `StoreAssumption`.

The invariant `IInv` (module `IncrementalInvariant`) is what makes the argument
inductive. `AlwaysOpens` speaks of the whole file, but a write changes one cell,
and whether the archive then opens depends on what is behind that cell and on
what the run will write next.

* `SoundAt(f, s, t)`: cells 1..t are whole, linked sessions, and reading `f`
  finds the session at t, through the checkpoint or by a scan. `IInv` says some
  t is sound (`Opens`); `SoundLoads` in `IncrementalLemmas` shows that this is
  enough for `loadIncremental`.
* `RepairInv`, `AppendInv`, `RestoreInv`, `SignInv` relate `todo` and `at` to the
  cells already written: the cells of the new session so far, the old tail that
  is still there, the saved tail still to be put back.
* The delicate point is a signature trailer left at the end of the file by an
  older run: `splitSignature` would cut the file by the length it claims.
  `EndFits` and `Leftover` say that such a trailer can only cut exactly behind
  the tail that was there before.

`IncrementalLemmas` has the facts about sequences, `Put` and the readers.
`IncrementalProofs` has one lemma per action, with `WriteCell` and `Truncate`
split by purpose, and the theorems.

### EncryptPipelineProofs

For any channel depth and file length: types, `OkMeansComplete`
(`ReturnsOnlyComplete`) and `BlocksInOrder` (`WritesInOrder`). The invariant says
that the channel holds the consecutive blocks from the one behind the last sent
(or being sent) to the last read, and that an error result is last.

### RemoteStorageProofs

For any part sizes, number of parts and slots, any number of uploads and resumes
and any faults of the store: `AnswerTrue` (`AnswersTruly`) and `NoUploadLeft`
(`LeavesNoUpload`), from `RemoteAssumption` alone. Neither is inductive: both
speak of the moment the command has returned, and what holds then was decided
steps before. `UploadInv` adds what the writer knows on the way. Parts are under
way only while it holds an upload ID (`WriterInv`); without an ID the store holds
nothing, unless the reply with the ID was lost (`StoreInv`); while it works its
archive is not in place, unless a reply was lost (`PlaceInv`); versions never
come from a later upload (`VersionInv`). The delicate steps are an abort that
overtakes parts still under way, which `Drained` excludes, and a completion
whose reply is lost.

### ExtractorProofs

For archives of any number of entries, blocks and members, with any damage,
truncation, output error or kill, from `ExtractorAssumption`: all properties of
`Extractor`, that is `TypeOK` (`TypeCorrect`), `StreamAligned` (`KeepsPlace`),
`OnlyVerifiedPublished` (`PublishesOnlyVerified`), `ResultsFaithful`
(`ReportsFaithfully`), `TruncationNoticed` (`NoticesTruncation`) and `NoTempLeft`
(`LeavesNoTemp`).

The invariant `IInv` ties the step the reader is at to what it knows of the
entry. While it decrypts without an error, the entry is undamaged so far and
every block of it has been kept (`BodyInv`), so what is published after the
trailer is all of it. What is in place belongs to entries already passed
(`Sound`), so damage found later cannot touch it. `SeenInv`, `FailInv` and
`OkInv` say which results there are and why, in a group up to the member being
written. `EndInv` carries the end of the stream from the entry it is met in to
the return. `ExtractorInvariant` has the invariant and the facts shared.
`ExtractorReading`, `ExtractorWriting` and the first part of `ExtractorProofs`
have one lemma per action, with one step per conjunct; the actions with a case
distinction (`SkipTrailer`, `ReadTrailer`, `Special`) are first brought into a
flat form.

### Only model-checked

Liveness (`WindsDown`, `TransfersEnd`), which is out of the
prover's reach; the refinement of `SessionLog`; `CheckpointSound`,
`SignatureCovers`, `RestoreBringsBack`, `RemovalReported`,
`SealedNeverRewritten`; `ObjectWhole` and `OneVersionRead`; and
everything about `IncrementalBackup`, `ParallelEncrypt`, `DecryptPipeline`, the
archivers and `Volumes`. `IncrementalBackup` and `ArchiveStream` fold over
sequences, and what a fold computes for every input needs an induction that the
prover cannot do.

## Plan

What is left, in order of what could go wrong unnoticed:

1. Proofs: `SealedNeverRewritten` and `CheckpointSound` from `IInv`; the
   refinement of `SessionLog`; `BuffersOwned`; `DecryptsAsSequential`;
   `InFlightBounded`; `JoinedIsOneArchive`; `OneVersionRead`.
2. The deferred attributes of directories in the output tree: they are set after
   everything else and may fail one by one.

## Not modelled

Byte layouts (`archive/codec.go`, `archive/frames.go`, `archive/metadata.go`), the
cryptographic primitives and the key stanzas, which the models take as perfect;
compression choices, file attributes, preallocation and progress; command-line
parsing, prompts, terminals and printing; what the vendor SDKs of the storage
backends do inside a call. These are either computations without interleaving or
I/O whose effects the models above take as given. Two writers of one incremental
archive at the same time are not modelled, because nothing in the code or its
documents promises anything for them. The sealed count in the header (36 bytes, within a
disk sector) is written atomically, and creating an archive is one step: that its
rename is not followed by a sync of the directory (`io/incremental_write.go:154`)
is not examined. A multipart upload whose naming reply is lost cannot be
discarded by anyone (`storage/s3/s3.go:174`), and `NoUploadLeft` excuses it.
