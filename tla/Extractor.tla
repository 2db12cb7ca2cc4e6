------------------------------ MODULE Extractor ------------------------------
(***************************************************************************)
(* SafeExtractor (io/extractor.go, the readers of io/solid.go and          *)
(* io/directory.go) and the files it leaves through outputTree and         *)
(* verifiedFile: one sequential pass over the fields of an archive that    *)
(* may be damaged, cut short or unwritable at any point.                   *)
(*                                                                         *)
(* The stream is not fixed beforehand: each read finds an intact field, a  *)
(* damaged one or the end of the stream.  "field" is the field that really *)
(* comes next, which is what the reader has to agree with.                 *)
(***************************************************************************)
EXTENDS Naturals

CONSTANTS
  MaxEntries,  \* bound on the file and solid entries of an archive
  MaxBlocks,   \* bound on the data blocks of one of them
  MaxMembers,  \* bound on the members of a solid group
  Faults       \* subset of {"damage", "truncate", "io", "kill"}

ASSUME ExtractorAssumption ==
  /\ {MaxEntries, MaxBlocks, MaxMembers} \subseteq Nat \ {0}
  /\ Faults \subseteq {"damage", "truncate", "io", "kill"}

Entries == 1..MaxEntries

\* A file is named by its entry and, in a solid group, its place there.
Names == Entries \X (1..MaxMembers)

\* What may be at a name: nothing, something of before, a link or directory, a hard
\* link to something of before, or the first "blocks" blocks of what the archive
\* holds under name "of".
Absent == [of |-> <<0, 0>>, blocks |-> 0]
Old    == [of |-> <<0, 1>>, blocks |-> 0]
Link   == [of |-> <<0, 2>>, blocks |-> 0]
OldLink == [of |-> <<0, 3>>, blocks |-> 0]
Untouched == {Absent, Old}
NoData == {Absent, Old, Link, OldLink}
NoTemp == <<0, 0>>

VARIABLES
  version, op,  \* the archive's version, and "extract" or "list"
  n, kind,      \* the entry the reader is at: its number and kind
  field,        \* the next field of the stream
  size,         \* the data blocks the stream holds of each entry so far
  eof,          \* the stream has ended
  pc,           \* the field or step the reader is at
  mode,         \* "body" decrypts the data blocks, "skip" and "list" pass over them
  err,          \* "err" once the entry has failed and is only being passed over
  buf,          \* the data blocks decrypted and kept
  tmp,          \* the name the temporary file is for
  member,       \* the member of a solid group being written
  opened,       \* the output directory is open
  tree,         \* what is at each name in it
  result,       \* the result reported for each name
  damaged,      \* entries cut short, or damaged in a field they are restored from
  failed,       \* names for which the output failed
  ret           \* what Extract or List returned: "none", "ok", "fatal"

stream == <<n, kind, field, size, eof>>
body == <<mode, err, buf>>
vars == <<version, op, stream, pc, body, tmp, member, opened, tree, result, damaged, failed, ret>>

----------------------------------------------------------------------------
(* Reading a field *)

Available(f) == ~eof /\ field = f

\* The entry the reader is at is not what was archived.
Damage == damaged' = IF kind = "directory" THEN damaged ELSE damaged \union {n}

\* The read finds the end of the stream, and so does every later one.
EndOfStream ==
  /\ eof \/ "truncate" \in Faults
  /\ eof' = TRUE
  /\ Damage
  /\ UNCHANGED <<n, kind, field, size>>

Damaged(f) == Available(f) /\ "damage" \in Faults /\ Damage

\* The field is consumed and f comes next.
Consume(f) == field' = f /\ UNCHANGED <<n, kind, size, eof>>

\* Data blocks follow one another up to the sentinel; links have none.
DataFields ==
  IF kind \in {"symlink", "hardlink", "dirent"} \/ (kind # "directory" /\ size'[n] = MaxBlocks)
  THEN {"end"} ELSE {"block", "end"}

----------------------------------------------------------------------------
(* How an entry ends.  Whatever happens, its temporary file is discarded. *)

Stop(r) == pc' = "done" /\ ret' = r /\ tmp' = NoTemp

\* A fatal error: the results of the entry it happens in are not reported.
Fatal ==
  /\ Stop("fatal")
  /\ result' = [x \in Names |-> IF x[1] = n /\ kind # "directory" THEN "none" ELSE result[x]]

\* A mutant: the temporary file is not discarded.
Recoverable_KeepsTemp ==
  /\ pc' = "type"
  /\ result' = [result EXCEPT ![<<n, 1>>] = "err"]
  /\ UNCHANGED <<tmp, ret>>

\* A recoverable error: it is reported and the next entry is read.
Recoverable ==
  /\ pc' = "type" /\ tmp' = NoTemp
  /\ result' = [result EXCEPT ![<<n, 1>>] = "err"]
  /\ UNCHANGED ret

\* A directory has to be intact.
Fails == IF kind = "directory" THEN Fatal ELSE Recoverable

Succeeds ==
  /\ pc' = "type" /\ tmp' = NoTemp
  /\ result' = [result EXCEPT ![<<n, 1>>] = "ok"]
  /\ UNCHANGED ret

GoOn(p) == pc' = p /\ UNCHANGED <<tmp, result, ret>>

\* skipEntryBody: pass over the rest of the entry, then fail with cause.
SkipEntryBody(cause) == GoOn("pad") /\ mode' = "skip" /\ err' = cause /\ UNCHANGED buf

Read(m) == GoOn("pad") /\ mode' = m /\ err' = "none" /\ buf' = 0

----------------------------------------------------------------------------
(* The reader *)

\* A mutant: an archive without its end marker is taken as complete.
TypeAtEnd_EofEnds ==
  /\ pc = "type" /\ (eof \/ "truncate" \in Faults) /\ eof' = TRUE
  /\ Stop("ok")
  /\ UNCHANGED <<version, op, n, kind, field, size, body, member, opened, tree, result, damaged, failed>>

\* The stream ends where an entry type is expected, which is how a version 1
\* archive ends; a read error there is fatal in both versions.
TypeAtEnd ==
  /\ pc = "type" /\ (eof \/ "truncate" \in Faults) /\ eof' = TRUE
  /\ \/ version = 1 /\ Stop("ok")
     \/ Stop("fatal")
  /\ UNCHANGED <<version, op, n, kind, field, size, body, member, opened, tree, result, damaged, failed>>

\* A version 1 archive holds files only and ends with any other byte.
Kinds == IF version = 1 THEN {"file"} ELSE {"file", "solid", "symlink", "hardlink", "dirent"}

NextEntryType ==
  /\ pc = "type" /\ Available("type")
  /\ \/ /\ n < MaxEntries /\ kind \notin {"directory", "locator"}
        /\ n' = n + 1 /\ kind' \in Kinds /\ field' = "head" /\ GoOn("head")
     \/ /\ version = 2 /\ kind \notin {"directory", "locator"}
        /\ kind' = "directory" /\ field' = "head" /\ GoOn("head") /\ UNCHANGED n
     \/ /\ kind = "directory"
        /\ kind' = "locator" /\ UNCHANGED <<n, field, pc, tmp, result, ret>>
     \/ /\ kind # "directory"
        /\ Stop("ok") /\ UNCHANGED <<n, kind, field, result>>
     \/ /\ "damage" \in Faults
        /\ Stop(IF version = 1 THEN "ok" ELSE "fatal") /\ UNCHANGED <<n, kind, field, result>>
  /\ UNCHANGED <<version, op, size, eof, body, member, opened, tree, damaged, failed>>

\* Salt, frame header and sealed metadata, with the file name in it.
ReadEntryHead ==
  /\ pc = "head"
  /\ \/ EndOfStream /\ Fails /\ UNCHANGED body
     \/ /\ Damaged("head") /\ Fatal          \* a size beyond its maximum
        /\ UNCHANGED <<stream, body>>
     \/ /\ Damaged("head") /\ Consume("pad") \* it does not open
        /\ SkipEntryBody("err")
     \/ /\ Available("head") /\ Consume("pad") /\ UNCHANGED damaged
        /\ CASE kind = "directory" -> SkipEntryBody("none")
             [] kind = "solid" -> Read("body")
             [] op = "list" /\ kind \notin {"directory", "solid"} -> Read("list")
             [] op = "extract" /\ kind = "file" -> GoOn("create") /\ UNCHANGED body
             [] OTHER -> SkipEntryBody("none")
  /\ UNCHANGED <<version, op, member, opened, tree, failed>>

\* newVerifiedFile: the output directory is made on first use, which is fatal
\* if it fails; any other failure only fails this entry.
NewVerifiedFile ==
  /\ pc = "create"
  /\ \/ /\ pc' = "pad" /\ mode' = "body" /\ err' = "none" /\ buf' = 0
        /\ tmp' = <<n, 1>> /\ opened' = TRUE
        /\ UNCHANGED <<result, ret, failed>>
     \/ /\ "io" \in Faults /\ failed' = failed \union {<<n, 1>>}
        /\ SkipEntryBody("err") /\ opened' \in {opened, TRUE}
     \/ /\ "io" \in Faults /\ ~opened /\ failed' = failed \union {<<n, 1>>}
        /\ Fatal /\ UNCHANGED <<body, opened>>
  /\ UNCHANGED <<version, op, stream, member, tree, damaged>>

SkipPadding ==
  /\ pc = "pad"
  /\ \/ EndOfStream /\ IF mode = "skip" THEN Fatal ELSE Recoverable
     \/ /\ Available("pad") /\ GoOn("blocks")
        /\ UNCHANGED <<n, kind, size, eof, damaged>> /\ field' \in DataFields
  /\ UNCHANGED <<version, op, body, member, opened, tree, failed>>

\* A mutant: reading stops at the first damaged block.
DecryptFails_Stops == err' = "err" /\ GoOn("trailer")

\* The first error is kept and the blocks behind it are still read.
DecryptFails == err' = "err" /\ GoOn("blocks")

\* streamDataBlocks: decrypt the blocks into the temporary file or, for a solid
\* group, into memory.  After a failure the rest is read all the same.  A stream
\* that ends between blocks only shows when the trailer is read.
StreamDataBlocks ==
  /\ pc = "blocks" /\ mode = "body"
  /\ \/ /\ Available("block")
        /\ size' = [size EXCEPT ![n] = @ + 1] /\ field' \in DataFields
        /\ \/ /\ err = "none" /\ buf' = buf + 1 /\ GoOn("blocks")
              /\ UNCHANGED <<err, damaged, failed>>
           \/ /\ err = "none" /\ kind = "file" /\ "io" \in Faults /\ DecryptFails
              /\ failed' = failed \union {<<n, 1>>} /\ UNCHANGED <<buf, damaged>>
           \/ err = "err" /\ GoOn("blocks") /\ UNCHANGED <<err, buf, damaged, failed>>
           \/ Damaged("block") /\ DecryptFails /\ UNCHANGED <<buf, failed>>
        /\ UNCHANGED <<n, kind, eof, mode>>
     \/ /\ Damaged("block") /\ Fatal          \* a size beyond its maximum
        /\ UNCHANGED <<stream, body, failed>>
     \/ /\ Available("end") /\ Consume("trailer") /\ GoOn("trailer")
        /\ UNCHANGED <<body, damaged, failed>>
     \/ /\ EndOfStream /\ GoOn("trailer")
        /\ err' \in {err, "err"} /\ UNCHANGED <<mode, buf, failed>>
  /\ UNCHANGED <<version, op, member, opened, tree>>

\* skipDataBlocks: only the sizes are looked at, so a block may be damaged.
SkipDataBlocks ==
  /\ pc = "blocks" /\ mode # "body"
  /\ \/ /\ Available("block") /\ GoOn("blocks") /\ UNCHANGED <<n, kind, eof>>
        /\ Damaged("block") \/ UNCHANGED damaged
        /\ size' = IF kind = "directory" THEN size ELSE [size EXCEPT ![n] = @ + 1]
        /\ field' \in DataFields
     \/ Damaged("block") /\ Fatal /\ UNCHANGED stream
     \/ Available("end") /\ Consume("trailer") /\ GoOn("trailer") /\ UNCHANGED damaged
     \/ EndOfStream /\ Fails
  /\ UNCHANGED <<version, op, body, member, opened, tree, failed>>

\* A mutant: the error an entry was skipped for is lost.
Skipped_DropsCause ==
  CASE kind \in {"file", "solid"} -> Succeeds
    [] kind = "directory" -> GoOn("type")
    [] OTHER -> GoOn("special")

\* The entry has been passed over: its error, if any, is returned.
Skipped ==
  CASE err = "err" -> Fails
    [] err = "none" /\ kind = "directory" -> GoOn("type")
    [] err = "none" /\ kind # "directory" -> GoOn("special")

SkipTrailer ==
  /\ pc = "trailer" /\ (mode = "skip" \/ err = "err")
  /\ \/ EndOfStream /\ Fatal
     \/ Damaged("trailer") /\ Fatal /\ UNCHANGED stream
     \/ Available("trailer") /\ Consume("type") /\ Skipped /\ UNCHANGED damaged
  /\ UNCHANGED <<version, op, body, member, opened, tree, failed>>

\* The group's members are reported, in a listing, or written.
Verified ==
  CASE mode = "list" -> Succeeds /\ UNCHANGED member
    [] mode = "body" /\ kind = "file" -> GoOn("publish") /\ UNCHANGED member
    [] mode = "body" /\ kind = "solid" /\ op = "extract" -> GoOn("members") /\ member' = 1
    [] mode = "body" /\ kind = "solid" /\ op = "list" ->
         /\ \E m \in 1..MaxMembers :
              result' = [x \in Names |-> IF x[1] = n /\ x[2] <= m THEN "ok" ELSE result[x]]
         /\ pc' = "type" /\ UNCHANGED <<tmp, ret, member>>

\* A mutant: a trailer that does not open or match is taken all the same.
TrailerFails_Ignored == Verified

TrailerFails == Recoverable /\ UNCHANGED member

\* readTrailer, then verify: the trailer opens and is that of the plaintext.
ReadTrailer ==
  /\ pc = "trailer" /\ mode # "skip" /\ err = "none"
  /\ \/ EndOfStream /\ Recoverable /\ UNCHANGED member
     \/ Damaged("trailer") /\ Fatal /\ UNCHANGED <<stream, member>>
     \/ Damaged("trailer") /\ Consume("type") /\ TrailerFails
     \/ /\ Available("trailer") /\ Consume("type") /\ UNCHANGED damaged
        /\ IF mode = "body" /\ buf # size[n] THEN TrailerFails ELSE Verified
  /\ UNCHANGED <<version, op, body, opened, tree, failed>>

----------------------------------------------------------------------------
(* The output *)

Publish ==
  /\ pc = "publish"
  /\ \/ /\ tree' = [tree EXCEPT ![tmp] = [of |-> tmp, blocks |-> buf]]
        /\ Succeeds /\ UNCHANGED failed
     \/ /\ "io" \in Faults /\ failed' = failed \union {<<n, 1>>}
        /\ Recoverable /\ UNCHANGED tree
  /\ UNCHANGED <<version, op, stream, body, member, opened, damaged>>

\* A mutant: one member too many.
NextMember_OffByOne(r) ==
  /\ result' = [result EXCEPT ![<<n, member>>] = r] /\ tmp' = NoTemp
  /\ pc' = "members" /\ member' = member + 1
  /\ UNCHANGED ret

\* A member is done with result r; the group may have more.
NextMember(r) ==
  /\ result' = [result EXCEPT ![<<n, member>>] = r] /\ tmp' = NoTemp
  /\ \/ member < MaxMembers /\ pc' = "members" /\ member' = member + 1
     \/ pc' = "type" /\ member' = 1
  /\ UNCHANGED ret

\* writeFile for one member: a temporary file ...
CreateMember ==
  /\ pc = "members"
  /\ \/ /\ pc' = "write" /\ tmp' = <<n, member>> /\ opened' = TRUE
        /\ UNCHANGED <<member, result, ret, failed>>
     \/ /\ "io" \in Faults /\ failed' = failed \union {<<n, member>>}
        /\ NextMember("err") /\ opened' \in {opened, TRUE}
     \/ /\ "io" \in Faults /\ ~opened /\ failed' = failed \union {<<n, member>>}
        /\ Fatal /\ UNCHANGED <<member, opened>>
  /\ UNCHANGED <<version, op, stream, body, tree, damaged>>

\* ... that is written and published or discarded.
WriteMember ==
  /\ pc = "write"
  /\ \/ /\ tree' = [tree EXCEPT ![tmp] = [of |-> tmp, blocks |-> buf]]
        /\ NextMember("ok") /\ UNCHANGED failed
     \/ /\ "io" \in Faults /\ failed' = failed \union {tmp}
        /\ NextMember("err") /\ UNCHANGED tree
  /\ UNCHANGED <<version, op, stream, body, opened, damaged>>

\* A hard link is another name of whatever stands under its target's, which is
\* something older when the target was not extracted.
LinkTo(c) == IF c = Old THEN OldLink ELSE c

\* What stands at a link's name is removed before the link is made; the name
\* of a directory may be taken by a file.
Special ==
  LET x == <<n, 1>>
      targets == {y \in Names : y[1] < n /\ tree[y] # Link}
  IN /\ pc = "special"
     /\ \/ /\ opened' = TRUE /\ Succeeds /\ UNCHANGED failed
           /\ \/ kind = "symlink" /\ tree' = [tree EXCEPT ![x] = Link]
              \/ kind = "dirent" /\ tree' = [tree EXCEPT ![x] = Link]
              \/ /\ kind = "hardlink"
                 /\ \E y \in targets : tree[y] # Absent /\ tree' = [tree EXCEPT ![x] = LinkTo(tree[y])]
        \/ /\ "io" \in Faults \/ (kind = "dirent" /\ tree[x] = Old)
              \/ (kind = "hardlink" /\ \E y \in targets : tree[y] = Absent)
           /\ failed' = failed \union {x}
           /\ opened' = TRUE /\ Recoverable
           /\ tree' = IF kind = "dirent" THEN tree ELSE [tree EXCEPT ![x] = Absent]
        \/ /\ "io" \in Faults /\ failed' = failed \union {x}
           /\ opened' \in {opened, TRUE} /\ Recoverable /\ UNCHANGED tree
        \/ /\ "io" \in Faults /\ ~opened /\ failed' = failed \union {x}
           /\ Fatal /\ UNCHANGED <<opened, tree>>
     /\ UNCHANGED <<version, op, stream, body, member, damaged>>

Kill ==
  /\ "kill" \in Faults /\ pc \notin {"done", "killed"}
  /\ pc' = "killed"
  /\ UNCHANGED <<version, op, stream, body, tmp, member, opened, tree, result, damaged, failed, ret>>

Init ==
  /\ version \in {1, 2} /\ op \in {"extract", "list"}
  /\ n = 0 /\ kind = "none" /\ field = "type" /\ size = [e \in Entries |-> 0] /\ eof = FALSE
  /\ pc = "type" /\ mode = "skip" /\ err = "none" /\ buf = 0 /\ tmp = NoTemp /\ member = 1
  /\ opened = FALSE /\ tree \in {[x \in Names |-> c] : c \in {Absent, Old}}
  /\ result = [x \in Names |-> "none"] /\ damaged = {} /\ failed = {} /\ ret = "none"

Next ==
  \/ TypeAtEnd \/ NextEntryType \/ ReadEntryHead \/ NewVerifiedFile
  \/ SkipPadding \/ StreamDataBlocks \/ SkipDataBlocks \/ SkipTrailer \/ ReadTrailer
  \/ Publish \/ CreateMember \/ WriteMember \/ Special \/ Kill

Spec == Init /\ [][Next]_vars

----------------------------------------------------------------------------
(* Properties *)

\* The types of the extractor's variables.
TypeOK ==
  /\ version \in {1, 2} /\ op \in {"extract", "list"}
  /\ n \in 0..MaxEntries /\ size \in [Entries -> 0..MaxBlocks] /\ eof \in BOOLEAN
  /\ kind \in {"none", "file", "solid", "symlink", "hardlink", "dirent", "directory", "locator"}
  /\ field \in {"type", "head", "pad", "block", "end", "trailer"}
  /\ pc \in {"type", "head", "create", "pad", "blocks", "trailer", "publish", "members", "write",
             "special", "done", "killed"}
  /\ mode \in {"body", "skip", "list"} /\ err \in {"none", "err"} /\ buf \in 0..MaxBlocks
  /\ tmp \in Names \union {NoTemp} /\ member \in 1..MaxMembers /\ opened \in BOOLEAN
  /\ tree \in [Names -> NoData \union [of : Names, blocks : 0..MaxBlocks]]
  /\ result \in [Names -> {"none", "ok", "err"}]
  /\ damaged \subseteq Entries /\ failed \subseteq Names /\ ret \in {"none", "ok", "fatal"}

\* The reader never takes one field for another: "the entry was consumed in
\* full" before it goes on, whatever failed in it (io/extractor.go:211, 440-442).
StreamAligned ==
  ~eof =>
    /\ pc \in {"type", "publish", "members", "write", "special"} => field = "type"
    /\ pc \in {"head", "trailer"} => field = pc
    /\ pc \in {"create", "pad"} => field = "pad"
    /\ pc = "blocks" => field \in {"block", "end"}

\* "Unverified data never appears under" a file's name (io/extractor.go:411-414,
\* io/solid.go extractSolidBody): at every moment, and after a kill, what is
\* there is what was there before, a link or directory, or all of an undamaged entry.
OnlyVerifiedPublished ==
  \A x \in Names :
    tree[x] \in NoData
      \/ (tree[x].of[1] \notin damaged /\ tree[x].blocks = size[tree[x].of[1]])

\* One bad entry costs only itself: every entry passed has its result, a failure
\* is reported only for an entry that is damaged or could not be written, and
\* what is reported as extracted is undamaged and there, in the place of anything
\* older (io/extractor.go:173-218).  A hard link may be one to an older file that
\* has its target's name (io/output_tree.go:266-268).
ResultsFaithful ==
  \A x \in Names :
    /\ x[1] < n /\ x[2] = 1 => result[x] # "none"
    /\ result[x] = "err" => x[1] \in damaged \/ x \in failed
    /\ result[x] = "ok" /\ op = "extract" =>
         x[1] \notin damaged /\ x \notin failed /\ tree[x] \notin Untouched

\* A version 2 archive that is cut short is never taken as complete, because it
\* lacks its end marker; version 1, which has none, reports the entry the stream
\* ends in, if it ends in one (io/extractor.go:329-333).
TruncationNoticed ==
  ret = "ok" /\ eof => version = 1 /\ (field # "type" => result[<<n, 1>>] = "err")

\* No temporary file is left when Extract returns or goes on to the next entry
\* (discard, io/verified_file.go:88-97).  That its removal fails is left out: discard
\* ignores it (io/output_tree.go:157-160).
NoTempLeft == pc \in {"type", "done"} => tmp = NoTemp
=============================================================================
