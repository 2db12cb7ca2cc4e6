------------------------- MODULE ExtractorInvariant -------------------------
(***************************************************************************)
(* The inductive invariant of the extractor, and the facts that the proofs *)
(* about its actions have in common.                                       *)
(***************************************************************************)
EXTENDS Extractor, TLAPS

Reading == {"head", "create", "pad", "blocks", "trailer"}
Writing == {"publish", "members", "write", "special"}
InBody == pc \in {"pad", "blocks", "trailer"}

\* TypeOK in parts: how the run goes, where the reader is, what was counted, what
\* is at the output, what is reported.
ControlOK ==
  /\ version \in {1, 2} /\ op \in {"extract", "list"} /\ ret \in {"none", "ok", "fatal"}
  /\ mode \in {"body", "skip", "list"} /\ err \in {"none", "err"}
  /\ eof \in BOOLEAN /\ opened \in BOOLEAN

PlaceOK ==
  /\ kind \in {"none", "file", "solid", "symlink", "hardlink", "dirent", "directory", "locator"}
  /\ field \in {"type", "head", "pad", "block", "end", "trailer"}
  /\ pc \in {"type", "head", "create", "pad", "blocks", "trailer", "publish", "members", "write",
             "special", "done", "killed"}

CountOK ==
  /\ n \in 0..MaxEntries /\ size \in [Entries -> 0..MaxBlocks] /\ buf \in 0..MaxBlocks
  /\ damaged \subseteq 1..n

Contents == NoData \union [of : Names, blocks : 0..MaxBlocks]

TreeOK == tree \in [Names -> Contents]

OutputOK ==
  /\ tmp \in Names \union {NoTemp} /\ member \in 1..MaxMembers
  /\ result \in [Names -> {"none", "ok", "err"}] /\ failed \subseteq Names

\* Which entries reach which step.
EntryInv ==
  /\ pc \in Reading \union Writing => kind \notin {"none", "locator"}
  /\ kind \notin {"none", "directory", "locator"} => n \in Entries
  /\ pc \in {"create", "publish"} => kind = "file"
  /\ pc \in {"members", "write"} => kind = "solid"
  /\ pc = "special" => kind \notin {"file", "solid", "directory"}
  /\ InBody /\ mode = "body" => kind \in {"file", "solid"}
  /\ InBody /\ mode = "list" => kind # "directory"
  /\ InBody /\ mode = "skip" /\ err = "none" => kind \notin {"file", "solid"}
  /\ ret # "none" => pc = "done"

\* When there is a temporary file, and for which name.
TempInv ==
  /\ tmp # NoTemp => \/ InBody /\ mode = "body" /\ kind = "file"
                     \/ pc \in {"publish", "write", "killed"}
  /\ InBody /\ mode = "body" /\ kind = "file" => tmp = <<n, 1>>
  /\ pc = "publish" => tmp = <<n, 1>>
  /\ pc = "write" => tmp = <<n, member>>

\* No blocks have been read of the entries to come.
FreshInv ==
  /\ \A e \in Entries : e > n => size[e] = 0
  /\ pc \in {"head", "create"} /\ kind # "directory" => size[n] = 0

\* What is being decrypted is undamaged so far and all that the stream held; so is
\* what goes to the output.
BodyInv ==
  /\ pc = "head" /\ kind # "directory" => n \notin damaged
  /\ pc \in {"create", "publish", "members", "write"} => n \notin damaged
  /\ InBody /\ mode = "body" /\ err = "none" /\ ~eof => n \notin damaged
  /\ InBody /\ mode = "body" /\ err = "none" => buf = size[n]
  /\ pc \in {"publish", "members", "write"} => buf = size[n]
  /\ field = "block" /\ kind # "directory" => n \in Entries /\ size[n] < MaxBlocks

\* c is what was there before, or all of an undamaged entry that is not being read.
Sound(c) ==
  \/ c \in NoData
  \/ /\ c.of[1] \notin damaged /\ c.blocks = size[c.of[1]]
     /\ c.of[1] < n \/ (c.of[1] = n /\ (pc \in Reading => kind = "directory"))

TreeInv == \A x \in Names : Sound(tree[x])

\* Where the end of the stream was met in an entry, that entry has failed.
EndInv ==
  /\ pc \in Writing => ~eof
  /\ pc = "type" /\ eof /\ field # "type" => result[<<n, 1>>] = "err"

\* Which results there are: those of the entries passed, in a group those of the
\* members done, and none of the entry being read.
SeenInv ==
  /\ kind = "none" => n = 0
  /\ \A x \in Names : x[1] < n /\ x[2] = 1 => result[x] # "none"
  /\ \A x \in Names : x[1] > n => result[x] = "none"
  /\ pc = "type" /\ kind \notin {"none", "directory", "locator"} => result[<<n, 1>>] # "none"
  /\ pc \in Reading \union {"publish", "special"} /\ kind # "directory" =>
       \A x \in Names : x[1] = n => result[x] = "none"
  /\ pc \in {"members", "write"} =>
       \A x \in Names : x[1] = n => (result[x] = "none" <=> x[2] >= member)

\* Why an entry failed: every error has a cause, and the cause an error.
FailInv ==
  /\ \A x \in Names : result[x] = "err" => x[1] \in damaged \/ x \in failed
  /\ InBody /\ err = "err" /\ kind # "directory" => n \in damaged \/ <<n, 1>> \in failed
  /\ \A x \in failed : x[1] <= n
  /\ \/ pc \in {"head", "create", "publish", "special"} /\ kind # "directory"
     \/ InBody /\ err = "none" /\ kind # "directory"
     => \A x \in failed : x[1] # n
  /\ pc \in {"members", "write"} => \A x \in failed : x[1] = n => x[2] < member

\* What was extracted is undamaged and there; links have no data to be damaged.
OkInv ==
  /\ \A x \in Names : result[x] = "ok" /\ op = "extract" =>
       x[1] \notin damaged /\ x \notin failed /\ tree[x] \notin Untouched
  /\ InBody /\ mode = "list" => op = "list"
  /\ field = "block" => kind \in {"file", "solid", "directory"}
  /\ pc = "special" => n \notin damaged
  /\ InBody /\ mode = "skip" /\ err = "none" /\ kind # "directory" => n \notin damaged

IInv ==
  /\ SeenInv /\ FailInv /\ OkInv
  /\ ControlOK /\ PlaceOK /\ CountOK /\ TreeOK /\ OutputOK
  /\ StreamAligned /\ EntryInv /\ TempInv /\ FreshInv /\ BodyInv /\ TreeInv /\ EndInv /\ TruncationNoticed

----------------------------------------------------------------------------
(* Facts used in several places *)

\* The bounds are numbers.
LEMMA Bounds ==
  MaxEntries \in Nat /\ MaxBlocks \in Nat /\ MaxMembers \in Nat /\ 1 \in 1..MaxMembers
  BY ExtractorAssumption

\* The reader is within an entry: its names are names.
LEMMA AtEntry ==
  ASSUME CountOK, OutputOK, EntryInv, pc \in Reading \union Writing, kind # "directory"
  PROVE  n \in Entries /\ n \in Nat /\ <<n, 1>> \in Names /\ <<n, member>> \in Names
  BY Bounds DEF CountOK, OutputOK, EntryInv, Reading, Writing, Entries, Names

\* Only the entry being read is ever found damaged.
LEMMA DamageKeeps ==
  ASSUME CountOK, OutputOK, EntryInv, pc \in Reading, Damage \/ damaged' = damaged, n' = n
  PROVE  damaged' \subseteq 1..n'
<1>1. CASE kind = "directory" \/ damaged' = damaged
  BY <1>1, Zenon DEF Damage, CountOK
<1>2. CASE kind # "directory"
  <2>1. n \in 1..n
    BY <1>2, AtEntry DEF Entries
  <2> QED
    BY <2>1, Zenon DEF Damage, CountOK
<1> QED
  BY <1>1, <1>2

\* A file that is put in place.
LEMMA TreeSet ==
  ASSUME TreeOK, NEW x \in Names, NEW c \in Contents
  PROVE  [tree EXCEPT ![x] = c] \in [Names -> Contents]
  BY DEF TreeOK

\* What is neither old nor a link is of an entry of the archive.
LEMMA ContentsOf ==
  ASSUME TreeOK, NEW x \in Names, tree[x] \notin NoData
  PROVE  tree[x].of \in Names /\ tree[x].of[1] \in Entries
  BY DEF TreeOK, Contents, Names

\* Reading on disturbs nothing that is in place: it is of entries already passed.
LEMMA TreeKeeps ==
  ASSUME CountOK, TreeOK, TreeInv, tree' = tree, n' = n, kind' = kind,
         pc \in Reading \/ pc' \notin Reading,
         damaged' = damaged \/ (pc \in Reading /\ Damage),
         size' = size \/ (pc \in Reading /\ kind # "directory" /\ size' = [size EXCEPT ![n] = @ + 1])
  PROVE  TreeInv'
<1> SUFFICES ASSUME NEW x \in Names, tree[x] \notin NoData
             PROVE  Sound(tree[x])'
  BY DEF TreeInv, Sound
<1> DEFINE e == tree[x].of[1]
<1>1. /\ e \notin damaged /\ tree[x].blocks = size[e] /\ e \in Entries
      /\ e < n \/ (e = n /\ (pc \in Reading => kind = "directory"))
  BY ContentsOf DEF TreeInv, Sound
<1>2. n \in Nat /\ e \in Nat
  BY <1>1, Bounds DEF CountOK, Entries
<1> HIDE DEF e
<1>3. e \notin damaged'
  BY <1>1, <1>2 DEF Damage
<1>4. size'[e] = size[e]
  BY <1>1, <1>2 DEF CountOK
<1>5. e < n \/ (e = n /\ (pc' \in Reading => kind = "directory"))
  BY <1>1, <1>2
<1> QED
  BY <1>1, <1>3, <1>4, <1>5 DEF Sound, e

\* Nor does a file that is put in place after its entry was verified.
LEMMA TreePut ==
  ASSUME TreeOK, TreeInv, NEW x \in Names, NEW c, Sound(c), tree' = [tree EXCEPT ![x] = c],
         pc \notin Reading, pc' \notin Reading, UNCHANGED <<n, kind, damaged, size>>
  PROVE  TreeInv'
<1> SUFFICES ASSUME NEW y \in Names PROVE Sound(tree[y])'
  BY DEF TreeInv
<1>1. tree'[y] = c \/ tree'[y] = tree[y]
  BY DEF TreeOK
<1>2. CASE tree'[y] = c
  BY <1>2 DEF Sound
<1>3. CASE tree'[y] = tree[y]
  BY <1>3 DEF TreeInv, Sound
<1> QED
  BY <1>1, <1>2, <1>3

LEMMA Verbatim ==
  ASSUME NEW x \in Names, NEW b, NEW c, c = [of |-> x, blocks |-> b]
  PROVE  c.of = x /\ c.of[1] = x[1] /\ c.blocks = b /\ (b \in 0..MaxBlocks => c \in Contents)
  BY DEF Contents

\* A name is an entry and a place in it.
LEMMA NameParts ==
  \A x \in Names : x[1] \in Nat /\ x[2] \in 1..MaxMembers /\ x[2] \in Nat /\ x = <<x[1], x[2]>>
  BY Bounds DEF Names, Entries

\* A member of a group is done: its result is there, and those of the members
\* behind it are not.
LEMMA MemberResults ==
  ASSUME CountOK, OutputOK, EntryInv, SeenInv, pc \in {"members", "write"}, UNCHANGED <<n, kind>>,
         NEW r \in {"ok", "err"}, NextMember(r)
  PROVE  SeenInv' /\ member' \in 1..MaxMembers
<1>1. /\ n \in Nat /\ member \in Nat /\ member >= 1 /\ kind = "solid"
      /\ <<n, member>> \in Names /\ <<n, 1>> \in Names /\ <<n, member>>[1] = n
  BY AtEntry, Bounds DEF OutputOK, EntryInv, Writing
<1>2. \A x \in Names : result'[x] = IF x = <<n, member>> THEN r ELSE result[x]
  BY <1>1 DEF NextMember, OutputOK
<1>3. \A x \in Names : x[1] = n => (result[x] = "none" <=> x[2] >= member)
  BY DEF SeenInv
<1>4. result'[<<n, 1>>] # "none"
  <2>1. CASE member = 1
    BY <1>1, <1>2, <2>1
  <2>2. CASE member # 1
    BY <1>1, <1>2, <1>3, <2>2
  <2> QED
    BY <2>1, <2>2
<1>5. \A x \in Names : x[1] = n => (result'[x] = "none" <=> x[2] >= member + 1)
  <2> SUFFICES ASSUME NEW x \in Names, x[1] = n
               PROVE  result'[x] = "none" <=> x[2] >= member + 1
    OBVIOUS
  <2>1. x[2] \in Nat /\ (x = <<n, member>> <=> x[2] = member)
    BY NameParts
  <2> QED
    BY <1>1, <1>2, <1>3, <2>1
<1>6. \A x \in Names : x[1] # n => result'[x] = result[x]
  BY <1>1, <1>2
<1>7. /\ \A x \in Names : x[1] < n /\ x[2] = 1 => result'[x] # "none"
      /\ \A x \in Names : x[1] > n => result'[x] = "none"
  BY <1>1, <1>6, NameParts DEF SeenInv
<1>8. \/ pc' = "members" /\ member < MaxMembers /\ member' = member + 1
      \/ pc' = "type" /\ member' = 1
  BY DEF NextMember
<1>9. member' \in 1..MaxMembers
  BY <1>1, <1>8, Bounds
<1> QED
  BY <1>1, <1>4, <1>5, <1>7, <1>8, <1>9 DEF SeenInv, Reading

\* It failed only if its output did.
LEMMA MemberFailures ==
  ASSUME CountOK, OutputOK, EntryInv, FailInv, pc \in {"members", "write"}, UNCHANGED <<n, kind, damaged>>,
         NEW r \in {"ok", "err"}, NextMember(r),
         IF r = "ok" THEN failed' = failed ELSE failed' = failed \union {<<n, member>>}
  PROVE  FailInv'
<1>1. /\ n \in Nat /\ member \in Nat /\ kind = "solid" /\ <<n, member>> \in Names
      /\ <<n, member>>[1] = n /\ <<n, member>>[2] = member
  BY AtEntry, Bounds DEF OutputOK, EntryInv, Writing
<1>2. \A x \in Names : result'[x] = IF x = <<n, member>> THEN r ELSE result[x]
  BY <1>1 DEF NextMember, OutputOK
<1>3. \A x \in Names : result'[x] = "err" => x[1] \in damaged \/ x \in failed'
  BY <1>2 DEF FailInv
<1>4. \A x \in failed' : x[1] <= n
  BY <1>1 DEF FailInv
<1>5. \A x \in failed' : x[1] = n => x[2] < member + 1
  <2> SUFFICES ASSUME NEW x \in failed', x[1] = n PROVE x[2] < member + 1
    OBVIOUS
  <2>1. CASE x \in failed
    BY <1>1, <2>1, NameParts DEF FailInv, OutputOK
  <2>2. CASE x = <<n, member>>
    BY <1>1, <2>2
  <2> QED
    BY <2>1, <2>2
<1>6. (pc' = "members" /\ member' = member + 1) \/ pc' = "type"
  BY DEF NextMember
<1> QED
  BY <1>3, <1>4, <1>5, <1>6 DEF FailInv, InBody

\* The output of one name disturbs no other.
LEMMA OkKeeps ==
  ASSUME OkInv, NEW y \in Names, UNCHANGED <<op, damaged>>,
         \A x \in Names : x # y => result'[x] = result[x] /\ tree'[x] = tree[x],
         failed' \subseteq failed \union {y},
         result'[y] = "ok" => y[1] \notin damaged /\ y \notin failed' /\ tree'[y] \notin Untouched
  PROVE  \A x \in Names : result'[x] = "ok" /\ op' = "extract" =>
           x[1] \notin damaged' /\ x \notin failed' /\ tree'[x] \notin Untouched
  BY DEF OkInv

\* What is published is something new.
LEMMA NotUntouched ==
  ASSUME NEW x \in Names, NEW b
  PROVE  [of |-> x, blocks |-> b] \notin Untouched
<1>1. x # <<0, 0>> /\ x # <<0, 1>>
  BY Bounds DEF Names, Entries
<1> QED
  BY <1>1 DEF Untouched, Absent, Old
=============================================================================
