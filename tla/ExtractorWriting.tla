-------------------------- MODULE ExtractorWriting --------------------------
(***************************************************************************)
(* The actions that write to the output directory keep the invariant, and  *)
(* so does a kill.                                                         *)
(***************************************************************************)
EXTENDS ExtractorInvariant

\* What making a link or a directory comes to.
SpecialMade ==
  /\ pc = "special"
  /\ \/ /\ Succeeds /\ UNCHANGED failed /\ opened' = TRUE
        /\ \E c \in Contents \ Untouched : Sound(c) /\ tree' = [tree EXCEPT ![<<n, 1>>] = c]
     \/ /\ Recoverable /\ failed' = failed \union {<<n, 1>>} /\ opened' \in {opened, TRUE}
        /\ tree' = tree \/ tree' = [tree EXCEPT ![<<n, 1>>] = Absent]
     \/ /\ Fatal /\ failed' = failed \union {<<n, 1>>}
        /\ UNCHANGED <<opened, tree>>
  /\ UNCHANGED <<version, op, stream, body, member, damaged>>

\* Whatever Special puts at a name is something sound.
LEMMA SpecialCases ==
  ASSUME IInv, Special
  PROVE  SpecialMade
<1> USE DEF IInv
<1>1. <<n, 1>> \in Names
  BY AtEntry DEF Special, EntryInv, Writing
<1>2. /\ Link \in Contents \ Untouched /\ Sound(Link)
      /\ OldLink \in Contents \ Untouched /\ Sound(OldLink)
  <2>1. /\ <<0, 2>> # <<0, 0>> /\ <<0, 2>> # <<0, 1>>
        /\ <<0, 3>> # <<0, 0>> /\ <<0, 3>> # <<0, 1>>
    OBVIOUS
  <2>2. Link \notin Untouched /\ OldLink \notin Untouched
    BY <2>1 DEF Link, OldLink, Untouched, Old, Absent
  <2> QED
    BY <2>2 DEF Contents, NoData, Sound
<1>3. ASSUME NEW y \in Names, tree[y] # Absent
      PROVE  LinkTo(tree[y]) \in Contents \ Untouched /\ Sound(LinkTo(tree[y]))
  BY <1>2, <1>3 DEF TreeInv, TreeOK, LinkTo, Untouched
<1>4. ASSUME \/ kind = "symlink" /\ tree' = [tree EXCEPT ![<<n, 1>>] = Link]
             \/ kind = "dirent" /\ tree' = [tree EXCEPT ![<<n, 1>>] = Link]
             \/ /\ kind = "hardlink"
                /\ \E y \in Names :
                     tree[y] # Absent /\ tree' = [tree EXCEPT ![<<n, 1>>] = LinkTo(tree[y])]
      PROVE  \E c \in Contents \ Untouched : Sound(c) /\ tree' = [tree EXCEPT ![<<n, 1>>] = c]
  BY <1>2, <1>3, <1>4
<1> QED
  BY <1>4, Zenon DEF Special, SpecialMade


\* The verified file replaces what stood at its name.
LEMMA PublishKeeps ==
  ASSUME IInv, Publish
  PROVE  IInv'
<1> USE DEF IInv, stream, body
<1>1. ControlOK'
  BY DEF Publish, Succeeds, Recoverable, ControlOK
<1>2. PlaceOK'
  BY DEF Publish, Succeeds, Recoverable, PlaceOK
<1>3. CountOK'
  BY Bounds, AtEntry, DamageKeeps, SMTT(40) DEF Publish, Succeeds, Recoverable, CountOK, BodyInv, EntryInv,
     InBody, ControlOK, PlaceOK, Reading, Entries
<1>4. TreeOK'
  <2>1. tmp \in Names /\ [of |-> tmp, blocks |-> buf] \in Contents
    BY AtEntry, Verbatim DEF Publish, TempInv, CountOK, EntryInv, Writing
  <2> QED
    BY <2>1, TreeSet DEF Publish, TreeOK
<1>5. OutputOK'
  BY Bounds, AtEntry DEF Publish, Succeeds, Recoverable, OutputOK, TempInv, ControlOK, PlaceOK,
     EntryInv, Reading, Writing
<1>6. StreamAligned'
  BY DEF Publish, Succeeds, Recoverable, StreamAligned, ControlOK, PlaceOK, InBody, EntryInv
<1>7. EntryInv'
  BY DEF Publish, Succeeds, Recoverable, EntryInv, InBody, Reading, Writing, ControlOK, PlaceOK,
     CountOK, Entries
<1>8. TempInv'
  BY DEF Publish, Succeeds, Recoverable, TempInv, InBody, EntryInv, ControlOK, PlaceOK, NoTemp
<1>9. FreshInv'
  BY AtEntry, Bounds DEF Publish, Succeeds, Recoverable, FreshInv, EntryInv, InBody, Reading,
     CountOK, PlaceOK
<1>10. BodyInv'
  BY AtEntry, Bounds DEF Publish, Succeeds, Recoverable, BodyInv, FreshInv, InBody, EntryInv,
     Reading, Writing, CountOK, ControlOK, PlaceOK, Entries
<1>11. EndInv'
  BY AtEntry DEF Publish, Succeeds, Recoverable, EndInv, EntryInv, ControlOK, PlaceOK, OutputOK,
     StreamAligned, InBody, Reading, Writing
<1>12. TreeInv'
  <2> DEFINE c == [of |-> tmp, blocks |-> buf]
  <2>1. pc \notin Reading /\ pc' \notin Reading
    BY DEF Publish, Succeeds, Recoverable, Reading
  <2>2. tmp = <<n, 1>> /\ tmp \in Names /\ n \notin damaged /\ buf = size[n]
    BY AtEntry DEF Publish, TempInv, BodyInv, EntryInv, Writing
  <2>3. Sound(c)
    BY <2>1, <2>2, Verbatim DEF Sound
  <2> QED
    BY <2>1, <2>2, <2>3, TreePut, TreeKeeps, ZenonT(30) DEF Publish
<1>13. SeenInv'
  BY AtEntry, Bounds DEF Publish, Succeeds, Recoverable, SeenInv, EntryInv, InBody, Reading,
     Writing, ControlOK, PlaceOK, OutputOK, CountOK
<1>14. FailInv'
  BY AtEntry, Bounds DEF Publish, Succeeds, Recoverable, FailInv, EntryInv, InBody, Reading,
     Writing, ControlOK, PlaceOK, OutputOK, CountOK
<1>15. OkInv'
  <2> DEFINE y == <<n, 1>>
  <2>1. y \in Names /\ y[1] = n /\ tmp = y /\ n \notin damaged /\ y \notin failed
    BY AtEntry DEF Publish, EntryInv, Writing, TempInv, BodyInv, FailInv
  <2> HIDE DEF y
  <2>2. \A x \in Names : x # y => result'[x] = result[x] /\ tree'[x] = tree[x]
    BY <2>1 DEF Publish, Succeeds, Recoverable, OutputOK, TreeOK, y
  <2>3. failed' \subseteq failed \union {y}
    BY DEF Publish, y
  <2>4. result'[y] = "ok" => y[1] \notin damaged /\ y \notin failed' /\ tree'[y] \notin Untouched
    <3>1. CASE Succeeds /\ UNCHANGED failed /\ tree' = [tree EXCEPT ![tmp] = [of |-> tmp, blocks |-> buf]]
      BY <2>1, <3>1, NotUntouched DEF TreeOK
    <3>2. CASE Recoverable
      BY <2>1, <3>2 DEF Recoverable, OutputOK, y
    <3> QED
      BY <3>1, <3>2, ZenonT(30) DEF Publish
  <2>5. \A x \in Names : result'[x] = "ok" /\ op' = "extract" =>
           x[1] \notin damaged' /\ x \notin failed' /\ tree'[x] \notin Untouched
    BY <2>1, <2>2, <2>3, <2>4, OkKeeps DEF Publish
  <2> QED
    BY <2>5 DEF Publish, Succeeds, Recoverable, OkInv, InBody
<1>16. TruncationNoticed'
  BY DEF Publish, Succeeds, Recoverable, TruncationNoticed, EndInv, EntryInv, ControlOK, PlaceOK
<1> QED
  BY <1>1, <1>2, <1>3, <1>4, <1>5, <1>6, <1>7, <1>8, <1>9, <1>10, <1>11, <1>12, <1>13, <1>14, <1>15,
     <1>16

\* A member of a group gets its temporary file, or fails and the next one follows.
LEMMA CreateMemberKeeps ==
  ASSUME IInv, CreateMember
  PROVE  IInv'
<1> USE DEF IInv, stream, body
<1>1. ControlOK'
  BY Zenon DEF CreateMember, NextMember, Fatal, Stop, ControlOK
<1>2. PlaceOK'
  BY Zenon DEF CreateMember, NextMember, Fatal, Stop, PlaceOK
<1>3. CountOK'
  BY Bounds, AtEntry, DamageKeeps, SMTT(40) DEF CreateMember, NextMember, Fatal, Stop, CountOK, BodyInv,
     EntryInv, InBody, ControlOK, PlaceOK, Reading, Entries
<1>4. TreeOK'
  BY DEF CreateMember, NextMember, Fatal, Stop, TreeOK
<1>5. OutputOK'
  <2>1. <<n, member>> \in Names /\ member \in 1..MaxMembers
    BY AtEntry DEF CreateMember, EntryInv, Writing, OutputOK
  <2>2. result' \in [Names -> {"none", "ok", "err"}]
    BY Zenon DEF CreateMember, NextMember, Fatal, OutputOK
  <2>3. tmp' \in Names \union {NoTemp} /\ failed' \subseteq Names
    BY <2>1, Zenon DEF CreateMember, NextMember, Fatal, Stop, OutputOK
  <2>4. member' \in 1..MaxMembers
    BY <2>1, MemberResults, Zenon DEF CreateMember, stream
  <2> QED
    BY <2>2, <2>3, <2>4 DEF OutputOK
<1>6. StreamAligned'
  BY Zenon DEF CreateMember, NextMember, Fatal, Stop, StreamAligned, ControlOK, PlaceOK, InBody, EntryInv
<1>7. EntryInv'
  BY Zenon DEF CreateMember, NextMember, Fatal, Stop, EntryInv, InBody, Reading, Writing, ControlOK,
     PlaceOK, CountOK, Entries
<1>8. TempInv'
  BY Zenon DEF CreateMember, NextMember, Fatal, Stop, TempInv, InBody, EntryInv, ControlOK, PlaceOK,
     NoTemp
<1>9. FreshInv'
  BY AtEntry, Bounds, ZenonT(30) DEF CreateMember, NextMember, Fatal, Stop, FreshInv, EntryInv, InBody, Reading,
     CountOK, PlaceOK
<1>10. BodyInv'
  BY AtEntry, Bounds DEF CreateMember, NextMember, Fatal, Stop, BodyInv, FreshInv, InBody, EntryInv,
     Reading, Writing, CountOK, ControlOK, PlaceOK, Entries
<1>11. EndInv'
  BY AtEntry, ZenonT(30) DEF CreateMember, NextMember, Fatal, Stop, EndInv, EntryInv, ControlOK, PlaceOK,
     OutputOK, StreamAligned, InBody, Reading, Writing
<1>12. TreeInv'
  BY TreeKeeps, Zenon DEF CreateMember, NextMember, Fatal, Stop, Reading
<1>13. SeenInv'
  <2>1. CASE NextMember("err")
    BY <2>1, MemberResults DEF CreateMember
  <2>2. CASE pc' = "write" /\ UNCHANGED <<member, result>>
    BY <2>2 DEF CreateMember, SeenInv, Reading
  <2>3. CASE Fatal
    BY <2>3, NameParts, Bounds DEF CreateMember, Fatal, Stop, SeenInv, Reading, CountOK, EntryInv
  <2> QED
    BY <2>1, <2>2, <2>3, ZenonT(30) DEF CreateMember
<1>14. FailInv'
  <2>1. CASE NextMember("err") /\ failed' = failed \union {<<n, member>>}
    BY <2>1, MemberFailures DEF CreateMember
  <2>2. CASE pc' = "write" /\ UNCHANGED <<member, result, failed>>
    BY <2>2 DEF CreateMember, FailInv, InBody
  <2>3. CASE Fatal /\ failed' = failed \union {<<n, member>>}
    <3>1. n \in Nat /\ <<n, member>>[1] = n
      BY Bounds DEF CountOK
    <3> QED
      BY <2>3, <3>1 DEF CreateMember, Fatal, Stop, FailInv, InBody
  <2> QED
    BY <2>1, <2>2, <2>3, Zenon DEF CreateMember
<1>15. OkInv'
  BY AtEntry, Bounds, ZenonT(40) DEF CreateMember, NextMember, Fatal, Stop, OkInv, BodyInv, SeenInv, FailInv,
     EntryInv, InBody, Reading, Writing, ControlOK, PlaceOK, OutputOK, CountOK
<1>16. TruncationNoticed'
  BY Zenon DEF CreateMember, NextMember, Fatal, Stop, TruncationNoticed, EndInv, EntryInv, ControlOK,
     PlaceOK
<1> QED
  BY <1>1, <1>2, <1>3, <1>4, <1>5, <1>6, <1>7, <1>8, <1>9, <1>10, <1>11, <1>12, <1>13, <1>14, <1>15,
     <1>16

\* A member is published, or fails and the next one follows.
LEMMA WriteMemberKeeps ==
  ASSUME IInv, WriteMember
  PROVE  IInv'
<1> USE DEF IInv, stream, body
<1>1. ControlOK'
  BY DEF WriteMember, NextMember, ControlOK
<1>2. PlaceOK'
  BY DEF WriteMember, NextMember, PlaceOK
<1>3. CountOK'
  BY Bounds, AtEntry, DamageKeeps DEF WriteMember, NextMember, CountOK, BodyInv, EntryInv, InBody,
     ControlOK, PlaceOK, Reading, Entries
<1>4. TreeOK'
  <2>1. tmp \in Names /\ [of |-> tmp, blocks |-> buf] \in Contents
    BY AtEntry, Verbatim DEF WriteMember, TempInv, CountOK, EntryInv, Writing
  <2> QED
    BY <2>1, TreeSet DEF WriteMember, TreeOK
<1>5. OutputOK'
  <2>1. <<n, member>> \in Names /\ tmp = <<n, member>>
    BY AtEntry DEF WriteMember, EntryInv, Writing, TempInv
  <2>2. member' \in 1..MaxMembers
    BY MemberResults DEF WriteMember
  <2> QED
    BY <2>1, <2>2 DEF WriteMember, NextMember, OutputOK
<1>6. StreamAligned'
  BY DEF WriteMember, NextMember, StreamAligned, ControlOK, PlaceOK, InBody, EntryInv
<1>7. EntryInv'
  BY DEF WriteMember, NextMember, EntryInv, InBody, Reading, Writing, ControlOK, PlaceOK, CountOK,
     Entries
<1>8. TempInv'
  BY DEF WriteMember, NextMember, TempInv, InBody, EntryInv, ControlOK, PlaceOK, NoTemp
<1>9. FreshInv'
  BY AtEntry, Bounds DEF WriteMember, NextMember, FreshInv, EntryInv, InBody, Reading, CountOK,
     PlaceOK
<1>10. BodyInv'
  BY AtEntry, Bounds DEF WriteMember, NextMember, BodyInv, FreshInv, InBody, EntryInv, Reading,
     Writing, CountOK, ControlOK, PlaceOK, Entries
<1>11. EndInv'
  BY AtEntry DEF WriteMember, NextMember, EndInv, EntryInv, ControlOK, PlaceOK, OutputOK,
     StreamAligned, InBody, Reading, Writing
<1>12. TreeInv'
  <2> DEFINE c == [of |-> tmp, blocks |-> buf]
  <2>1. pc \notin Reading /\ pc' \notin Reading
    BY DEF WriteMember, NextMember, Reading
  <2>2. tmp = <<n, member>> /\ tmp \in Names /\ n \notin damaged /\ buf = size[n]
    BY AtEntry DEF WriteMember, TempInv, BodyInv, EntryInv, Writing
  <2>3. Sound(c)
    BY <2>1, <2>2, Verbatim DEF Sound
  <2> QED
    BY <2>1, <2>2, <2>3, TreePut, TreeKeeps, ZenonT(30) DEF WriteMember
<1>13. SeenInv'
  BY MemberResults DEF WriteMember
<1>14. FailInv'
  <2>1. tmp = <<n, member>>
    BY DEF WriteMember, TempInv
  <2> QED
    BY <2>1, MemberFailures DEF WriteMember
<1>15. OkInv'
  <2> DEFINE y == <<n, member>>
  <2>1. y \in Names /\ y[1] = n /\ y[2] = member /\ tmp = y /\ n \notin damaged /\ ~(member < member)
    BY AtEntry, Bounds DEF WriteMember, EntryInv, Writing, TempInv, BodyInv, OutputOK
  <2>2. y \notin failed
    BY <2>1, ZenonT(30) DEF WriteMember, FailInv
  <2> HIDE DEF y
  <2>3. \A x \in Names : x # y => result'[x] = result[x] /\ tree'[x] = tree[x]
    BY <2>1 DEF WriteMember, NextMember, OutputOK, TreeOK, y
  <2>4. failed' \subseteq failed \union {y}
    BY <2>1 DEF WriteMember
  <2>5. result'[y] = "ok" => y[1] \notin damaged /\ y \notin failed' /\ tree'[y] \notin Untouched
    BY <2>1, <2>2, NotUntouched DEF WriteMember, NextMember, OutputOK, TreeOK, y
  <2>6. \A x \in Names : result'[x] = "ok" /\ op' = "extract" =>
           x[1] \notin damaged' /\ x \notin failed' /\ tree'[x] \notin Untouched
    BY <2>1, <2>3, <2>4, <2>5, OkKeeps DEF WriteMember
  <2> QED
    BY <2>6 DEF WriteMember, NextMember, OkInv, InBody
<1>16. TruncationNoticed'
  BY DEF WriteMember, NextMember, TruncationNoticed, EndInv, EntryInv, ControlOK, PlaceOK
<1> QED
  BY <1>1, <1>2, <1>3, <1>4, <1>5, <1>6, <1>7, <1>8, <1>9, <1>10, <1>11, <1>12, <1>13, <1>14, <1>15,
     <1>16

\* A link or a directory is made, or fails.
LEMMA SpecialKeeps ==
  ASSUME IInv, Special
  PROVE  IInv'
<1> USE DEF IInv, stream, body
<1>0. SpecialMade
  BY SpecialCases
<1>1. ControlOK'
  BY <1>0, ZenonT(30) DEF SpecialMade, Succeeds, Recoverable, Fatal, Stop, ControlOK
<1>2. PlaceOK'
  BY <1>0, Zenon DEF SpecialMade, Succeeds, Recoverable, Fatal, Stop, PlaceOK
<1>3. CountOK'
  BY <1>0, Bounds, AtEntry, DamageKeeps, SMTT(40) DEF SpecialMade, Succeeds, Recoverable, Fatal, Stop,
     CountOK, BodyInv, EntryInv, InBody, ControlOK, PlaceOK, Reading, Entries
<1>4. TreeOK'
  <2>1. <<n, 1>> \in Names /\ Absent \in Contents
    BY <1>0, AtEntry DEF SpecialMade, EntryInv, Writing, Contents, NoData
  <2> QED
    BY <1>0, <2>1, TreeSet, Zenon DEF SpecialMade, TreeOK
<1>5. OutputOK'
  BY <1>0, Bounds, AtEntry, ZenonT(30) DEF SpecialMade, Succeeds, Recoverable, Fatal, Stop, OutputOK, TempInv,
     ControlOK, PlaceOK, EntryInv, Reading, Writing
<1>6. StreamAligned'
  BY <1>0, Zenon DEF SpecialMade, Succeeds, Recoverable, Fatal, Stop, StreamAligned, ControlOK, PlaceOK,
     InBody, EntryInv
<1>7. EntryInv'
  BY <1>0, Zenon DEF SpecialMade, Succeeds, Recoverable, Fatal, Stop, EntryInv, InBody, Reading, Writing,
     ControlOK, PlaceOK, CountOK, Entries
<1>8. TempInv'
  BY <1>0, Zenon DEF SpecialMade, Succeeds, Recoverable, Fatal, Stop, TempInv, InBody, EntryInv, ControlOK,
     PlaceOK, NoTemp
<1>9. FreshInv'
  BY <1>0, AtEntry, Bounds, Zenon DEF SpecialMade, Succeeds, Recoverable, Fatal, Stop, FreshInv, EntryInv,
     InBody, Reading, CountOK, PlaceOK
<1>10. BodyInv'
  BY <1>0, AtEntry, Bounds, ZenonT(30) DEF SpecialMade, Succeeds, Recoverable, Fatal, Stop, BodyInv, FreshInv,
     InBody, EntryInv, Reading, Writing, CountOK, ControlOK, PlaceOK, Entries
<1>11. EndInv'
  BY <1>0, AtEntry, Zenon DEF SpecialMade, Succeeds, Recoverable, Fatal, Stop, EndInv, EntryInv, ControlOK,
     PlaceOK, OutputOK, StreamAligned, InBody, Reading, Writing
<1>12. TreeInv'
  <2>1. pc \notin Reading /\ pc' \notin Reading /\ <<n, 1>> \in Names
    BY <1>0, AtEntry, Zenon DEF SpecialMade, Succeeds, Recoverable, Fatal, Stop, EntryInv, Reading, Writing
  <2>2. UNCHANGED <<n, kind, damaged, size>>
    BY <1>0 DEF SpecialMade
  <2>3. CASE tree' = tree
    BY <2>1, <2>2, <2>3, TreeKeeps
  <2>4. CASE \E c : Sound(c) /\ tree' = [tree EXCEPT ![<<n, 1>>] = c]
    BY <2>1, <2>2, <2>4, TreePut, ZenonT(30)
  <2>5. Sound(Absent)
    BY DEF Sound, NoData
  <2> QED
    BY <1>0, <2>3, <2>4, <2>5, Zenon DEF SpecialMade
<1>13. SeenInv'
  <2>1. n \in Nat /\ <<n, 1>> \in Names /\ kind # "directory" /\ n' = n /\ kind' = kind
    BY <1>0, AtEntry DEF SpecialMade, EntryInv, Writing
  <2>2. \A x \in Names : result[x] # "none" /\ x[1] # n => result'[x] = result[x]
    BY <1>0, NameParts, ZenonT(30) DEF SpecialMade, Recoverable, Succeeds, Fatal, Stop, OutputOK
  <2>3. \A x \in Names : result[x] = "none" /\ x[1] # n => result'[x] = "none"
    BY <1>0, NameParts, ZenonT(40) DEF SpecialMade, Recoverable, Succeeds, Fatal, Stop, OutputOK
  <2>4. pc' = "done" \/ (pc' = "type" /\ result'[<<n, 1>>] # "none")
    BY <1>0, <2>1, Zenon DEF SpecialMade, Recoverable, Succeeds, Fatal, Stop, OutputOK
  <2>5. \A x \in Names : x[1] \in Nat
    BY NameParts
  <2> QED
    BY <2>1, <2>2, <2>3, <2>4, <2>5 DEF SeenInv, Reading
<1>14. FailInv'
  <2>1. n \in Nat /\ <<n, 1>> \in Names /\ <<n, 1>>[1] = n
    BY <1>0, AtEntry DEF SpecialMade, EntryInv, Writing
  <2>2. CASE Succeeds /\ UNCHANGED failed
    BY <1>0, <2>1, <2>2 DEF SpecialMade, Succeeds, FailInv, InBody, OutputOK
  <2>3. CASE (Recoverable \/ Fatal) /\ failed' = failed \union {<<n, 1>>}
    BY <1>0, <2>1, <2>3 DEF SpecialMade, Recoverable, Fatal, Stop, FailInv, InBody, OutputOK
  <2> QED
    BY <1>0, <2>2, <2>3, ZenonT(30) DEF SpecialMade
<1>15. OkInv'
  <2> DEFINE y == <<n, 1>>
  <2>1. y \in Names /\ y[1] = n /\ n \notin damaged /\ kind # "directory"
    BY <1>0, AtEntry DEF SpecialMade, EntryInv, Writing, OkInv
  <2>2. y \notin failed
    BY <1>0, <2>1, ZenonT(30) DEF SpecialMade, FailInv
  <2>3. /\ failed' \subseteq failed \union {y} /\ pc' \in {"type", "done"}
        /\ UNCHANGED <<op, field, kind, damaged>>
    BY <1>0, ZenonT(30) DEF SpecialMade, Succeeds, Recoverable, Fatal, Stop
  <2> HIDE DEF y
  <2>4. \A x \in Names : x # y => tree'[x] = tree[x] /\ (result'[x] = "ok" => result[x] = "ok")
    BY <1>0, <2>1, Zenon DEF SpecialMade, Succeeds, Recoverable, Fatal, Stop, OutputOK, TreeOK, y
  <2>5. result'[y] = "ok" => y \notin failed' /\ tree'[y] \notin Untouched
    <3>1. CASE Succeeds /\ UNCHANGED failed
      BY <1>0, <2>1, <2>2, <3>1, Zenon DEF SpecialMade, Succeeds, Recoverable, Fatal, Stop, TreeOK,
         OutputOK, y
    <3>2. CASE Recoverable \/ Fatal
      BY <2>1, <3>2 DEF Recoverable, Fatal, Stop, OutputOK, y
    <3> QED
      BY <1>0, <3>1, <3>2, Zenon DEF SpecialMade
  <2>6. \A x \in Names : result'[x] = "ok" /\ op' = "extract" =>
           x[1] \notin damaged' /\ x \notin failed' /\ tree'[x] \notin Untouched
    BY <2>1, <2>3, <2>4, <2>5 DEF OkInv
  <2> QED
    BY <2>3, <2>6, ZenonT(30) DEF OkInv, InBody
<1>16. TruncationNoticed'
  BY <1>0, ZenonT(30) DEF SpecialMade, Succeeds, Recoverable, Fatal, Stop, TruncationNoticed, EndInv, EntryInv,
     ControlOK, PlaceOK
<1> QED
  BY <1>1, <1>2, <1>3, <1>4, <1>5, <1>6, <1>7, <1>8, <1>9, <1>10, <1>11, <1>12, <1>13, <1>14, <1>15,
     <1>16

\* A kill leaves everything as it is, the temporary file included.
LEMMA KillKeeps ==
  ASSUME IInv, Kill
  PROVE  IInv'
<1> USE DEF IInv, stream, body
<1>1. ControlOK'
  BY DEF Kill, ControlOK
<1>2. PlaceOK'
  BY DEF Kill, PlaceOK
<1>3. CountOK'
  BY Bounds, AtEntry, DamageKeeps, Zenon DEF Kill, CountOK, BodyInv, EntryInv, InBody, ControlOK, PlaceOK,
     Reading, Entries
<1>4. TreeOK'
  BY DEF Kill, TreeOK
<1>5. OutputOK'
  BY Bounds, AtEntry DEF Kill, OutputOK, TempInv, ControlOK, PlaceOK, EntryInv, Reading, Writing
<1>6. StreamAligned'
  BY DEF Kill, StreamAligned, ControlOK, PlaceOK, InBody, EntryInv
<1>7. EntryInv'
  BY DEF Kill, EntryInv, InBody, Reading, Writing, ControlOK, PlaceOK, CountOK, Entries
<1>8. TempInv'
  BY DEF Kill, TempInv, InBody, EntryInv, ControlOK, PlaceOK, NoTemp
<1>9. FreshInv'
  BY AtEntry, Bounds DEF Kill, FreshInv, EntryInv, InBody, Reading, CountOK, PlaceOK
<1>10. BodyInv'
  BY AtEntry, Bounds DEF Kill, BodyInv, FreshInv, InBody, EntryInv, Reading, Writing, CountOK,
     ControlOK, PlaceOK, Entries
<1>11. EndInv'
  BY AtEntry DEF Kill, EndInv, EntryInv, ControlOK, PlaceOK, OutputOK, StreamAligned, InBody,
     Reading, Writing
<1>12. TreeInv'
  BY TreeKeeps DEF Kill, Reading
<1>13. SeenInv'
  BY AtEntry, Bounds, ZenonT(30) DEF Kill, SeenInv, EntryInv, InBody, Reading, Writing, ControlOK, PlaceOK,
     OutputOK, CountOK
<1>14. FailInv'
  BY AtEntry, Bounds DEF Kill, FailInv, EntryInv, InBody, Reading, Writing, ControlOK, PlaceOK,
     OutputOK, CountOK
<1>15. OkInv'
  BY AtEntry, Bounds, ZenonT(30) DEF Kill, OkInv, BodyInv, SeenInv, FailInv, EntryInv, InBody, Reading, Writing,
     ControlOK, PlaceOK, OutputOK, CountOK
<1>16. TruncationNoticed'
  BY DEF Kill, TruncationNoticed, EndInv, EntryInv, ControlOK, PlaceOK
<1> QED
  BY <1>1, <1>2, <1>3, <1>4, <1>5, <1>6, <1>7, <1>8, <1>9, <1>10, <1>11, <1>12, <1>13, <1>14, <1>15,
     <1>16
=============================================================================
