---------------------------- MODULE ArchiveInputs ----------------------------
(* Inputs for ArchiveCommand: what the arguments of a run expand to. *)
EXTENDS Naturals

In(a, size, ext) == [arg |-> a, special |-> FALSE, size |-> size, ext |-> ext]
Dir(a) == [arg |-> a, special |-> TRUE, size |-> 0, ext |-> 0]

\* Mixes of small, plain and large files of two extensions, with and without a
\* directory, chosen so that there are up to two groups, a group of one, and
\* more jobs than the window.
MCConcurrentInputs ==
  {<<Dir(1), In(1, 1, 1), In(1, 2, 2), In(1, 1, 1), In(1, 1, 2), In(1, 4, 1)>>,
   <<In(1, 1, 1), In(2, 2, 2), In(3, 1, 1), In(4, 3, 2), In(5, 3, 1)>>,
   <<In(1, 2, 1), In(2, 2, 1), In(3, 1, 2), In(4, 3, 1)>>,
   <<In(1, 4, 1), In(2, 1, 1), In(3, 4, 1), In(4, 3, 1)>>,
   <<In(1, 2, 1), Dir(2)>>,
   <<Dir(1)>>}

\* Three files of every kind of size as arguments of their own, and small ones in
\* directories, where a fatal error leaves the rest of the argument.
MCStreamingInputs ==
  {<<In(1, a, 1), In(2, b, 1), In(3, c, 1)>> : a, b, c \in {1, 2, 4}}
  \union {<<Dir(1), In(1, a, 1), In(1, b, 1), In(2, 2, 1)>> : a, b \in {1, 2}}
  \union {<<Dir(1), In(1, a, 1), Dir(2), In(2, b, 1), In(2, 1, 1)>> : a, b \in {1, 2}}
=============================================================================
