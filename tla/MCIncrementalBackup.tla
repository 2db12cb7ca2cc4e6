------------------------- MODULE MCIncrementalBackup -------------------------
(* Contents that share a chunk within and between files, fill more than one   *)
(* pack, or have the same size.                                                *)
EXTENDS IncrementalBackup

MCContents == {<<1, 0, 1, 0, 1, 1, 1>>, <<1, 1, 1>>}
=============================================================================
