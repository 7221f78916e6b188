----------------------------- MODULE MCDlMalloc -----------------------------
(* Three regions of eight units, which hold a chunk or two each, or more   *)
(* where they are joined; requests of a small and of a large chunk, an     *)
(* alignment that leaves a leader, an array of two, and one that nearly    *)
(* fills a size_t, for which there is no room (ArraysFit holds of both).   *)
EXTENDS DlMalloc
MCAligned == {<<4, 2>>}
MCElements == {<<2, 2>>, <<60, 60>>}
=============================================================================
