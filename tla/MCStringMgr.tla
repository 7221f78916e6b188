---------------------------- MODULE MCStringMgr -----------------------------
(* A text, the same text with a NUL counted in, and two texts that differ   *)
(* behind a NUL only.                                                       *)
EXTENDS StringMgr
CONSTANTS t1, t2, t3
MCTexts == {<<1>>, <<1, 0>>, <<0, 1>>, <<0, 0>>}
=============================================================================
