---------------------------- MODULE MCModuleMgr -----------------------------
(* Two files of different sizes, so that an image can be mapped where a     *)
(* shorter one was.                                                         *)
EXTENDS ModuleMgr
CONSTANTS p1, p2, system, a, b
MCSize(file) == IF file = a THEN 2 ELSE 4
=============================================================================
