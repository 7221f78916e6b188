----------------------------- MODULE MCEventMgr -----------------------------
(* A small instance of EventMgr for TLC.  Process ids are compared for      *)
(* equality only, so that they may be exchanged for each other.             *)
EXTENDS EventMgr, TLC

CONSTANTS pa, pb

MCPids == {pa, pb}
MCSymmetry == Permutations(MCPids)
=============================================================================
