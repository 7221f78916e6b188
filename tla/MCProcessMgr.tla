--------------------------- MODULE MCProcessMgr ----------------------------
(* A small instance of ProcessMgr for TLC. *)
EXTENDS ProcessMgr

MCPids == {8, 12}
MCUnqueryable == {12}
=============================================================================
