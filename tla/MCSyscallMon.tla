---------------------------- MODULE MCSyscallMon ----------------------------
(* Small instances of SyscallMon for TLC. *)
EXTENDS SyscallMon

CONSTANTS a, b

MCInstances == {a, b}
MCOne == {a}
=============================================================================
