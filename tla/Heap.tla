-------------------------------- MODULE Heap --------------------------------
(***************************************************************************)
(* What an allocator promises: the blocks its callers hold are apart from  *)
(* each other and as large as was asked for, and no call changes a block   *)
(* it was not given.                                                       *)
(***************************************************************************)
EXTENDS Naturals

VARIABLE blocks     \* where each block is, its size and what was asked for

Apart == \A b, c \in blocks : b # c => b.at + b.size <= c.at \/ c.at + c.size <= b.at

Enough == \A b \in blocks : b.size >= b.need

Init == blocks = {}

\* What a call takes away, and what it gives.
Gone == blocks \ blocks'
Given == blocks' \ blocks

Allocate == Gone = {} /\ \E c \in Given : Given = {c}

Release == Given = {}

Resize == \E b \in Gone, c \in Given : b.at = c.at /\ Gone = {b} /\ Given = {c}

\* A block becomes one or more blocks inside it.
Divide == \E b \in Gone :
            /\ Gone = {b} /\ Given # {}
            /\ \A c \in Given : b.at <= c.at /\ c.at + c.size <= b.at + b.size

Next == (Allocate \/ Release \/ Resize \/ Divide) /\ (Apart /\ Enough)'

Spec == Init /\ [][Next]_blocks
=============================================================================
