--------------------------- MODULE MCEventDetails ---------------------------
(* Sizes at and around the ends of the structures; data of every length up *)
(* to eight bytes, cut or not, with bytes at both sides of the sign; every  *)
(* mask of a set of bits (rights every kind has, rights only some have, a   *)
(* standard one, a generic one and one without a name), and the masks that  *)
(* have a name of their own with up to a bit more and one fewer.            *)
EXTENDS EventDetails
MCSizes == {0, 4, 11, 12, 16, 20, 24, 25, 40, 44, 47}
MCLengths == {0, 1, 2, 3, 4, 8, 1000}
MCOffsets == {0, 12, 20, 24, 44, 46, 47, 1000}
MCTypes == {"REG_DWORD_LITTLE_ENDIAN", "REG_DWORD_BIG_ENDIAN", "REG_QWORD", "REG_SZ", "REG_BINARY"}
MCDataMessages ==
    {m \in Message : /\ m.arrived = 47 /\ m.NameLength = 0
                     /\ \/ m.class \in {"KeyValuePartial", "SetValue"} /\ m.Offset = 0
                        \/ m.class = "KeyValueFull" /\ m.CopySize \in {20, 24, 47}}
MCBits == {0, 1, 3, 5, 9, 13, 17, 24, 25, 31}
MCWholes == {w.bits : w \in UNION {ObjectKinds[k].whole : k \in DOMAIN ObjectKinds}}
MCMasks == SUBSET MCBits
             \cup {(w \cup {b}) \ {c} : w \in MCWholes, b \in 0..31, c \in 0..31}
             \cup MCWholes
=============================================================================
