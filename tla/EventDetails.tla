---------------------------- MODULE EventDetails ----------------------------
(***************************************************************************)
(* What an event shows of itself: the value of a registry query or of a    *)
(* value that is set, decoded from the data that came with the message     *)
(* (RegistryQuery has how much of it is kept), and the access an open call *)
(* asked for.                                                              *)
(***************************************************************************)
EXTENDS RegistryQuery, RegistryValue, DesiredAccess

CONSTANTS Bytes,     \* bytes of data
          Types,     \* types of values
          DataMessages,  \* bound: the messages whose data are looked at
          MaxData,   \* bound: the length of data looked at
          Masks      \* the access masks of open calls

ASSUME BytesAssumption == Bytes \subseteq 0..255
ASSUME MasksAssumption == Masks \subseteq SUBSET (0..31)

VARIABLE detail     \* what is shown

\* The message of a call that opens an object.
OpenMessage == [class : DOMAIN ObjectKinds, mask : Masks]

NoDetail == [kind |-> "none"]

InitDetails ==
    /\ msg \in Message \/ msg \in OpenMessage
    /\ event = NoEvent
    /\ detail = NoDetail

\* The query's handler makes an event, and the event a value of its data.
ShowValue ==
    /\ msg \in DataMessages /\ event.part <= MaxData
    /\ event.kind \in {"KeyValueFull", "KeyValuePartial", "SetValue"}
    /\ \E t \in Types, data \in [1..event.part -> Bytes] :
         detail' = [kind |-> "value", type |-> t, data |-> data,
                    value |-> CRegKeyValue(t, msg.Length, data)]
    /\ UNCHANGED <<msg, event>>

ShowAccess ==
    /\ msg.class \in DOMAIN ObjectKinds
    /\ detail' = [kind |-> "access", text |-> DesiredAccessString(msg.class, msg.mask)]
    /\ UNCHANGED <<msg, event>>

NextDetails ==
    /\ detail = NoDetail
    /\ \/ Next /\ UNCHANGED detail
       \/ ShowValue
       \/ ShowAccess

SpecDetails == InitDetails /\ [][NextDetails]_<<msg, event, detail>>

-----------------------------------------------------------------------------
(* Properties. *)

\* A value shown as a string or as bytes says that there is more exactly if
\* its data go on behind the part that came with the message, wherever the
\* reply says they are.  What came is shown as registry.cpp decodes it, of a
\* string only half; of that the property says nothing, nor of numbers, which
\* are never said to be cut.
MoreIsSaid ==
    detail.kind = "value" /\ detail.type \notin NumberTypes =>
      LET at == IF msg.class = "SetValue" THEN 0 ELSE PartAt(msg) IN
        detail.value.more <=>
          msg.Length > 0 /\ (at + msg.Length > msg.CopySize \/ at = ULONG_MAX)

PartRights(k) == ToSet(ObjectKinds[k].rights) \cup ToSet(CommonRights)

RightNamed(k, name) == CHOOSE r \in ObjectKinds[k].whole \cup PartRights(k) : r.name = name

\* What a reader takes the text to ask for.
BitsOfText(k, names) == UNION {RightNamed(k, n).bits : n \in ToSet(names)}

\* A text of names says exactly which rights were asked for, but for the
\* standard ones: STANDARD_RIGHTS_ALL is tested before the rights it is made
\* of, and for any of its bits, so that the text of a mask with one standard
\* right names all of them, unless the mask as a whole has a name.
NamesSayTheAccess ==
    detail.text.unknown = {} =>
      BitsOfText(msg.class, detail.text.names) =
        IF msg.mask \in {w.bits : w \in ObjectKinds[msg.class].whole}
             \/ msg.mask \cap StandardRightsAll = {}
          THEN msg.mask
          ELSE msg.mask \cup StandardRightsAll

\* Unless the mask as a whole has a name, what is shown as unknown is exactly
\* the bits of the mask that no single right has: a mask without them is never
\* shown as unknown, and one with them is never shown by its names.
UnknownIsUnnamed ==
    detail.text.unknown =
      IF msg.mask \in {w.bits : w \in ObjectKinds[msg.class].whole} THEN {}
      ELSE msg.mask \ UNION {r.bits : r \in PartRights(msg.class)}

\* No right is shown twice, and no two names of a text share a bit: a later
\* name of a bit that an earlier one covers is not shown.
NamesAreDisjoint ==
    LET names == detail.text.names IN
      \A i, j \in DOMAIN names :
        i # j => RightNamed(msg.class, names[i]).bits \cap RightNamed(msg.class, names[j]).bits = {}

\* What the text of an access mask says of its 32 bits, whatever the order of
\* the tests that made it and the bits they clear.
AccessIsSaid == detail.kind = "access" => NamesSayTheAccess /\ UnknownIsUnnamed /\ NamesAreDisjoint
=============================================================================
