---------------------------- MODULE RegistryQuery ---------------------------
(***************************************************************************)
(* What the event of a registry query takes from the reply of the system   *)
(* (EventMgr.cpp, OnRg...; Event.cpp, CUniqueEvent_Query...; nt.h).  The   *)
(* driver copies the reply, or the first part of it, into its message.     *)
(* The reply is a structure of the query's class, with a name right behind *)
(* its fields, and for some classes a part (data, or a class name) where   *)
(* its fields say.  Positions are in bytes from the start of the reply.    *)
(*                                                                         *)
(* Sizes and positions in the reply are what its fields hold: any ULONG,   *)
(* as a query that failed leaves its buffer as it was.  CopySize is small, *)
(* the driver's choice, so that it does not overflow a pointer.  The       *)
(* process of the message is known; EventMgr has the messages of others.   *)
(***************************************************************************)
EXTENDS Integers, FiniteSets

CONSTANTS Sizes,    \* numbers of bytes: copied, and of the message
          Lengths,  \* NameLength, and DataLength or ClassLength
          Offsets,  \* DataOffset or ClassOffset
          ULONG_MAX \* the largest ULONG

ASSUME SizesAssumption == Sizes \subseteq Nat /\ Lengths \subseteq Nat /\ Offsets \subseteq Nat
ASSUME ULONGAssumption == ULONG_MAX \in Nat /\ ULONG_MAX > 44  \* it is 2^32 - 1

VARIABLES
    msg,    \* the message to handle; one for each behaviour, as a message and
            \* its event have nothing to do with others
    event   \* the event made of it

vars == <<msg, event>>

ValueClasses == {"KeyValueBasic", "KeyValueFull", "KeyValuePartial"}
KeyClasses == {"KeyBasic", "KeyNode", "KeyFull", "KeyName", "KeyCached", "KeyVirtualization"}
Classes == ValueClasses \cup KeyClasses \cup {"other"}

\* arrived is how much of CopyData the message has.  Name and part are fields
\* of the reply; SetValueKey has a part only, the data set.
Message == [class : Classes \cup {"SetValue"}, arrived : Sizes, CopySize : Sizes,
            NameLength : Lengths, Offset : Offsets, Length : Lengths]

\* The bytes a reply needs to have for its fields to be read.
Header ==
    [KeyValueBasic |-> 12, KeyValueFull |-> 20, KeyValuePartial |-> 12,
     KeyBasic |-> 16, KeyNode |-> 24, KeyFull |-> 44, KeyName |-> 4,
     KeyCached |-> 40, KeyVirtualization |-> 4, other |-> 0]

\* The fields end there; the structure of KeyCached is padded.
FieldsEnd(class) == IF class = "KeyCached" THEN 36 ELSE Header[class]

WithName == {"KeyValueBasic", "KeyValueFull", "KeyBasic", "KeyNode", "KeyName"}
WithPart == {"KeyValueFull", "KeyValuePartial", "KeyNode", "KeyFull"}

\* The event keeps a name and a class name as text, data as bytes.
PartIsText(class) == class \in {"KeyNode", "KeyFull"}

\* A part is where the fields say, except that of KeyValuePartial.
PartAt(m) == IF m.class = "KeyValuePartial" THEN 12 ELSE m.Offset

\* Mutant: the length is compared with all that was copied.
Mutant_GetByteArrayMaxLength(size, myOffset, myLength) ==
    IF myOffset = ULONG_MAX \/ size <= myOffset THEN 0
    ELSE IF myLength <= size THEN myLength ELSE size

\* Mutant: the last byte is never taken.
Mutant_GetByteArrayMaxLengthShort(size, myOffset, myLength) ==
    IF myOffset = ULONG_MAX \/ size <= myOffset THEN 0
    ELSE IF myLength < size - myOffset THEN myLength ELSE size - myOffset - 1

\* How much of a part was copied.
GetByteArrayMaxLength(size, myOffset, myLength) ==
    IF myOffset = ULONG_MAX \/ size <= myOffset THEN 0
    ELSE IF myLength <= size - myOffset THEN myLength ELSE size - myOffset

Name(m) == IF m.class \in WithName
           THEN GetByteArrayMaxLength(m.CopySize, Header[m.class], m.NameLength) ELSE 0

Part(m) == IF m.class \in WithPart
           THEN GetByteArrayMaxLength(m.CopySize, PartAt(m), m.Length) ELSE 0

\* Text is made of pairs of bytes.
Chars(length) == 2 * (length \div 2)

\* Text is looked up by its length, but hashing it (StringMgr.cpp) looks at the
\* character behind it before it looks at the length: a text without a NUL is
\* read on to there.  If nothing of a text was copied, it is not looked up.
Behind(at, length) == IF length = 0 THEN {} ELSE {at + Chars(length)}

\* The event of a reply: how long its name and its part are, which bytes of
\* the copy its contents are (kept), and where a character may be read that is
\* not part of them (peeked).  A value of text or bytes shows "...More" if its
\* DataLength is more than it has.
Parsed(m) ==
    LET part == IF PartIsText(m.class) THEN Chars(Part(m)) ELSE Part(m) IN
      [kind |-> m.class, name |-> Chars(Name(m)), part |-> part,
       more |-> m.class \in {"KeyValueFull", "KeyValuePartial"} /\ Part(m) < m.Length,
       kept |-> {<<0, FieldsEnd(m.class)>>, <<Header[m.class], Header[m.class] + Chars(Name(m))>>}
                  \cup (IF part > 0 THEN {<<PartAt(m), PartAt(m) + part>>} ELSE {}),
       peeked |-> Behind(Header[m.class], Name(m))
                    \cup (IF PartIsText(m.class) THEN Behind(PartAt(m), Part(m)) ELSE {})]

\* A reply too short for its class gives an event without its contents.
Plain == [kind |-> "plain", name |-> 0, part |-> 0, more |-> FALSE,
          kept |-> {}, peeked |-> {}]

NoEvent == [Plain EXCEPT !.kind = "none"]
Dropped == [Plain EXCEPT !.kind = "dropped"]

Complete(m) == m.CopySize <= m.arrived

\* The handlers of queries, with the constructors of their events.
OnRgQuery(m, classes) ==
    /\ m.class \in classes
    /\ UNCHANGED msg
    /\ event' = IF ~Complete(m) THEN Dropped
                ELSE IF m.class # "other" /\ m.CopySize >= Header[m.class] THEN Parsed(m)
                ELSE Plain

OnRgQueryValueKey(m) == OnRgQuery(m, ValueClasses \cup {"other"})
OnRgQueryKey(m) == OnRgQuery(m, KeyClasses \cup {"other"})

\* Length is DataSize here, and all that was copied is data.
OnRgSetValueKey(m) ==
    /\ m.class = "SetValue"
    /\ UNCHANGED msg
    /\ event' = IF ~Complete(m) THEN Dropped
                ELSE [kind |-> "SetValue", name |-> 0, part |-> m.CopySize,
                      more |-> m.CopySize < m.Length,
                      kept |-> {<<0, m.CopySize>>}, peeked |-> {}]

Init == msg \in Message /\ event = NoEvent

Next ==
    /\ event = NoEvent
    /\ OnRgQueryValueKey(msg) \/ OnRgQueryKey(msg) \/ OnRgSetValueKey(msg)

Spec == Init /\ [][Next]_vars

-----------------------------------------------------------------------------
(* Properties. *)

\* Whatever the fields of a reply hold, and however little of it was copied:
\* an event keeps only bytes that the message has, and the character behind a
\* text is read at most right behind the copy.  There the copy, a string, has
\* one byte of its own, and the character is two.
KeptIsCopied ==
    /\ event.kept # {} => msg.CopySize <= msg.arrived
    /\ \A r \in event.kept : 0 <= r[1] /\ r[1] <= r[2] /\ r[2] <= msg.CopySize
    /\ \A p \in event.peeked : p <= msg.CopySize

\* If a name or a part is within what was copied, the event has all of it (of
\* text, the whole characters).
CopiedPartsKept ==
    event.kind \in Classes =>
      /\ msg.class \in WithName /\ Header[msg.class] + msg.NameLength <= msg.CopySize =>
           event.name = Chars(msg.NameLength)
      /\ msg.class \in WithPart /\ PartAt(msg) + msg.Length <= msg.CopySize
           /\ PartAt(msg) # ULONG_MAX =>
           event.part = IF PartIsText(msg.class) THEN Chars(msg.Length) ELSE msg.Length

\* A value says that it has more data exactly if its data goes on behind what
\* was copied.
MoreIsShown ==
    event.kind \in {"KeyValueFull", "KeyValuePartial"} /\ msg.Length > 0 =>
      (event.more <=> \/ PartAt(msg) + msg.Length > msg.CopySize
                      \/ PartAt(msg) = ULONG_MAX)
=============================================================================
