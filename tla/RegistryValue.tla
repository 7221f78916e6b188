---------------------------- MODULE RegistryValue ---------------------------
(***************************************************************************)
(* How the data of a registry value is decoded (registry.cpp): numbers of  *)
(* either byte order, strings, and bytes.  Data is the sequence of bytes   *)
(* the event has, which may be less than the value's own size.  A ULONG64  *)
(* is the sequence of its eight bytes, the lowest first.                   *)
(***************************************************************************)
EXTENDS Naturals, Sequences, SequencesExt

NUL == 0
NumberTypes == {"REG_DWORD_LITTLE_ENDIAN", "REG_DWORD_BIG_ENDIAN", "REG_QWORD"}
StringTypes == {"REG_SZ", "REG_EXPAND_SZ", "REG_MULTI_SZ"}

Fill(byte, count) == [i \in 1..count |-> byte]

\* swapInt32, and the conversion of its int32_t to a ULONG64: the sign fills
\* the upper half.
SwapInt32(bytes) == Reverse(bytes) \o Fill(IF bytes[1] >= 128 THEN 255 ELSE 0, 4)

\* CRegKeyValueNumber takes eight bytes of what has them, of any type, and four
\* of what has four; less is no number.
NumberData(t, bytes) ==
    IF Len(bytes) >= 8 THEN SubSeq(bytes, 1, 8)
    ELSE IF Len(bytes) < 4 THEN Fill(0, 8)
    ELSE IF t = "REG_DWORD_LITTLE_ENDIAN" THEN SubSeq(bytes, 1, 4) \o Fill(0, 4)
    ELSE SwapInt32(SubSeq(bytes, 1, 4))

\* CRegKeyValueString walks as many chars as the data has WCHARs, and ends a
\* piece at each NUL and at the last one.
StringData(bytes) ==
    LET half == Len(bytes) \div 2
        walk[i \in 0..half] ==
          IF i = 0 THEN [start |-> 1, pieces |-> <<>>]
          ELSE IF bytes[i] = NUL \/ i = half
          THEN [start |-> i + 1,
                pieces |-> Append(walk[i - 1].pieces, SubSeq(bytes, walk[i - 1].start, i - 1))]
          ELSE walk[i - 1]
    IN walk[half].pieces

\* Mutant: a string or bytes that fill their size seem to be cut.
Mutant_CRegKeyValue(t, size, bytes) ==
    LET more == Len(bytes) <= size IN
      IF t \in NumberTypes THEN [kind |-> "number", number |-> NumberData(t, bytes)]
      ELSE IF t \in StringTypes THEN [kind |-> "string", pieces |-> StringData(bytes), more |-> more]
      ELSE [kind |-> "binary", bytes |-> bytes, more |-> more]

\* The choice of the class, as in all events with values, and what it makes of
\* the data; size is the value's own size.  A number does not say if it is cut.
CRegKeyValue(t, size, bytes) ==
    LET more == Len(bytes) < size IN
      IF t \in NumberTypes THEN [kind |-> "number", number |-> NumberData(t, bytes)]
      ELSE IF t \in StringTypes THEN [kind |-> "string", pieces |-> StringData(bytes), more |-> more]
      ELSE [kind |-> "binary", bytes |-> bytes, more |-> more]
=============================================================================
