------------------------------- MODULE Symbols ------------------------------
(***************************************************************************)
(* The functions of an image (modulemgr.cpp): they are taken from its      *)
(* symbols, or from the export table of its file if it has none, and are   *)
(* looked up by name and by offset.  SymLoadDialog does the same for one   *)
(* file and writes the offsets it finds by name to the symbol file.        *)
(*                                                                         *)
(* Offsets are ULONGs, and their differences are ints.  dbghelp reports    *)
(* the symbols one by one in any order.                                    *)
(***************************************************************************)
EXTENDS Integers, Sequences, SequencesExt, FiniteSets, FiniteSetsExt

CONSTANTS MaxInt,    \* the largest int, 0x7fffffff
          Names,     \* names of functions
          NoName,    \* a NULL pointer for a name
          Exports,   \* export tables: names, ordinals and functions from 1, and
                     \* what is read as a name beyond the names
          MaxFuncs   \* bound: symbols of the image

ULONG == 0..(2 * MaxInt + 1)

ASSUME MaxIntAssumption == MaxInt \in Nat \ {0}

\* What is read for an address is a ULONG, also behind the end of a table with
\* fewer functions than names.
ASSUME ExportsAssumption ==
    \A table \in Exports : /\ Len(table.names) \in Nat
                          /\ \A i \in 1..Len(table.names) : table.functions[i] \in ULONG

VARIABLES
    exports,          \* the export table of the file
    funcList,         \* the functions found so far
    m_bLoadedSymbol,  \* the image is loaded
    m_NamedFunctions, \* the functions of the image
    m_NamedFuncMaps   \* their offsets by name

symbolVars == <<exports, funcList, m_bLoadedSymbol, m_NamedFunctions, m_NamedFuncMaps>>

\* The difference of two ULONGs as an int: it wraps, and then its upper half is
\* negative.
Difference(a, b) ==
    LET wrapped == IF a >= b THEN a - b ELSE a - b + 2 * (MaxInt + 1)
    IN IF wrapped > MaxInt THEN wrapped - 2 * (MaxInt + 1) ELSE wrapped

-----------------------------------------------------------------------------
(* Loading. *)

\* EnumPEExport reads the i-th name through the i-th ordinal, and takes the
\* i-th address; an ordinal may lead beyond the names.  Nothing follows a name
\* that cannot be read.
NameOf(table, i) == IF table.ordinals[i] <= Len(table.names)
                    THEN table.names[table.ordinals[i]] ELSE table.beyond

EnumPEExport(table) ==
    LET unread == {i \in 1..Len(table.names) : NameOf(table, i) = NoName}
        count == IF unread = {} THEN Len(table.names) ELSE Min(unread) - 1
    IN [i \in 1..count |-> [name |-> NameOf(table, i), offset |-> table.functions[i]]]

\* EnumSymCallBack: only public symbols of code are kept.
EnumSymCallBack(name, offset, public) ==
    /\ ~m_bLoadedSymbol
    /\ Len(funcList) < MaxFuncs
    /\ funcList' = IF public THEN Append(funcList, [name |-> name, offset |-> offset])
                             ELSE funcList
    /\ UNCHANGED <<exports, m_bLoadedSymbol, m_NamedFunctions, m_NamedFuncMaps>>

\* Mutant: of functions of one name, the first stays.
Mutant_FuncMap(list) ==
    [name \in {list[i].name : i \in 1..Len(list)} |->
       list[Min({i \in 1..Len(list) : list[i].name = name})].offset]

\* The map of a list: of functions of one name, the last stays.
FuncMap(list) ==
    [name \in {list[i].name : i \in 1..Len(list)} |->
       list[Max({i \in 1..Len(list) : list[i].name = name})].offset]

\* QueuedLoadImage and OnQueuedAddImage, when dbghelp has no more symbols.
OnQueuedAddImage ==
    /\ ~m_bLoadedSymbol
    /\ m_bLoadedSymbol' = TRUE
    /\ LET list == IF funcList # <<>> THEN funcList ELSE EnumPEExport(exports) IN
         /\ m_NamedFunctions' = list
         /\ m_NamedFuncMaps' = FuncMap(list)
    /\ UNCHANGED <<exports, funcList>>

-----------------------------------------------------------------------------
(* Looking up. *)

\* CUniqueImage::FindFunctionOffsetByName
FindFunctionOffsetByName(name) ==
    IF name \in DOMAIN m_NamedFuncMaps THEN m_NamedFuncMaps[name] ELSE 0

\* Mutant: the last of the closest ones.
Mutant_FindClosestFunction(list, Offset) ==
    LET found[i \in 0..Len(list)] ==
          IF i = 0 THEN [delta |-> MaxInt, idx |-> 0]
          ELSE LET off == Difference(Offset, list[i].offset)
               IN  IF off >= 0 /\ off <= found[i - 1].delta THEN [delta |-> off, idx |-> i]
                   ELSE found[i - 1]
    IN  found[Len(list)].idx

\* CUniqueImage::FindClosestFunction: the index it settles on, 0 for none.
FindClosestFunction(list, Offset) ==
    LET found[i \in 0..Len(list)] ==
          IF i = 0 THEN [delta |-> MaxInt, idx |-> 0]
          ELSE LET off == Difference(Offset, list[i].offset)
               IN  IF off >= 0 /\ off < found[i - 1].delta THEN [delta |-> off, idx |-> i]
                   ELSE found[i - 1]
    IN  found[Len(list)].idx

\* The offset of a name in the file SymLoadDialog writes.
SymbolFileOffset(list, name) ==
    LET offset[i \in 0..Len(list)] ==
          IF i = 0 THEN 0 ELSE IF list[i].name = name THEN list[i].offset ELSE offset[i - 1]
    IN  offset[Len(list)]

-----------------------------------------------------------------------------
InitSymbols ==
    /\ exports \in Exports
    /\ funcList = <<>>
    /\ m_bLoadedSymbol = FALSE
    /\ m_NamedFunctions = <<>>
    /\ m_NamedFuncMaps = [name \in {} |-> 0]

NextSymbols ==
    \/ \E name \in Names, offset \in ULONG, public \in BOOLEAN :
         EnumSymCallBack(name, offset, public)
    \/ OnQueuedAddImage

SpecSymbols == InitSymbols /\ [][NextSymbols]_symbolVars

-----------------------------------------------------------------------------
(* Properties. *)

\* In an image of less than half the address range, the function an address
\* is attributed to is the one that starts nearest before it, and the first
\* of several that start there; none if all start behind it.
ClosestIsNearest ==
    LET list == m_NamedFunctions IN
    \A Offset \in {o \in ULONG : o < MaxInt} :
      (\A i \in 1..Len(list) : list[i].offset <= MaxInt) =>
        LET before == {i \in 1..Len(list) : list[i].offset <= Offset}
            nearest == {i \in before : \A j \in before : list[j].offset <= list[i].offset}
        IN FindClosestFunction(list, Offset) =
             IF before = {} THEN 0 ELSE Min(nearest)

\* What the symbol file says of a function is what the image says, also for
\* names that occur twice.
FileAgreesWithImage ==
    \A name \in Names :
      SymbolFileOffset(m_NamedFunctions, name) = FindFunctionOffsetByName(name)
=============================================================================
