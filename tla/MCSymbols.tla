----------------------------- MODULE MCSymbols ------------------------------
(* Tables of two names and four functions, and of three each, of distinct  *)
(* names and addresses; each name has its own function.                     *)
EXTENDS Symbols
CONSTANTS f, g, h, noname, garbage
MCTables(n, numbers, beyond) ==
    {[names |-> SubSeq(<<f, g, h>>, 1, n), ordinals |-> o,
      functions |-> <<3, 1, 6, 4>>, beyond |-> beyond] :
        o \in {x \in [1..n -> numbers] : IsInjective(x)}}
MCExports ==
    MCTables(0, {}, noname) \cup MCTables(3, 1..3, noname)
      \cup UNION {MCTables(2, 1..4, b) : b \in {noname, garbage}}
=============================================================================
