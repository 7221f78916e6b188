---------------------------- MODULE StringTable -----------------------------
(***************************************************************************)
(* What CStringMgr promises its callers: one string object for each text,  *)
(* whoever asks and in whatever order.  A call is asked and answered; it   *)
(* is answered in one step.                                                *)
(***************************************************************************)
EXTENDS Naturals

CONSTANTS Threads,  \* threads that ask for strings
          Texts,    \* texts, as they are kept
          NoText    \* a thread that has asked for nothing

VARIABLES table,    \* the object of each text asked for so far
          asked,    \* asked[t]: the text t waits for
          answer    \* answer[t]: the object t was given, 0 before

tvars == <<table, asked, answer>>

TableInit ==
    /\ table = [x \in {} |-> 0]
    /\ asked = [t \in Threads |-> NoText]
    /\ answer = [t \in Threads |-> 0]

Ask(t, text) ==
    /\ asked[t] = NoText
    /\ asked' = [asked EXCEPT ![t] = text]
    /\ answer' = [answer EXCEPT ![t] = 0]
    /\ UNCHANGED table

\* The answer is the object the table has, or one that no other text has.
Answer(t) ==
    /\ asked[t] # NoText
    /\ asked' = [asked EXCEPT ![t] = NoText]
    /\ answer'[t] \in Nat \ {0}
    /\ answer' = [answer EXCEPT ![t] = answer'[t]]
    /\ \/ /\ asked[t] \in DOMAIN table
          /\ table[asked[t]] = answer'[t]
          /\ UNCHANGED table
       \/ /\ asked[t] \notin DOMAIN table
          /\ \A x \in DOMAIN table : table[x] # answer'[t]
          /\ table' = [x \in DOMAIN table \cup {asked[t]} |->
                         IF x = asked[t] THEN answer'[t] ELSE table[x]]

TableNext == \E t \in Threads : Answer(t) \/ \E text \in Texts : Ask(t, text)

TableSpec == TableInit /\ [][TableNext]_tvars
=============================================================================
