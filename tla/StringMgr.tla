----------------------------- MODULE StringMgr ------------------------------
(***************************************************************************)
(* CStringMgr (StringMgr.cpp): names and paths of events are kept once.    *)
(* GetString takes the lock, looks the text up, copies and inserts it if   *)
(* it is new, and gives the lock up.  The event constructors call it on    *)
(* the worker; the class has its own lock so that any thread may.          *)
(*                                                                         *)
(* A text is a sequence of characters of the length the caller gives,      *)
(* which for registry names is a byte count of the system and may cover a  *)
(* terminating NUL.  Both overloads are covered: the first has no NUL.     *)
(* Strings are never freed, and malloc does not fail.                      *)
(***************************************************************************)
EXTENDS Naturals, Sequences

CONSTANTS Threads,  \* threads that call GetString
          Nobody,   \* no thread, no text
          Texts     \* texts they ask for: sequences of characters, NUL is 0

ASSUME TextsAssumption == Texts \subseteq Seq(Nat)
ASSUME NobodyAssumption == Nobody \notin Threads \cup Seq(Nat)

VARIABLES
    step,       \* step[t]: where t is in GetString
    lock,     \* the thread in m_Lock
    m_StringMap,  \* the string object of each text
    strings,  \* the objects made so far
    request,  \* request[t]: the text t asks for
    result    \* result[t]: the object GetString returned to t, 0 for none

stringVars == <<step, lock, m_StringMap, strings, request, result>>

NUL == 0
Steps == {"idle", "lock", "find", "make", "unlock"}

\* What the string object holds: wcsncpy copies up to the first NUL and fills
\* the rest of the length with NUL.  The comparison of the map (same length,
\* wcsncmp) calls two texts the same if their copies are.
Copy(text) ==
    [i \in 1..Len(text) |-> IF \E j \in 1..i : text[j] = NUL THEN NUL ELSE text[i]]

Copies == {Copy(text) : text \in Texts}

Move(t, from, to) == step[t] = from /\ step' = [step EXCEPT ![t] = to]

GetString(t, text) ==
    /\ Move(t, "idle", "lock")
    /\ request' = [request EXCEPT ![t] = text]
    /\ result' = [result EXCEPT ![t] = 0]
    /\ UNCHANGED <<lock, m_StringMap, strings>>

\* Mutant: the lock lets everybody in.
Mutant_Lock(t) ==
    /\ Move(t, "lock", "find")
    /\ lock' = t
    /\ UNCHANGED <<m_StringMap, strings, request, result>>

\* A critical section lets its owner in again.
Lock(t) ==
    /\ Move(t, "lock", "find")
    /\ lock \in {Nobody, t}
    /\ lock' = t
    /\ UNCHANGED <<m_StringMap, strings, request, result>>

\* Mutant: a string that is found is returned at once.
Mutant_Found(t) ==
    /\ Copy(request[t]) \in DOMAIN m_StringMap
    /\ Move(t, "find", "idle")
    /\ result' = [result EXCEPT ![t] = m_StringMap[Copy(request[t])]]
    /\ UNCHANGED <<lock, m_StringMap, strings, request>>

\* Mutant: the comparison stops at the length of the entry.
Mutant_FoundPrefix(t) ==
    /\ Move(t, "find", "unlock")
    /\ \E x \in DOMAIN m_StringMap :
         /\ Len(x) <= Len(request[t])
         /\ SubSeq(Copy(request[t]), 1, Len(x)) = x
         /\ result' = [result EXCEPT ![t] = m_StringMap[x]]
    /\ UNCHANGED <<lock, m_StringMap, strings, request>>

Found(t) ==
    /\ Copy(request[t]) \in DOMAIN m_StringMap
    /\ Move(t, "find", "unlock")
    /\ result' = [result EXCEPT ![t] = m_StringMap[Copy(request[t])]]
    /\ UNCHANGED <<lock, m_StringMap, strings, request>>

NotFound(t) ==
    /\ Copy(request[t]) \notin DOMAIN m_StringMap
    /\ Move(t, "find", "make")
    /\ UNCHANGED <<lock, m_StringMap, strings, request, result>>

\* Mutant: the entry's key is the caller's text, not the copy.
Mutant_Make(t) ==
    /\ Move(t, "make", "unlock")
    /\ strings' = Append(strings, Copy(request[t]))
    /\ m_StringMap' = [x \in DOMAIN m_StringMap \cup {request[t]} |->
                         IF x = request[t] THEN Len(strings) + 1 ELSE m_StringMap[x]]
    /\ result' = [result EXCEPT ![t] = Len(strings) + 1]
    /\ UNCHANGED <<lock, request>>

\* The copy is made and becomes the key and the value of a new entry.
Make(t) ==
    /\ Move(t, "make", "unlock")
    /\ LET c == Copy(request[t]) IN
         /\ strings' = Append(strings, c)
         /\ m_StringMap' = [x \in DOMAIN m_StringMap \cup {c} |->
                              IF x = c THEN Len(strings) + 1 ELSE m_StringMap[x]]
    /\ result' = [result EXCEPT ![t] = Len(strings) + 1]
    /\ UNCHANGED <<lock, request>>

Unlock(t) ==
    /\ Move(t, "unlock", "idle")
    /\ lock' = Nobody
    /\ UNCHANGED <<m_StringMap, strings, request, result>>

InitStrings ==
    /\ step = [t \in Threads |-> "idle"]
    /\ lock = Nobody
    /\ m_StringMap = [x \in {} |-> 0]
    /\ strings = <<>>
    /\ request \in [Threads -> Texts]
    /\ result = [t \in Threads |-> 0]

Inside(t) == Found(t) \/ NotFound(t) \/ Make(t) \/ Unlock(t)

NextStrings == \E t \in Threads :
          \/ \E text \in Texts : GetString(t, text)
          \/ Lock(t)
          \/ Inside(t)

SpecStrings == InitStrings /\ [][NextStrings]_stringVars

\* A thread in the lock goes on: nothing in there waits.
FairSpecStrings == SpecStrings /\ \A t \in Threads : WF_stringVars(Inside(t))

-----------------------------------------------------------------------------
(* Properties. *)

\* Types of the variables: keys are copies, and entries name objects made.
TypeOKStrings ==
    /\ step \in [Threads -> Steps]
    /\ lock \in Threads \cup {Nobody}
    /\ strings \in Seq(Copies)
    /\ DOMAIN m_StringMap \subseteq Copies
    /\ \A x \in DOMAIN m_StringMap : m_StringMap[x] \in 1..Len(strings)
    /\ request \in [Threads -> Texts]
    /\ result \in [Threads -> 0..Len(strings)]

\* No text is kept twice, whatever the threads ask for at the same time.
OneCopy == \A i, j \in 1..Len(strings) : strings[i] = strings[j] => i = j

\* The object GetString has found or made holds the text asked for, and still
\* does however many strings are added after it.
RightString ==
    \A t \in Threads : result[t] # 0 => strings[result[t]] = Copy(request[t])

\* Whoever is in the lock leaves it: both ways through GetString unlock.
LockIsGivenUp == \A t \in Threads : (lock = t) ~> (lock # t)

\* GetString is one step for its callers: the look-up that finds the text, or
\* the insertion, under the lock, is the step that answers.
asked == [t \in Threads |->
            IF step[t] \in {"lock", "find", "make"} THEN Copy(request[t]) ELSE Nobody]

Table == INSTANCE StringTable WITH Texts <- Copies,
           NoText <- Nobody, table <- m_StringMap, answer <- result

Interns == Table!TableSpec
=============================================================================
