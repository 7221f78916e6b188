--------------------------- MODULE MonitorProofs ----------------------------
(***************************************************************************)
(* The invariants of three components of the monitor process: its start,   *)
(* its strings and its modules.                                            *)
(*                                                                         *)
(* SyscallMon, for any set of processes.  The named mutex has one holder,  *)
(* and whoever has the service's name in its loader holds it until it      *)
(* exits, or could not create it.  A connected or loading process is one   *)
(* of these, so the process that unloads the driver or rewrites the        *)
(* service's key is another one only if one of the two has no mutex; a     *)
(* rejected process has no name and hence writes and unloads nothing of    *)
(* the service.                                                            *)
(*                                                                         *)
(* StringMgr, for any threads and any texts.  GetString keeps every text   *)
(* once, and is one step of StringTable for its callers.                   *)
(*                                                                         *)
(* ModuleMgr, for any processes, files and addresses and any number of     *)
(* mappings, calls and messages.  Every file has one image, and frames get *)
(* the modules they should; and the functions of an image are looked up    *)
(* right, for any symbols and export tables (Symbols).                     *)
(***************************************************************************)
EXTENDS SyscallMon, StringMgr, ModuleMgr, Symbols, SequenceTheorems,
        NaturalsInduction, WellFoundedInduction, TLAPS

-----------------------------------------------------------------------------
(* The monitor processes. *)

\* The named mutex has one holder, and no process that went on without it is
\* forgotten.
MutexUnique ==
    \A i, j \in Instances :
        /\ mutex[i] = "open" /\ mutex[j] = "open" => i = j
        /\ mutex[i] = "null" => denied

\* Initialize goes on, and the service is named, only with the mutex held or
\* not to be had.
Guarded ==
    \A i \in Instances :
        \/ pc[i] \in {"privilege", "connect", "install", "load", "reconnect", "init", "start"}
        \/ named[i] /\ pc[i] # "exit"
        => mutex[i] # "none"

\* From its connection to its Disconnect a process has the service's name.
Connected ==
    \A i \in Instances :
        port[i] => named[i] /\ pc[i] \in {"init", "start", "console", "wait", "disconnect"}

\* What Install's second half and the second Connect rely on.
Loading ==
    \A i \in Instances :
        /\ pc[i] \in {"load", "reconnect"} => named[i]
        /\ pc[i] = "load" /\ ~denied /\ ~lost => keys["SyscallMon"] = "driver"

\* The worker runs only after the managers were initialized.
Ready ==
    \A i \in Instances : pc[i] = "start" \/ worker[i] # "none" => inited[i]

\* Without an accident a loaded driver has a process that will unload it.
Owned ==
    loaded /\ ~accident =>
        \E i \in Instances :
            named[i] /\ pc[i] \in {"load", "reconnect", "init", "start", "console", "wait",
                                   "disconnect", "uninstall", "unload"}

IInv == TypeOK /\ MutexUnique /\ Guarded /\ Connected /\ Loading /\ Ready /\ Owned

-----------------------------------------------------------------------------
\* No process runs at first.
LEMMA InitIInv == Init => IInv
<1> SUFFICES ASSUME Init
             PROVE  IInv
  OBVIOUS
<1> USE DEF Init, Phases
<1>1. TypeOK
  BY DEF TypeOK
<1>2. MutexUnique
  BY DEF MutexUnique
<1>3. Guarded
  BY DEF Guarded
<1>4. Connected
  BY DEF Connected
<1>5. Loading
  BY DEF Loading
<1>6. Ready
  BY DEF Ready
<1>7. Owned
  BY DEF Owned
<1>8. QED
  BY <1>1, <1>2, <1>3, <1>4, <1>5, <1>6, <1>7 DEF IInv

\* A member of one process is set; the others keep theirs.
LEMMA SetIsBoolean ==
    ASSUME NEW f \in [Instances -> BOOLEAN], NEW i \in Instances, NEW v \in BOOLEAN
    PROVE  Set(f, i, v) \in [Instances -> BOOLEAN]
BY DEF Set

\* Every step of main, of CSyscallMon and of the worker's loop keeps them.
LEMMA NextIInv == IInv /\ [Next]_vars => IInv'
<1> SUFFICES ASSUME IInv, [Next]_vars
             PROVE  IInv'
  OBVIOUS
<1> USE DEF IInv, TypeOK, Phases, MutexUnique, Guarded, Connected, Loading, Ready, Owned,
            Goto, Set, proc, driver
<1>1. CASE UNCHANGED vars
  BY <1>1 DEF vars
<1>2. ASSUME NEW i \in Instances, Start(i)
      PROVE  IInv'
  BY <1>2 DEF Start
<1>3. ASSUME NEW i \in Instances, CreateMutex(i)
      PROVE  IInv'
  <2>1. TypeOK'
    <3>1. pc' \in [Instances -> Phases]
      BY <1>3 DEF CreateMutex
    <3>2. mutex' \in [Instances -> {"none", "open", "null"}] /\ denied' \in BOOLEAN
      <4>1. mutex \in [Instances -> {"none", "open", "null"}] /\ denied \in BOOLEAN
        OBVIOUS
      <4>2. /\ mutex' = mutex \/ \E h \in {"open", "null"} : mutex' = [mutex EXCEPT ![i] = h]
            /\ denied' = denied \/ denied' = TRUE
        BY <1>3, Zenon DEF CreateMutex, Set
      <4>3. mutex' \in [Instances -> {"none", "open", "null"}]
        BY ONLY <1>3, <4>1, <4>2
      <4>. QED
        BY <4>1, <4>2, <4>3, Zenon
    <3>3. \A j \in Instances : quitEvent'[j] = "open" => pc'[j] \in {"start", "console"}
      BY <1>3 DEF CreateMutex
    <3>4. \A j \in Instances : path'[j] => named'[j]
      BY <1>3 DEF CreateMutex
    <3>5. QED
      BY <1>3, <3>1, <3>2, <3>3, <3>4 DEF CreateMutex
  <2>2. MutexUnique'
    BY <1>3 DEF CreateMutex
  <2>3. Guarded'
    BY <1>3 DEF CreateMutex
  <2>4. Connected'
    BY <1>3 DEF CreateMutex
  <2>5. Loading'
    BY <1>3 DEF CreateMutex
  <2>6. Ready'
    BY <1>3 DEF CreateMutex
  <2>7. Owned'
    BY <1>3 DEF CreateMutex
  <2>8. QED
    BY <2>1, <2>2, <2>3, <2>4, <2>5, <2>6, <2>7
<1>4. ASSUME NEW i \in Instances, CheckPrivileges(i)
      PROVE  IInv'
  BY <1>4 DEF CheckPrivileges
<1>5. ASSUME NEW i \in Instances, Connect(i)
      PROVE  IInv'
  <2>1. TypeOK'
    <3>1. pc' \in [Instances -> Phases]
      BY <1>5 DEF Connect
    <3>2. port' \in [Instances -> BOOLEAN] /\ named' \in [Instances -> BOOLEAN]
      <4>1. port' \in {port, Set(port, i, TRUE)} /\ named' \in {named, Set(named, i, TRUE)}
        BY <1>5 DEF Connect
      <4>. QED
        BY <4>1, SetIsBoolean
    <3>3. \A j \in Instances : quitEvent'[j] = "open" => pc'[j] \in {"start", "console"}
      BY <1>5 DEF Connect
    <3>4. \A j \in Instances : path'[j] => named'[j]
      BY <1>5 DEF Connect
    <3>5. QED
      BY <1>5, <3>1, <3>2, <3>3, <3>4 DEF Connect
  <2>2. MutexUnique'
    BY <1>5 DEF Connect
  <2>3. Guarded'
    BY <1>5 DEF Connect
  <2>4. Connected'
    BY <1>5 DEF Connect
  <2>5. Loading'
    BY <1>5 DEF Connect
  <2>6. Ready'
    BY <1>5 DEF Connect
  <2>7. Owned'
    BY <1>5 DEF Connect
  <2>8. QED
    BY <2>1, <2>2, <2>3, <2>4, <2>5, <2>6, <2>7
<1>6. ASSUME NEW i \in Instances, Install(i)
      PROVE  IInv'
  <2>1. TypeOK'
    <3>1. pc' \in [Instances -> Phases]
      BY <1>6 DEF Install
    <3>2. named' \in [Instances -> BOOLEAN] /\ path' \in [Instances -> BOOLEAN]
      <4>1. named' = Set(named, i, TRUE) /\ path' = Set(path, i, TRUE)
        BY <1>6 DEF Install
      <4>. QED
        BY <4>1, SetIsBoolean
    <3>3. /\ keys' \in [{"SyscallMon", "Services"} -> {"none", "empty", "driver"}]
          /\ lost' \in BOOLEAN
      <4>1. keys' \in {keys, [keys EXCEPT !["SyscallMon"] = "driver"]}
        BY <1>6 DEF Install
      <4>2. lost' = FALSE \/ lost' = TRUE \/ lost' = lost
        BY <1>6, Zenon DEF Install
      <4>3. lost' \in BOOLEAN
        BY <4>2
      <4>. QED
        BY <4>1, <4>3
    <3>4. \A j \in Instances : quitEvent'[j] = "open" => pc'[j] \in {"start", "console"}
      BY <1>6 DEF Install
    <3>5. \A j \in Instances : path'[j] => named'[j]
      BY <1>6 DEF Install
    <3>6. QED
      BY <1>6, <3>1, <3>2, <3>3, <3>4, <3>5 DEF Install
  <2>2. MutexUnique' /\ Guarded'
    BY <1>6 DEF Install
  <2>3. Connected'
    BY <1>6 DEF Install
  <2>4. Loading'
    BY <1>6 DEF Install
  <2>5. Ready'
    BY <1>6 DEF Install
  <2>6. Owned'
    BY <1>6 DEF Install
  <2>7. QED
    BY <2>1, <2>2, <2>3, <2>4, <2>5, <2>6
<1>7. ASSUME NEW i \in Instances, LoadDriver(i)
      PROVE  IInv'
  <2>1. TypeOK'
    <3>1. pc' \in [Instances -> Phases] /\ loaded' \in BOOLEAN
      BY <1>7 DEF LoadDriver
    <3>2. \A j \in Instances : quitEvent'[j] = "open" => pc'[j] \in {"start", "console"}
      BY <1>7 DEF LoadDriver
    <3>3. QED
      BY <1>7, <3>1, <3>2 DEF LoadDriver
  <2>2. MutexUnique'
    BY <1>7 DEF LoadDriver
  <2>3. Guarded'
    BY <1>7 DEF LoadDriver
  <2>4. Connected'
    BY <1>7 DEF LoadDriver
  <2>5. Loading'
    BY <1>7 DEF LoadDriver
  <2>6. Ready'
    BY <1>7 DEF LoadDriver
  <2>7. Owned'
    <3>1. named'[i] /\ pc'[i] \in {"reconnect", "console"} /\ named' = named
      BY <1>7 DEF LoadDriver
    <3>2. QED
      BY <3>1
  <2>8. QED
    BY <2>1, <2>2, <2>3, <2>4, <2>5, <2>6, <2>7
<1>8. ASSUME NEW i \in Instances, Reconnect(i)
      PROVE  IInv'
  <2>1. TypeOK'
    <3>1. pc' \in [Instances -> Phases]
      BY <1>8 DEF Reconnect
    <3>2. port' \in [Instances -> BOOLEAN]
      <4>1. port' \in {port, Set(port, i, TRUE)}
        BY <1>8 DEF Reconnect
      <4>. QED
        BY <4>1, SetIsBoolean
    <3>3. \A j \in Instances : quitEvent'[j] = "open" => pc'[j] \in {"start", "console"}
      BY <1>8 DEF Reconnect
    <3>4. \A j \in Instances : path'[j] => named'[j]
      BY <1>8 DEF Reconnect
    <3>5. QED
      BY <1>8, <3>1, <3>2, <3>3, <3>4 DEF Reconnect
  <2>2. MutexUnique'
    BY <1>8 DEF Reconnect
  <2>3. Guarded'
    BY <1>8 DEF Reconnect
  <2>4. Connected'
    BY <1>8 DEF Reconnect
  <2>5. Loading'
    BY <1>8 DEF Reconnect
  <2>6. Ready'
    BY <1>8 DEF Reconnect
  <2>7. Owned'
    BY <1>8 DEF Reconnect
  <2>8. QED
    BY <2>1, <2>2, <2>3, <2>4, <2>5, <2>6, <2>7
<1>9. ASSUME NEW i \in Instances, InitManagers(i)
      PROVE  IInv'
  BY <1>9 DEF InitManagers
<1>10. ASSUME NEW i \in Instances, StartWorker(i)
       PROVE  IInv'
  BY <1>10 DEF StartWorker
<1>11. ASSUME NEW i \in Instances, Quit(i)
       PROVE  IInv'
  BY <1>11 DEF Quit
<1>12. ASSUME NEW i \in Instances, Wait(i)
       PROVE  IInv'
  BY <1>12 DEF Wait
<1>13. ASSUME NEW i \in Instances, Disconnect(i)
       PROVE  IInv'
  BY <1>13 DEF Disconnect
<1>14. ASSUME NEW i \in Instances, Uninstall(i)
       PROVE  IInv'
  BY <1>14 DEF Uninstall, Key
<1>15. ASSUME NEW i \in Instances, UnloadDriver(i)
       PROVE  IInv'
  <2>1. TypeOK'
    <3>1. pc' \in [Instances -> Phases] /\ loaded' \in BOOLEAN
      BY <1>15 DEF UnloadDriver
    <3>2. port' \in [Instances -> BOOLEAN] /\ accident' \in BOOLEAN
      <4>1. port' \in {port, [j \in Instances |-> FALSE]}
        BY <1>15, Zenon DEF UnloadDriver
      <4>2. accident' = FALSE \/ accident' = (accident \/ named[i])
        BY <1>15, Zenon DEF UnloadDriver
      <4>3. accident' \in BOOLEAN
        BY <4>2
      <4>4. port' \in [Instances -> BOOLEAN]
        <5>1. CASE port' = port
          BY <5>1
        <5>2. CASE port' = [j \in Instances |-> FALSE]
          <6>1. [j \in Instances |-> FALSE] \in [Instances -> BOOLEAN]
            OBVIOUS
          <6>. QED
            BY <5>2, <6>1, Zenon
        <5>. QED
          BY <4>1, <5>1, <5>2
      <4>. QED
        BY <4>3, <4>4
    <3>3. \A j \in Instances : quitEvent'[j] = "open" => pc'[j] \in {"start", "console"}
      BY <1>15 DEF UnloadDriver
    <3>4. QED
      BY <1>15, <3>1, <3>2, <3>3 DEF UnloadDriver
  <2>2. MutexUnique'
    BY <1>15 DEF UnloadDriver
  <2>3. Guarded'
    BY <1>15 DEF UnloadDriver
  <2>4. Connected'
    BY <1>15 DEF UnloadDriver
  <2>5. Loading'
    BY <1>15 DEF UnloadDriver
  <2>6. Ready'
    BY <1>15 DEF UnloadDriver
  <2>7. Owned'
    <3>1. SUFFICES ASSUME loaded', ~accident'
                   PROVE  \E j \in Instances :
                            named'[j] /\ pc'[j] \in {"load", "reconnect", "init", "start",
                                      "console", "wait", "disconnect", "uninstall", "unload"}
      OBVIOUS
    <3>2. loaded /\ ~accident /\ ~named[i]
      BY <1>15, <3>1 DEF UnloadDriver
    <3>3. PICK j \in Instances :
            named[j] /\ pc[j] \in {"load", "reconnect", "init", "start", "console", "wait",
                                   "disconnect", "uninstall", "unload"}
      BY <3>2
    <3>4. j # i /\ named' = named /\ pc'[j] = pc[j]
      BY <1>15, <3>2, <3>3 DEF UnloadDriver
    <3>5. QED
      BY <3>3, <3>4
  <2>8. QED
    BY <2>1, <2>2, <2>3, <2>4, <2>5, <2>6, <2>7
<1>16. ASSUME NEW i \in Instances, CloseMutex(i)
       PROVE  IInv'
  BY <1>16 DEF CloseMutex
<1>17. ASSUME NEW i \in Instances, Exit(i)
       PROVE  IInv'
  BY <1>17 DEF Exit, Gone
<1>18. ASSUME NEW i \in Instances, Kill(i)
       PROVE  IInv'
  BY <1>18 DEF Kill, Gone
<1>19. ASSUME NEW i \in Instances, Worker(i)
       PROVE  IInv'
  BY <1>19 DEF Worker, CheckQuit, ReadMessage, ParseMessage, ReadError
<1>20. QED
  BY <1>1, <1>2, <1>3, <1>4, <1>5, <1>6, <1>7, <1>8, <1>9, <1>10, <1>11, <1>12,
     <1>13, <1>14, <1>15, <1>16, <1>17, <1>18, <1>19
  DEF Next, Initialize, Uninitialize

\* The parts of IInv hold in every reachable state.
THEOREM Invariance == Spec => []IInv
  BY InitIInv, NextIInv, PTL DEF Spec

-----------------------------------------------------------------------------
\* Of two processes that use the driver at once one could not create the mutex;
\* a rejected one has no name and does not use it.
THEOREM OneMonitorCorrect == Spec => []OneMonitor
<1>1. IInv => OneMonitor
  BY DEF IInv, TypeOK, MutexUnique, Guarded, OneMonitor, Uses
<1>2. QED
  BY <1>1, Invariance, PTL

\* The driver is unloaded under another process only if one of the two, the
\* one that unloads or the one that is connected, has no mutex.
THEOREM ConnectedCorrect == Spec => ConnectionKept
<1>. DEFINE Kept ==
       \A i \in Instances :
         port[i] /\ ~port'[i] /\ pc'[i] = pc[i] =>
            \E j \in Instances \ {i} :
                pc[j] = "unload" /\ "null" \in {mutex[i], mutex[j]}
<1>1. ASSUME IInv, [Next]_vars PROVE Kept
  <2>. SUFFICES ASSUME NEW i \in Instances, port[i], ~port'[i], pc'[i] = pc[i]
                PROVE  \E j \in Instances \ {i} :
                           pc[j] = "unload" /\ "null" \in {mutex[i], mutex[j]}
    OBVIOUS
  <2>. USE DEF Goto, Set, proc
  <2>0. /\ pc \in [Instances -> Phases] /\ port \in [Instances -> BOOLEAN]
        /\ mutex \in [Instances -> {"none", "open", "null"}]
    BY <1>1 DEF IInv, TypeOK
  <2>1. PICK j \in Instances : UnloadDriver(j)
    <3>1. port' # port
      OBVIOUS
    <3>2. PICK j \in Instances :
            \/ Start(j) \/ Quit(j) \/ Kill(j)
            \/ Initialize(j) \/ Uninitialize(j) \/ Worker(j)
      BY <1>1, <3>1 DEF Next, vars
    <3>3. ~Start(j) /\ ~Quit(j) /\ ~Worker(j)
      BY <3>1 DEF Start, Quit, Worker, CheckQuit, ReadMessage, ParseMessage, ReadError
    <3>4. ~Initialize(j)
      BY <2>0, <3>1 DEF Initialize, CreateMutex, CheckPrivileges, Connect, Install, LoadDriver,
                        Reconnect, InitManagers, StartWorker
    <3>5. ~Kill(j) /\ ~Exit(j) /\ ~Disconnect(j)
      BY <2>0 DEF Kill, Exit, Gone, Disconnect
    <3>6. ~Wait(j) /\ ~Uninstall(j) /\ ~CloseMutex(j)
      BY <3>1 DEF Wait, Uninstall, CloseMutex
    <3>. QED
      BY <3>2, <3>3, <3>4, <3>5, <3>6 DEF Uninitialize
  <2>2. pc[j] = "unload" /\ j # i /\ named[j]
    BY <2>0, <2>1 DEF UnloadDriver
  <2>3. mutex[i] # "none" /\ mutex[j] # "none"
    BY <1>1, <2>2 DEF IInv, Connected, Guarded
  <2>4. mutex[i] # "open" \/ mutex[j] # "open"
    BY <1>1, <2>2 DEF IInv, MutexUnique
  <2>. QED
    BY <2>0, <2>2, <2>3, <2>4
<1>2. IInv /\ [Next]_vars => [Kept]_vars
  BY <1>1
<1>3. QED
  BY <1>2, Invariance, PTL DEF Spec, ConnectionKept

\* NtLoadDriver finds the path of the driver in the service's key, unless it
\* could not be written there or a process has run without the mutex.
THEOREM LoadsCorrect == Spec => []LoadsTheDriver
<1>1. IInv => LoadsTheDriver
  BY DEF IInv, Loading, LoadsTheDriver
<1>2. QED
  BY <1>1, Invariance, PTL

\* No message is parsed before the managers are initialized.
THEOREM ParsesCorrect == Spec => []ParsesInitialized
<1>1. IInv => ParsesInitialized
  BY DEF IInv, Ready, ParsesInitialized
<1>2. QED
  BY <1>1, Invariance, PTL

\* The program leaves no driver behind when every part of its end succeeds.
THEOREM NothingLeftCorrect == Spec => []NothingLeftBehind
<1>1. IInv => NothingLeftBehind
  BY DEF IInv, Owned, NothingLeftBehind
<1>2. QED
  BY <1>1, Invariance, PTL

\* Every variable keeps its type.
THEOREM TypeCorrect == Spec => []TypeOK
<1>1. IInv => TypeOK
  BY DEF IInv
<1>2. QED
  BY <1>1, Invariance, PTL

-----------------------------------------------------------------------------
(* The string manager. *)

\* Only the thread in the lock is between Lock and Unlock.
Locked == \A t \in Threads : step[t] \in {"find", "make", "unlock"} => lock = t

\* The map has exactly the objects made, each under its own text.
MapIsHeap ==
    /\ \A x \in DOMAIN m_StringMap : strings[m_StringMap[x]] = x
    /\ \A i \in 1..Len(strings) : strings[i] \in DOMAIN m_StringMap
                                  /\ m_StringMap[strings[i]] = i

\* The text is still missing when its object is made.
Missing == \A t \in Threads : step[t] = "make" => Copy(request[t]) \notin DOMAIN m_StringMap

\* A thread is answered between the look-up and its next call.
Answered == \A t \in Threads : step[t] \in {"lock", "find", "make"} => result[t] = 0

StringsIInv == TypeOKStrings /\ Locked /\ MapIsHeap /\ Missing /\ Answered /\ RightString

-----------------------------------------------------------------------------
\* Copies are texts: Nobody is none of them.
LEMMA CopyType ==
    /\ Copies \subseteq Seq(Nat)
    /\ \A text \in Texts : Copy(text) \in Copies
    /\ Nobody \notin Copies
<1>1. ASSUME NEW text \in Texts PROVE Copy(text) \in Seq(Nat)
  <2>1. text \in Seq(Nat)
    BY TextsAssumption
  <2>2. Len(text) \in Nat /\ \A i \in 1..Len(text) : text[i] \in Nat
    BY <2>1
  <2>3. Copy(text) \in [1..Len(text) -> Nat]
    BY <2>2 DEF Copy, NUL
  <2> QED BY <2>2, <2>3
<1>2. QED BY <1>1, NobodyAssumption DEF Copies

\* Initially there is nothing.
LEMMA StringsInitIInv == InitStrings => StringsIInv
BY DEF InitStrings, StringsIInv, TypeOKStrings, Locked, MapIsHeap, Missing, Answered, RightString, Steps

\* Each step preserves the types.
LEMMA StringsNextType == TypeOKStrings /\ [NextStrings]_stringVars => TypeOKStrings'
<1> SUFFICES ASSUME TypeOKStrings, [NextStrings]_stringVars PROVE TypeOKStrings'
  OBVIOUS
<1> USE DEF TypeOKStrings, Steps, Move
<1>1. ASSUME NEW t \in Threads, NEW text \in Texts, GetString(t, text) PROVE TypeOKStrings'
  BY <1>1 DEF GetString
<1>2. ASSUME NEW t \in Threads, Lock(t) PROVE TypeOKStrings'
  BY <1>2 DEF Lock
<1>3. ASSUME NEW t \in Threads, Found(t) PROVE TypeOKStrings'
  BY <1>3 DEF Found
<1>4. ASSUME NEW t \in Threads, NotFound(t) PROVE TypeOKStrings'
  BY <1>4 DEF NotFound
<1>5. ASSUME NEW t \in Threads, Make(t) PROVE TypeOKStrings'
  <2> DEFINE c == Copy(request[t])
  <2>1. c \in Copies
    BY CopyType
  <2> HIDE DEF c
  <2>2. strings' = Append(strings, c)
    BY <1>5 DEF Make, c
  <2>3. strings' \in Seq(Copies) /\ Len(strings') = Len(strings) + 1 /\ Len(strings) \in Nat
    BY <2>1, <2>2
  <2>4. m_StringMap' = [x \in DOMAIN m_StringMap \cup {c} |->
                          IF x = c THEN Len(strings) + 1 ELSE m_StringMap[x]]
    BY <1>5 DEF Make, c
  <2>5. DOMAIN m_StringMap' \subseteq Copies
        /\ \A x \in DOMAIN m_StringMap' : m_StringMap'[x] \in 1..Len(strings')
    BY <2>1, <2>3, <2>4
  <2>6. step' \in [Threads -> Steps] /\ request' \in [Threads -> Texts]
        /\ lock' \in Threads \cup {Nobody}
    BY <1>5 DEF Make
  <2>7. result' \in [Threads -> 0..Len(strings')]
    BY <1>5, <2>3 DEF Make
  <2> QED BY <2>3, <2>5, <2>6, <2>7
<1>6. ASSUME NEW t \in Threads, Unlock(t) PROVE TypeOKStrings'
  BY <1>6 DEF Unlock
<1>7. CASE UNCHANGED stringVars
  BY <1>7 DEF stringVars
<1> QED BY <1>1, <1>2, <1>3, <1>4, <1>5, <1>6, <1>7 DEF NextStrings, Inside

\* Each step preserves the invariant.
LEMMA StringsNextIInv == StringsIInv /\ [NextStrings]_stringVars => StringsIInv'
<1> SUFFICES ASSUME StringsIInv, [NextStrings]_stringVars PROVE StringsIInv'
  OBVIOUS
<1>0. TypeOKStrings'
  BY StringsNextType DEF StringsIInv
<1>t. TypeOKStrings
  BY DEF StringsIInv
<1> DEFINE Rest == Locked' /\ MapIsHeap' /\ Missing' /\ Answered' /\ RightString'
<1>1. ASSUME NEW t \in Threads, NEW text \in Texts, GetString(t, text) PROVE Rest
  BY <1>1, <1>t DEF GetString, Move, StringsIInv, TypeOKStrings, Steps, Locked, MapIsHeap, Missing, Answered, RightString
<1>2. ASSUME NEW t \in Threads, Lock(t) PROVE Rest
  <2>1. lock \in {Nobody, t} /\ step[t] = "lock" /\ \A u \in Threads : u # Nobody
    BY <1>2, NobodyAssumption DEF Lock, Move
  <2>2. \A u \in Threads : step[u] \notin {"find", "make", "unlock"}
    BY <2>1 DEF StringsIInv, Locked
  <2> QED BY <1>2, <1>t, <2>2 DEF Lock, Move, StringsIInv, TypeOKStrings, Steps, Locked, MapIsHeap, Missing, Answered, RightString
<1>3. ASSUME NEW t \in Threads, Found(t) PROVE Rest
  BY <1>3, <1>t DEF Found, Move, StringsIInv, TypeOKStrings, Steps, Locked, MapIsHeap, Missing, Answered, RightString
<1>4. ASSUME NEW t \in Threads, NotFound(t) PROVE Rest
  BY <1>4, <1>t DEF NotFound, Move, StringsIInv, TypeOKStrings, Steps, Locked, MapIsHeap, Missing, Answered, RightString
<1>5. ASSUME NEW t \in Threads, Make(t) PROVE Rest
  <2> DEFINE c == Copy(request[t])
             n == Len(strings) + 1
  <2>1. c \in Copies /\ c \notin DOMAIN m_StringMap /\ lock = t
    BY <1>5, CopyType DEF Make, Move, StringsIInv, TypeOKStrings, Missing, Locked
  <2>2. /\ strings' = Append(strings, c)
        /\ m_StringMap' = [x \in DOMAIN m_StringMap \cup {c} |->
                             IF x = c THEN n ELSE m_StringMap[x]]
        /\ result' = [result EXCEPT ![t] = n]
        /\ step' = [step EXCEPT ![t] = "unlock"]
        /\ step[t] = "make"
        /\ UNCHANGED <<lock, request>>
    BY <1>5 DEF Make, Move
  <2>3. strings \in Seq(Copies) /\ n \in Nat
    BY <1>t DEF TypeOKStrings
  <2>4. RightString /\ \A u \in Threads : result[u] \in 0..Len(strings)
    BY <1>t DEF StringsIInv, TypeOKStrings
  <2>5. \A u \in Threads : u # t => step[u] # "make"
    BY <2>1, <2>2 DEF StringsIInv, Locked
  <2>6. \A i \in 1..Len(strings) : strings'[i] = strings[i]
    BY <2>1, <2>2, <2>3
  <2>7. strings'[n] = c /\ Len(strings') = n
    BY <2>1, <2>2, <2>3
  <2>8. Locked'
    BY <2>1, <2>2, <1>t DEF StringsIInv, Locked, TypeOKStrings
  <2>9. Missing'
    BY <2>2, <2>5, <1>t DEF Missing, TypeOKStrings
  <2>10. Answered'
    BY <2>2, <1>t DEF StringsIInv, Answered, TypeOKStrings
  <2>11. c = Copy(request[t]) /\ request' = request
    BY <2>2
  <2> HIDE DEF c
  <2>12. MapIsHeap'
    <3>1. /\ \A x \in DOMAIN m_StringMap : strings[m_StringMap[x]] = x
          /\ \A x \in DOMAIN m_StringMap : m_StringMap[x] \in 1..Len(strings)
          /\ \A i \in 1..Len(strings) : strings[i] \in DOMAIN m_StringMap
                                        /\ m_StringMap[strings[i]] = i
      BY <1>t DEF StringsIInv, TypeOKStrings, MapIsHeap
    <3>2. DOMAIN m_StringMap' = DOMAIN m_StringMap \cup {c}
      BY <2>2
    <3>3. \A x \in DOMAIN m_StringMap' : strings'[m_StringMap'[x]] = x
      BY <2>1, <2>2, <2>6, <2>7, <3>1, <3>2
    <3>4. \A i \in 1..Len(strings) : strings'[i] \in DOMAIN m_StringMap'
                                     /\ m_StringMap'[strings'[i]] = i
      BY <2>1, <2>2, <2>6, <3>1, <3>2
    <3>5. strings'[n] \in DOMAIN m_StringMap' /\ m_StringMap'[strings'[n]] = n
      BY <2>2, <2>7, <3>2
    <3>6. \A i \in 1..Len(strings') : i = n \/ i \in 1..Len(strings)
      BY <2>3, <2>7
    <3> QED BY <3>3, <3>4, <3>5, <3>6 DEF MapIsHeap
  <2>13. RightString'
    <3>1. \A u \in Threads : u # t => result'[u] = result[u]
      BY <2>2, <1>t DEF TypeOKStrings
    <3>2. result'[t] = n
      BY <2>2, <1>t DEF TypeOKStrings
    <3>3. \A u \in Threads : u # t /\ result[u] # 0 => strings'[result[u]] = Copy(request[u])
      BY <2>3, <2>4, <2>6 DEF RightString
    <3> QED BY <2>7, <2>11, <3>1, <3>2, <3>3 DEF RightString
  <2> QED BY <2>8, <2>9, <2>10, <2>12, <2>13
<1>6. ASSUME NEW t \in Threads, Unlock(t) PROVE Rest
  <2>1. lock = t
    BY <1>6 DEF Unlock, Move, StringsIInv, Locked
  <2> QED BY <1>6, <2>1, <1>t DEF Unlock, Move, StringsIInv, TypeOKStrings, Steps, Locked, MapIsHeap, Missing, Answered, RightString
<1>7. CASE UNCHANGED stringVars
  BY <1>7 DEF stringVars, StringsIInv, TypeOKStrings, Locked, MapIsHeap, Missing, Answered, RightString
<1> QED BY <1>0, <1>1, <1>2, <1>3, <1>4, <1>5, <1>6, <1>7 DEF NextStrings, Inside, StringsIInv

\* The invariant holds throughout.
THEOREM StringsInvariance == SpecStrings => []StringsIInv
<1>1. InitStrings => StringsIInv
  BY StringsInitIInv
<1>2. StringsIInv /\ [NextStrings]_stringVars => StringsIInv'
  BY StringsNextIInv
<1> QED BY <1>1, <1>2, PTL DEF SpecStrings

\* No text is ever kept twice.
THEOREM OneCopyCorrect == SpecStrings => []OneCopy
<1>1. StringsIInv => OneCopy
  BY DEF StringsIInv, MapIsHeap, OneCopy
<1> QED BY <1>1, StringsInvariance, PTL

\* GetString returns the text it was asked for, and its object keeps it.
THEOREM RightStringCorrect == SpecStrings => []RightString
<1>1. StringsIInv => RightString
  BY DEF StringsIInv
<1> QED BY <1>1, StringsInvariance, PTL

-----------------------------------------------------------------------------
\* Every step is a step of the string table, or none.
LEMMA StringsNextAnswers == StringsIInv /\ [NextStrings]_stringVars => [Table!TableNext]_Table!tvars
<1> SUFFICES ASSUME StringsIInv, [NextStrings]_stringVars PROVE [Table!TableNext]_Table!tvars
  OBVIOUS
<1>t. TypeOKStrings
  BY DEF StringsIInv
<1>c. \A t \in Threads : Copy(request[t]) \in Copies /\ Copy(request[t]) # Nobody
  BY <1>t, CopyType DEF TypeOKStrings
<1> USE DEF Move
\* Lock, NotFound and Unlock say nothing to the callers.
<1> DEFINE Silent == asked' = asked /\ result' = result /\ m_StringMap' = m_StringMap
<1>s. Silent => [Table!TableNext]_Table!tvars
  BY DEF Table!tvars
<1>1. ASSUME NEW t \in Threads, NEW text \in Texts, GetString(t, text)
      PROVE Table!Ask(t, Copy(text)) /\ Copy(text) \in Copies
  <2>1. asked[t] = Nobody
    BY <1>1 DEF GetString, asked
  <2>2. asked' = [asked EXCEPT ![t] = Copy(text)]
    <3>1. step' = [step EXCEPT ![t] = "lock"] /\ request' = [request EXCEPT ![t] = text]
      BY <1>1 DEF GetString
    <3>2. \A u \in Threads : asked'[u] = IF u = t THEN Copy(text) ELSE asked[u]
      BY <3>1, <1>t DEF asked, TypeOKStrings
    <3> QED BY <3>2 DEF asked
  <2> QED BY <1>1, <2>1, <2>2, CopyType DEF GetString, Table!Ask
<1>2. ASSUME NEW t \in Threads, Lock(t) PROVE Silent
  <2>1. step[t] = "lock" /\ step' = [step EXCEPT ![t] = "find"] /\ request' = request
    BY <1>2 DEF Lock
  <2> QED BY <1>2, <2>1, <1>t DEF Lock, asked, TypeOKStrings
<1>3. ASSUME NEW t \in Threads, Found(t) PROVE Table!Answer(t)
  <2> DEFINE c == Copy(request[t])
  <2>1. asked[t] = c /\ c # Nobody
    BY <1>3, <1>c DEF Found, asked
  <2>2. asked' = [asked EXCEPT ![t] = Nobody]
    <3>1. step[t] = "find" /\ step' = [step EXCEPT ![t] = "unlock"] /\ request' = request
      BY <1>3 DEF Found
    <3> QED BY <3>1, <1>t DEF asked, TypeOKStrings
  <2>3. c \in DOMAIN m_StringMap /\ m_StringMap[c] \in Nat \ {0}
    BY <1>3, <1>t DEF Found, TypeOKStrings
  <2>4. result' = [result EXCEPT ![t] = m_StringMap[c]] /\ result'[t] = m_StringMap[c]
        /\ m_StringMap' = m_StringMap
    BY <1>3, <1>t DEF Found, TypeOKStrings
  <2> HIDE DEF c
  <2> QED BY <2>1, <2>2, <2>3, <2>4 DEF Table!Answer
<1>4. ASSUME NEW t \in Threads, NotFound(t) PROVE Silent
  <2>1. step[t] = "find" /\ step' = [step EXCEPT ![t] = "make"] /\ request' = request
    BY <1>4 DEF NotFound
  <2> QED BY <1>4, <2>1, <1>t DEF NotFound, asked, TypeOKStrings
<1>5. ASSUME NEW t \in Threads, Make(t) PROVE Table!Answer(t)
  <2> DEFINE c == Copy(request[t])
             n == Len(strings) + 1
  <2>1. asked[t] = c /\ c # Nobody
    BY <1>5, <1>c DEF Make, asked
  <2>2. asked' = [asked EXCEPT ![t] = Nobody]
    <3>1. step[t] = "make" /\ step' = [step EXCEPT ![t] = "unlock"] /\ request' = request
      BY <1>5 DEF Make
    <3> QED BY <3>1, <1>t DEF asked, TypeOKStrings
  <2>3. c \notin DOMAIN m_StringMap
    BY <1>5 DEF Make, StringsIInv, Missing
  <2>4. /\ m_StringMap' = [x \in DOMAIN m_StringMap \cup {c} |->
                             IF x = c THEN n ELSE m_StringMap[x]]
        /\ result' = [result EXCEPT ![t] = n] /\ result'[t] = n
    BY <1>5, <1>t DEF Make, TypeOKStrings
  <2>5. n \in Nat \ {0} /\ \A x \in DOMAIN m_StringMap : m_StringMap[x] # n
    BY <1>t DEF TypeOKStrings
  <2> HIDE DEF c, n
  <2> QED BY <2>1, <2>2, <2>3, <2>4, <2>5 DEF Table!Answer
<1>6. ASSUME NEW t \in Threads, Unlock(t) PROVE Silent
  <2>1. step[t] = "unlock" /\ step' = [step EXCEPT ![t] = "idle"] /\ request' = request
    BY <1>6 DEF Unlock
  <2> QED BY <1>6, <2>1, <1>t DEF Unlock, asked, TypeOKStrings
<1>7. CASE UNCHANGED stringVars
  BY <1>7 DEF stringVars, asked, Table!tvars
<1> QED BY <1>s, <1>1, <1>2, <1>3, <1>4, <1>5, <1>6, <1>7 DEF NextStrings, Inside, Table!TableNext

\* GetString, with its lock, its look-up and its insertion, is one step of the
\* string table for every caller.
THEOREM InternsCorrect == SpecStrings => Interns
<1>1. InitStrings => Table!TableInit
  <2>1. InitStrings => asked = [t \in Threads |-> Nobody]
    BY DEF InitStrings, asked
  <2> QED BY <2>1 DEF InitStrings, Table!TableInit
<1>2. StringsIInv /\ [NextStrings]_stringVars => [Table!TableNext]_Table!tvars
  BY StringsNextAnswers
<1> QED BY <1>1, <1>2, StringsInvariance, PTL DEF SpecStrings, Interns, Table!TableSpec
-----------------------------------------------------------------------------
(* The inductive invariant: M the mappings, I the images, K the image map, *)
(* L the module lists, Q the queue, F the frames.                          *)

Mapping == [proc : Procs, base : Bases, path : Path, mapped : BOOLEAN, reported : BOOLEAN]
Image   == [path : Path, loaded : BOOLEAN, funcs : BOOLEAN]
Module  == [base : Bases, image : Nat]
Message == [type : {"load"}, map : Nat] \cup [type : {"stack"}, map : Nat, address : Nat]
Frame   == [proc : Procs, address : Nat, map : Nat, module : Nat]

MapsOk(M) ==
    /\ M \in Seq(Mapping)
    /\ \A j \in 1..Len(M) : M[j].proc # System => M[j].path.form = "drive"

\* The image map and the list of images mirror each other.
ImagesOk(I, K) ==
    /\ I \in Seq(Image)
    /\ \A i \in 1..Len(I) : /\ I[i].path.form = "drive"
                            /\ Upper(I[i].path) \in DOMAIN K
                            /\ K[Upper(I[i].path)] = i
    /\ \A key \in DOMAIN K : K[key] \in 1..Len(I) /\ Upper(I[K[key]].path) = key

\* The module is this mapping.
Describes(um, map, I) == um.base = map.base /\ I[um.image].path.file = map.path.file

\* Every module of a list was mapped there once.
ListsOk(L, M, I) ==
    /\ L \in [Procs -> Seq(Module)]
    /\ \A p \in Procs : \A i \in 1..Len(L[p]) :
         /\ L[p][i].image \in 1..Len(I)
         /\ \E j \in 1..Len(M) : M[j].proc = p /\ Describes(L[p][i], M[j], I)

Known(map, L, I) == \E i \in 1..Len(L[map.proc]) : Describes(L[map.proc][i], map, I)

Loads(m, j) == m.type = "load" /\ m.map = j

\* A reported mapping is in the lists or on its way, ahead of all its stacks.
QueueOk(Q, M, L, I) ==
    /\ Q \in Seq(Message)
    /\ \A k \in 1..Len(Q) :
         /\ Q[k].map \in 1..Len(M)
         /\ Q[k].type = "stack" =>
              /\ Q[k].address \in CodeOf(M[Q[k].map])
              /\ M[Q[k].map].reported =>
                   \/ Known(M[Q[k].map], L, I)
                   \/ \E l \in 1..Len(Q) : l < k /\ Loads(Q[l], Q[k].map)
    /\ \A j \in 1..Len(M) : M[j].reported =>
         Known(M[j], L, I) \/ \E l \in 1..Len(Q) : Loads(Q[l], j)

Covers(um, address, I) == address \in um.base .. (um.base + Size(I[um.image].path.file))

FrameOk(f, M, L, I) ==
    /\ f.map \in 1..Len(M)
    /\ f.proc = M[f.map].proc
    /\ f.address \in CodeOf(M[f.map])
    /\ f.module # 0 => f.module \in 1..Len(L[f.proc]) /\ Covers(L[f.proc][f.module], f.address, I)
    /\ M[f.map].reported => f.module # 0

FramesOk(F, M, L, I) == F \in Seq(Frame) /\ \A i \in 1..Len(F) : FrameOk(F[i], M, L, I)

ModulesIInv ==
    /\ MapsOk(maps)
    /\ ImagesOk(images, m_ImageMap)
    /\ ListsOk(m_ModuleList, maps, images)
    /\ QueueOk(queue, maps, m_ModuleList, images)
    /\ FramesOk(frames, maps, m_ModuleList, images)

-----------------------------------------------------------------------------
(* What may grow without disturbing the rest. *)

MapsGrow(M, M2) ==
    /\ Len(M) <= Len(M2)
    /\ \A j \in 1..Len(M) : /\ M2[j].proc = M[j].proc /\ M2[j].base = M[j].base
                            /\ M2[j].path = M[j].path /\ M2[j].reported = M[j].reported

ImagesGrow(I, I2) ==
    /\ Len(I) <= Len(I2)
    /\ \A i \in 1..Len(I) : I2[i].path = I[i].path

ListsGrow(L, L2) ==
    \A p \in Procs : /\ Len(L[p]) <= Len(L2[p])
                     /\ \A i \in 1..Len(L[p]) : L2[p][i] = L[p][i]

LEMMA LengthsNat ==
    ASSUME NEW M, NEW I, NEW L, MapsOk(M), I \in Seq(Image), ListsOk(L, M, I)
    PROVE  /\ Len(M) \in Nat /\ Len(I) \in Nat
           /\ \A p \in Procs : Len(L[p]) \in Nat /\ L[p] \in Seq(Module)
           /\ \A j \in 1..Len(M) : M[j] \in Mapping /\ M[j].proc \in Procs
           /\ \A i \in 1..Len(I) : I[i] \in Image
<1>1. M \in Seq(Mapping) /\ L \in [Procs -> Seq(Module)]
  BY DEF MapsOk, ListsOk
<1>2. Len(M) \in Nat /\ Len(I) \in Nat /\ \A p \in Procs : L[p] \in Seq(Module)
  BY <1>1, LenProperties
<1>3. \A p \in Procs : Len(L[p]) \in Nat
  BY <1>2, LenProperties
<1>4. \A j \in 1..Len(M) : M[j] \in Mapping
  BY <1>1
<1>5. \A i \in 1..Len(I) : I[i] \in Image
  BY <1>2
<1>. QED
  BY <1>2, <1>3, <1>4, <1>5 DEF Mapping

LEMMA KnownStays ==
    ASSUME NEW M, NEW I, NEW L, MapsOk(M), I \in Seq(Image), ListsOk(L, M, I),
           NEW I2, NEW L2, ImagesGrow(I, I2), ListsGrow(L, L2),
           NEW map, map.proc \in Procs, NEW map2, Known(map, L, I),
           map2.proc = map.proc, map2.base = map.base, map2.path = map.path,
           \A p \in Procs : Len(L2[p]) \in Nat
    PROVE  Known(map2, L2, I2)
<1>. DEFINE p == map.proc
<1>1. PICK i \in 1..Len(L[p]) : Describes(L[p][i], map, I)
  BY DEF Known
<1>2. L2[p][i] = L[p][i] /\ i \in 1..Len(L2[p])
  BY <1>1, LengthsNat DEF ListsGrow
<1>3. I2[L[p][i].image].path = I[L[p][i].image].path
  BY <1>1 DEF ListsOk, ImagesGrow
<1>4. Describes(L2[p][i], map2, I2)
  BY <1>1, <1>2, <1>3 DEF Describes
<1>. QED
  BY <1>2, <1>4 DEF Known

LEMMA ListsStay ==
    ASSUME NEW M, NEW I, NEW L, MapsOk(M), I \in Seq(Image), ListsOk(L, M, I),
           NEW M2, NEW I2, MapsGrow(M, M2), ImagesGrow(I, I2),
           Len(M2) \in Nat, Len(I2) \in Nat
    PROVE  ListsOk(L, M2, I2)
<1>1. Len(M) \in Nat /\ Len(I) \in Nat /\ L \in [Procs -> Seq(Module)]
  BY LengthsNat DEF ListsOk
<1>. SUFFICES ASSUME NEW p \in Procs, NEW i \in 1..Len(L[p])
              PROVE  /\ L[p][i].image \in 1..Len(I2)
                     /\ \E j \in 1..Len(M2) : M2[j].proc = p /\ Describes(L[p][i], M2[j], I2)
  BY <1>1 DEF ListsOk
<1>2. L[p][i].image \in 1..Len(I)
  BY DEF ListsOk
<1>3. PICK j \in 1..Len(M) : M[j].proc = p /\ Describes(L[p][i], M[j], I)
  BY DEF ListsOk
<1>4. j \in 1..Len(M2) /\ M2[j].proc = p /\ M2[j].base = M[j].base /\ M2[j].path = M[j].path
  BY <1>1, <1>3 DEF MapsGrow
<1>5. L[p][i].image \in 1..Len(I2) /\ I2[L[p][i].image].path = I[L[p][i].image].path
  BY <1>1, <1>2 DEF ImagesGrow
<1>6. Describes(L[p][i], M2[j], I2)
  BY <1>3, <1>4, <1>5 DEF Describes
<1>. QED
  BY <1>4, <1>5, <1>6

LEMMA FrameStays ==
    ASSUME NEW M, NEW I, NEW L, MapsOk(M), I \in Seq(Image), ListsOk(L, M, I),
           NEW M2, NEW I2, NEW L2, MapsGrow(M, M2), ImagesGrow(I, I2), ListsGrow(L, L2),
           Len(M2) \in Nat, \A p \in Procs : Len(L2[p]) \in Nat,
           NEW f, FrameOk(f, M, L, I)
    PROVE  FrameOk(f, M2, L2, I2)
<1>. DEFINE map == M[f.map]
<1>1. Len(M) \in Nat /\ f.map \in 1..Len(M) /\ f.proc = map.proc /\ map.proc \in Procs
  BY LengthsNat DEF FrameOk
<1>2. /\ f.map \in 1..Len(M2) /\ M2[f.map].proc = map.proc /\ M2[f.map].base = map.base
      /\ M2[f.map].path = map.path /\ M2[f.map].reported = map.reported
  BY <1>1 DEF MapsGrow
<1>3. f.address \in CodeOf(M2[f.map])
  BY <1>2 DEF FrameOk, CodeOf
<1>4. ASSUME f.module # 0
      PROVE  f.module \in 1..Len(L2[f.proc]) /\ Covers(L2[f.proc][f.module], f.address, I2)
  <2>1. f.module \in 1..Len(L[f.proc]) /\ Covers(L[f.proc][f.module], f.address, I)
    BY <1>4 DEF FrameOk
  <2>2. f.module \in 1..Len(L2[f.proc]) /\ L2[f.proc][f.module] = L[f.proc][f.module]
    <3>1. f.proc \in Procs /\ Len(L[f.proc]) \in Nat /\ Len(L2[f.proc]) \in Nat
      BY <1>1, LengthsNat
    <3>2. Len(L[f.proc]) <= Len(L2[f.proc])
      BY <3>1 DEF ListsGrow
    <3>. QED
      BY <2>1, <3>1, <3>2 DEF ListsGrow
  <2>3. I2[L[f.proc][f.module].image].path = I[L[f.proc][f.module].image].path
    BY <1>1, <2>1 DEF ListsOk, ImagesGrow
  <2>. QED
    BY <2>1, <2>2, <2>3 DEF Covers
<1>. QED
  BY <1>1, <1>2, <1>3, <1>4 DEF FrameOk

LEMMA FramesStay ==
    ASSUME NEW M, NEW I, NEW L, MapsOk(M), I \in Seq(Image), ListsOk(L, M, I),
           NEW M2, NEW I2, NEW L2, MapsGrow(M, M2), ImagesGrow(I, I2), ListsGrow(L, L2),
           Len(M2) \in Nat, \A p \in Procs : Len(L2[p]) \in Nat,
           NEW F, FramesOk(F, M, L, I)
    PROVE  FramesOk(F, M2, L2, I2)
<1>1. ASSUME NEW i \in 1..Len(F) PROVE FrameOk(F[i], M2, L2, I2)
  <2>1. FrameOk(F[i], M, L, I)
    BY DEF FramesOk
  <2>. QED
    BY <2>1, FrameStays
<1>. QED
  BY <1>1 DEF FramesOk

LEMMA NothingChanges ==
    /\ \A M : Len(M) \in Nat => MapsGrow(M, M)
    /\ \A I : Len(I) \in Nat => ImagesGrow(I, I)
    /\ \A L : (\A p \in Procs : Len(L[p]) \in Nat) => ListsGrow(L, L)
BY DEF MapsGrow, ImagesGrow, ListsGrow

\* Messages are added: of a call, or of a new mapping.
LEMMA QueueGrows ==
    ASSUME NEW M, NEW I, NEW L, MapsOk(M), I \in Seq(Image), ListsOk(L, M, I),
           NEW M2, NEW I2, NEW L2, MapsGrow(M, M2), ImagesGrow(I, I2), ListsGrow(L, L2),
           Len(M2) \in Nat, \A p \in Procs : Len(L2[p]) \in Nat,
           NEW Q, QueueOk(Q, M, L, I),
           NEW Q2 \in Seq(Message), Len(Q) <= Len(Q2), \A k \in 1..Len(Q) : Q2[k] = Q[k],
           \A k \in 1..Len(Q2) : k > Len(Q) =>
             /\ Q2[k].map \in 1..Len(M2)
             /\ Q2[k].type = "stack" => /\ Q2[k].map \in 1..Len(M)
                                        /\ Q2[k].address \in CodeOf(M[Q2[k].map]),
           \A j \in 1..Len(M2) : j > Len(M) /\ M2[j].reported => \E l \in 1..Len(Q2) : Loads(Q2[l], j)
    PROVE  QueueOk(Q2, M2, L2, I2)
<1>1. Len(M) \in Nat /\ Len(M2) \in Nat /\ Len(Q) \in Nat /\ Len(Q2) \in Nat
  BY LengthsNat, LenProperties DEF QueueOk
<1>2. \A j \in 1..Len(M) :
        /\ j \in 1..Len(M2) /\ M[j].proc \in Procs
        /\ M2[j].proc = M[j].proc /\ M2[j].base = M[j].base
        /\ M2[j].path = M[j].path /\ M2[j].reported = M[j].reported
  BY <1>1, LengthsNat DEF MapsGrow
<1>3. \A j \in 1..Len(M) : Known(M[j], L, I) => Known(M2[j], L2, I2)
  <2>. SUFFICES ASSUME NEW j \in 1..Len(M), Known(M[j], L, I) PROVE Known(M2[j], L2, I2)
    OBVIOUS
  <2>. QED
    BY <1>2, KnownStays
<1>4. \A j \in 1..Len(M) : M[j].reported =>
        Known(M2[j], L2, I2) \/ \E l \in 1..Len(Q) : Loads(Q[l], j)
  BY <1>3 DEF QueueOk
<1>5. \A k \in 1..Len(Q2) : k \in 1..Len(Q) \/ k > Len(Q)
  BY <1>1
<1>6. \A k \in 1..Len(Q) : k \in 1..Len(Q2)
  BY <1>1
<1>7. ASSUME NEW k \in 1..Len(Q2)
      PROVE  /\ Q2[k].map \in 1..Len(M2)
             /\ Q2[k].type = "stack" =>
                  /\ Q2[k].address \in CodeOf(M2[Q2[k].map])
                  /\ M2[Q2[k].map].reported =>
                       \/ Known(M2[Q2[k].map], L2, I2)
                       \/ \E l \in 1..Len(Q2) : l < k /\ Loads(Q2[l], Q2[k].map)
  <2>1. CASE k \in 1..Len(Q)
    <3>1. Q2[k] = Q[k] /\ Q[k].map \in 1..Len(M)
      BY <2>1 DEF QueueOk
    <3>2. ASSUME Q[k].type = "stack"
          PROVE  /\ Q[k].address \in CodeOf(M2[Q[k].map])
                 /\ M[Q[k].map].reported =>
                      \/ Known(M2[Q[k].map], L2, I2)
                      \/ \E l \in 1..Len(Q2) : l < k /\ Loads(Q2[l], Q[k].map)
      <4>1. Q[k].address \in CodeOf(M[Q[k].map])
        BY <2>1, <3>2 DEF QueueOk
      <4>2. M[Q[k].map].reported => \/ Known(M[Q[k].map], L, I)
                                    \/ \E l \in 1..Len(Q) : l < k /\ Loads(Q[l], Q[k].map)
        BY <2>1, <3>2 DEF QueueOk
      <4>. QED
        BY <1>2, <1>3, <1>6, <3>1, <4>1, <4>2 DEF CodeOf
    <3>. QED
      BY <1>2, <3>1, <3>2
  <2>2. CASE k > Len(Q)
    <3>1. Q2[k].map \in 1..Len(M2)
      BY <2>2
    <3>2. ASSUME Q2[k].type = "stack"
          PROVE  /\ Q2[k].address \in CodeOf(M2[Q2[k].map])
                 /\ M2[Q2[k].map].reported =>
                      \/ Known(M2[Q2[k].map], L2, I2)
                      \/ \E l \in 1..Len(Q2) : l < k /\ Loads(Q2[l], Q2[k].map)
      <4>1. Q2[k].map \in 1..Len(M) /\ Q2[k].address \in CodeOf(M[Q2[k].map])
        BY <2>2, <3>2
      <4>2. \A l \in 1..Len(Q) : l < k /\ l \in 1..Len(Q2) /\ Q2[l] = Q[l]
        BY <1>1, <2>2
      <4>. QED
        BY <1>2, <1>4, <4>1, <4>2 DEF CodeOf
    <3>. QED
      BY <3>1, <3>2
  <2>. QED
    BY <1>5, <2>1, <2>2
<1>8. ASSUME NEW j \in 1..Len(M2), M2[j].reported
      PROVE  Known(M2[j], L2, I2) \/ \E l \in 1..Len(Q2) : Loads(Q2[l], j)
  <2>1. CASE j \in 1..Len(M)
    BY <1>2, <1>4, <1>6, <1>8, <2>1
  <2>2. CASE j > Len(M)
    BY <1>8, <2>2
  <2>. QED
    BY <1>1, <2>1, <2>2
<1>. QED
  BY <1>7, <1>8 DEF QueueOk

\* No message is added.
LEMMA QueueStays ==
    ASSUME NEW M, NEW I, NEW L, MapsOk(M), I \in Seq(Image), ListsOk(L, M, I),
           NEW M2, NEW I2, NEW L2, MapsGrow(M, M2), ImagesGrow(I, I2), ListsGrow(L, L2),
           Len(M2) \in Nat, \A p \in Procs : Len(L2[p]) \in Nat,
           NEW Q, QueueOk(Q, M, L, I),
           \A j \in 1..Len(M2) : j > Len(M) => ~M2[j].reported
    PROVE  QueueOk(Q, M2, L2, I2)
<1>1. Q \in Seq(Message) /\ Len(Q) \in Nat
  BY LenProperties DEF QueueOk
<1>2. Len(Q) <= Len(Q) /\ \A k \in 1..Len(Q) : ~(k > Len(Q))
  BY <1>1
<1>3. \A j \in 1..Len(M2) : j > Len(M) /\ M2[j].reported => \E l \in 1..Len(Q) : Loads(Q[l], j)
  OBVIOUS
<1>. QED
  BY <1>1, <1>2, <1>3, QueueGrows

\* The oldest message was handled: if it reported a mapping, that is known now.
LEMMA QueueShrinks ==
    ASSUME NEW M, NEW I, NEW L, MapsOk(M), I \in Seq(Image), ListsOk(L, M, I),
           NEW I2, NEW L2, ImagesGrow(I, I2), ListsGrow(L, L2),
           \A p \in Procs : Len(L2[p]) \in Nat,
           NEW Q, QueueOk(Q, M, L, I), Q # <<>>,
           Q[1].type = "load" => Known(M[Q[1].map], L2, I2)
    PROVE  QueueOk(Tail(Q), M, L2, I2)
<1>1. Q \in Seq(Message) /\ Len(Q) \in Nat \ {0}
  BY LenProperties, EmptySeq DEF QueueOk
<1>2. /\ Tail(Q) \in Seq(Message) /\ Len(Tail(Q)) = Len(Q) - 1
      /\ \A k \in 1..Len(Tail(Q)) : Tail(Q)[k] = Q[k + 1]
  BY <1>1, HeadTailProperties
<1>. DEFINE T == Tail(Q)
<1>. HIDE DEF T
<1>3. /\ T \in Seq(Message)
      /\ \A k \in 1..Len(T) : k \in Nat /\ k + 1 \in 1..Len(Q) /\ T[k] = Q[k + 1]
      /\ \A l \in 1..Len(Q) : l = 1 \/ (l - 1 \in 1..Len(T) /\ T[l - 1] = Q[l])
  BY <1>1, <1>2 DEF T
<1>4. \A j \in 1..Len(M) : Known(M[j], L, I) => Known(M[j], L2, I2)
  <2>. SUFFICES ASSUME NEW j \in 1..Len(M), Known(M[j], L, I) PROVE Known(M[j], L2, I2)
    OBVIOUS
  <2>1. M[j].proc \in Procs
    BY LengthsNat
  <2>. QED
    BY <2>1, KnownStays
<1>5. \A j \in 1..Len(M) : Loads(Q[1], j) => Known(M[j], L2, I2)
  BY DEF Loads
<1>6. ASSUME NEW k \in 1..Len(T)
      PROVE  /\ T[k].map \in 1..Len(M)
             /\ T[k].type = "stack" =>
                  /\ T[k].address \in CodeOf(M[T[k].map])
                  /\ M[T[k].map].reported =>
                       \/ Known(M[T[k].map], L2, I2)
                       \/ \E l \in 1..Len(T) : l < k /\ Loads(T[l], T[k].map)
  <2>1. T[k] = Q[k + 1] /\ k + 1 \in 1..Len(Q) /\ T[k].map \in 1..Len(M)
    BY <1>3 DEF QueueOk
  <2>2. ASSUME T[k].type = "stack", M[T[k].map].reported
        PROVE  \/ Known(M[T[k].map], L2, I2)
               \/ \E l \in 1..Len(T) : l < k /\ Loads(T[l], T[k].map)
    <3>1. \/ Known(M[T[k].map], L, I)
          \/ \E l \in 1..Len(Q) : l < k + 1 /\ Loads(Q[l], T[k].map)
      BY <2>1, <2>2 DEF QueueOk
    <3>2. ASSUME NEW l \in 1..Len(Q), l < k + 1, Loads(Q[l], T[k].map)
          PROVE  \/ Known(M[T[k].map], L2, I2)
                 \/ \E n \in 1..Len(T) : n < k /\ Loads(T[n], T[k].map)
      <4>1. CASE l = 1
        BY <1>5, <2>1, <3>2, <4>1
      <4>2. CASE l - 1 \in 1..Len(T) /\ T[l - 1] = Q[l]
        <5>1. l - 1 < k
          BY <1>1, <1>3, <3>2
        <5>. QED
          BY <3>2, <4>2, <5>1
      <4>. QED
        BY <1>3, <4>1, <4>2
    <3>. QED
      BY <1>4, <2>1, <3>1, <3>2
  <2>. QED
    BY <2>1, <2>2 DEF QueueOk
<1>7. ASSUME NEW j \in 1..Len(M), M[j].reported
      PROVE  Known(M[j], L2, I2) \/ \E l \in 1..Len(T) : Loads(T[l], j)
  <2>1. Known(M[j], L, I) \/ \E l \in 1..Len(Q) : Loads(Q[l], j)
    BY <1>7 DEF QueueOk
  <2>. QED
    BY <1>3, <1>4, <1>5, <2>1
<1>. QED
  BY <1>3, <1>6, <1>7 DEF QueueOk, T

-----------------------------------------------------------------------------
(* The operators. *)

\* A non-empty set of naturals has a least element.
LEMMA LeastExists ==
    ASSUME NEW S \in SUBSET Nat, NEW x \in S
    PROVE  \E i \in S : \A j \in S : i <= j
<1>1. IsWellFoundedOn(OpToRel(<, Nat), Nat)
  BY NatLessThanWellFounded
<1>2. S # {} /\ S \subseteq Nat
  OBVIOUS
<1>3. PICK i \in S : \A y \in S : ~ (<<y, i>> \in OpToRel(<, Nat))
  BY <1>1, <1>2, WFMin
<1>4. \A y \in S : ~ (y < i)
  BY <1>3 DEF OpToRel
<1>. QED
  BY <1>4

\* GetModuleFromAddress finds a module that covers the address, if there is one.
LEMMA ModuleFound ==
    ASSUME ModulesIInv, NEW p \in Procs, NEW address
    PROVE  LET um == GetModuleFromAddress(p, address) IN
             /\ um \in Nat
             /\ um # 0 => /\ um \in 1..Len(m_ModuleList[p])
                          /\ Covers(m_ModuleList[p][um], address, images)
             /\ (\E i \in 1..Len(m_ModuleList[p]) : Covers(m_ModuleList[p][i], address, images))
                  => um # 0
<1>. DEFINE S == Covering(p, address)
            um == GetModuleFromAddress(p, address)
<1>1. S = {i \in 1..Len(m_ModuleList[p]) : Covers(m_ModuleList[p][i], address, images)}
  BY DEF Covering, Covers
<1>2. um = Min(S \cup (IF S = {} THEN {0} ELSE {}))
  BY DEF GetModuleFromAddress
<1>3. S \subseteq Nat \ {0}
  <2>1. Len(m_ModuleList[p]) \in Nat
    BY LengthsNat DEF ModulesIInv, ImagesOk
  <2>. QED
    BY <1>1, <2>1
<1>. HIDE DEF S, um
<1>4. CASE S = {}
  <2>1. um = Min({0})
    BY <1>2, <1>4
  <2>2. um = 0
    BY <2>1 DEF Min
  <2>. QED
    BY <1>1, <1>4, <2>2 DEF um
<1>5. CASE S # {}
  <2>1. um = Min(S)
    BY <1>2, <1>5
  <2>2. \E i \in S : \A j \in S : i <= j
    BY <1>3, <1>5, LeastExists
  <2>3. um \in S
    BY <2>1, <2>2 DEF Min
  <2>. QED
    BY <1>1, <1>3, <2>3 DEF um
<1>. QED
  BY <1>4, <1>5

\* A known mapping covers its code.
LEMMA KnownCovers ==
    ASSUME ModulesIInv, NEW j \in 1..Len(maps), Known(maps[j], m_ModuleList, images),
           NEW address \in CodeOf(maps[j])
    PROVE  \E i \in 1..Len(m_ModuleList[maps[j].proc]) :
             Covers(m_ModuleList[maps[j].proc][i], address, images)
<1>. DEFINE map == maps[j]
<1>1. map \in Mapping
  BY LengthsNat DEF ModulesIInv, ImagesOk
<1>2. map.base \in Nat /\ Size(map.path.file) \in Nat
  BY <1>1, AddressesAssumption DEF Mapping, Path
<1>3. address \in map.base .. (map.base + Size(map.path.file))
  BY <1>2 DEF CodeOf
<1>4. PICK i \in 1..Len(m_ModuleList[map.proc]) :
        Describes(m_ModuleList[map.proc][i], map, images)
  BY DEF Known
<1>5. Covers(m_ModuleList[map.proc][i], address, images)
  BY <1>3, <1>4 DEF Describes, Covers
<1>. QED
  BY <1>5

\* GetImage keeps one image for each file.
LEMMA ImageAdded ==
    ASSUME ImagesOk(images, m_ImageMap), NEW name \in Path, name.form = "drive"
    PROVE  /\ ImagesOk(ImagesWith(name), ImageMapWith(name))
           /\ ImagesGrow(images, ImagesWith(name))
           /\ ImageOf(name) \in 1..Len(ImagesWith(name))
           /\ ImagesWith(name)[ImageOf(name)].path.file = name.file
<1>. DEFINE I2 == ImagesWith(name)
            K2 == ImageMapWith(name)
            n  == ImageOf(name)
<1>1. images \in Seq(Image) /\ Len(images) \in Nat
  BY LenProperties DEF ImagesOk
<1>2. \A other \in Path : Upper(other).file = other.file
  BY DEF Upper, Path
<1>3. CASE HasImage(name)
  <2>1. I2 = images /\ n = m_ImageMap[Upper(name)] /\ Upper(name) \in DOMAIN m_ImageMap
    BY <1>3 DEF ImagesWith, ImageOf, HasImage
  <2>2. n \in 1..Len(images) /\ Upper(images[n].path) = Upper(name)
    BY <2>1 DEF ImagesOk
  <2>3. images[n].path \in Path
    <3>1. \A i \in 1..Len(images) : images[i] \in Image
      BY <1>1
    <3>. QED
      BY <2>2, <3>1 DEF Image
  <2>4. images[n].path.file = name.file
    BY <1>2, <2>2, <2>3
  <2>5. DOMAIN K2 = DOMAIN m_ImageMap /\ \A key \in DOMAIN K2 : K2[key] = m_ImageMap[key]
    BY <2>1 DEF ImageMapWith
  <2>6. ImagesOk(I2, K2)
    BY <2>1, <2>5 DEF ImagesOk
  <2>7. ImagesGrow(images, I2)
    BY <1>1, <2>1 DEF ImagesGrow
  <2>. QED
    BY <2>1, <2>2, <2>4, <2>6, <2>7
<1>4. CASE ~HasImage(name)
  <2>. DEFINE new == [path |-> name, loaded |-> FALSE, funcs |-> FALSE]
  <2>1. /\ I2 = Append(images, new) /\ n = Len(images) + 1
        /\ Upper(name) \notin DOMAIN m_ImageMap /\ new \in Image /\ new.path = name
    BY <1>4 DEF ImagesWith, ImageOf, HasImage, Image
  <2>. HIDE DEF new
  <2>2. /\ I2 \in Seq(Image) /\ Len(I2) = n /\ I2[n] = new
        /\ \A i \in 1..Len(images) : I2[i] = images[i]
    BY <1>1, <2>1, AppendProperties
  <2>3. /\ DOMAIN K2 = DOMAIN m_ImageMap \cup {Upper(name)}
        /\ K2[Upper(name)] = n
        /\ \A key \in DOMAIN m_ImageMap : K2[key] = m_ImageMap[key]
    BY <2>1 DEF ImageMapWith
  <2>. HIDE DEF I2, K2, n
  <2>4. \A i \in 1..Len(I2) : i \in 1..Len(images) \/ i = n
    BY <1>1, <2>1, <2>2
  <2>5. ASSUME NEW i \in 1..Len(I2)
        PROVE  I2[i].path.form = "drive" /\ Upper(I2[i].path) \in DOMAIN K2
               /\ K2[Upper(I2[i].path)] = i
    <3>1. CASE i \in 1..Len(images)
      BY <2>2, <2>3, <3>1 DEF ImagesOk
    <3>2. CASE i = n
      BY <2>1, <2>2, <2>3, <3>2
    <3>. QED
      BY <2>4, <3>1, <3>2
  <2>6. ASSUME NEW key \in DOMAIN K2
        PROVE  K2[key] \in 1..Len(I2) /\ Upper(I2[K2[key]].path) = key
    <3>1. CASE key \in DOMAIN m_ImageMap
      <4>1. K2[key] \in 1..Len(images) /\ Upper(images[K2[key]].path) = key
        BY <2>3, <3>1 DEF ImagesOk
      <4>. QED
        BY <1>1, <2>1, <2>2, <4>1
    <3>2. CASE key = Upper(name)
      BY <1>1, <2>1, <2>2, <2>3, <3>2
    <3>. QED
      BY <2>3, <3>1, <3>2
  <2>7. ImagesOk(I2, K2)
    BY <2>2, <2>5, <2>6 DEF ImagesOk
  <2>8. ImagesGrow(images, I2)
    BY <1>1, <2>1, <2>2 DEF ImagesGrow
  <2>9. n \in 1..Len(I2)
    BY <1>1, <2>1, <2>2
  <2>. QED
    BY <2>1, <2>2, <2>7, <2>8, <2>9 DEF I2, K2, n
<1>. QED
  BY <1>3, <1>4

\* A mapping becomes a module.
LEMMA ModuleAdded ==
    ASSUME MapsOk(maps), images \in Seq(Image), ListsOk(m_ModuleList, maps, images),
           NEW I2 \in Seq(Image), ImagesGrow(images, I2),
           NEW j \in 1..Len(maps), NEW n \in 1..Len(I2), I2[n].path.file = maps[j].path.file,
           NEW L2, L2 = [m_ModuleList EXCEPT ![maps[j].proc] =
                           Append(@, [base |-> maps[j].base, image |-> n])]
    PROVE  /\ ListsOk(L2, maps, I2)
           /\ ListsGrow(m_ModuleList, L2)
           /\ Known(maps[j], L2, I2)
           /\ \A p \in Procs : Len(L2[p]) \in Nat
<1>. DEFINE q  == maps[j].proc
            um == [base |-> maps[j].base, image |-> n]
            L  == m_ModuleList
<1>1. /\ Len(maps) \in Nat /\ Len(I2) \in Nat /\ L \in [Procs -> Seq(Module)]
      /\ \A p \in Procs : Len(L[p]) \in Nat /\ L[p] \in Seq(Module)
      /\ maps[j] \in Mapping /\ q \in Procs
  BY LengthsNat, LenProperties DEF ListsOk
<1>2. um \in Module /\ Describes(um, maps[j], I2) /\ um.image = n
  BY <1>1 DEF Module, Mapping, Describes
<1>. HIDE DEF um
<1>3. /\ Append(L[q], um) \in Seq(Module) /\ Len(Append(L[q], um)) = Len(L[q]) + 1
      /\ \A i \in 1..Len(L[q]) : Append(L[q], um)[i] = L[q][i]
      /\ Append(L[q], um)[Len(L[q]) + 1] = um
  BY <1>1, <1>2, AppendProperties
<1>4. L2 = [L EXCEPT ![q] = Append(@, um)]
  BY DEF um
<1>5. /\ L2 \in [Procs -> Seq(Module)]
      /\ L2[q] = Append(L[q], um)
      /\ \A p \in Procs : p # q => L2[p] = L[p]
  BY <1>1, <1>3, <1>4
<1>. HIDE DEF q
<1>6. \A p \in Procs : Len(L2[p]) \in Nat
  BY <1>1, <1>3, <1>5
<1>7. ListsGrow(L, L2)
  BY <1>1, <1>3, <1>5 DEF ListsGrow
<1>8. ListsOk(L, maps, I2)
  BY <1>1, ListsStay, NothingChanges
<1>9. ListsOk(L2, maps, I2)
  <2>. SUFFICES ASSUME NEW p \in Procs, NEW i \in 1..Len(L2[p])
                PROVE  /\ L2[p][i].image \in 1..Len(I2)
                       /\ \E k \in 1..Len(maps) : /\ maps[k].proc = p
                                                  /\ Describes(L2[p][i], maps[k], I2)
    BY <1>5 DEF ListsOk
  <2>1. CASE i \in 1..Len(L[p])
    <3>1. L2[p][i] = L[p][i]
      BY <1>3, <1>5, <2>1
    <3>. QED
      BY <1>8, <2>1, <3>1 DEF ListsOk
  <2>2. CASE p = q /\ i = Len(L[q]) + 1
    BY <1>2, <1>3, <1>5, <2>2 DEF q
  <2>3. i \in 1..Len(L[p]) \/ (p = q /\ i = Len(L[q]) + 1)
    <3>1. Len(L[q]) \in Nat
      BY <1>1
    <3>2. CASE p = q
      <4>1. i \in 1..(Len(L[q]) + 1)
        BY <1>3, <1>5, <3>2
      <4>. QED
        BY ONLY <3>1, <3>2, <4>1
    <3>3. CASE p # q
      BY <1>5, <3>3
    <3>. QED
      BY <3>2, <3>3
  <2>. QED
    BY ONLY <2>1, <2>2, <2>3
<1>10. Known(maps[j], L2, I2)
  <2>1. Len(L[q]) + 1 \in 1..Len(L2[q]) /\ L2[q][Len(L[q]) + 1] = um
    BY <1>1, <1>3, <1>5
  <2>. QED
    BY <1>2, <2>1 DEF Known, q
<1>. QED
  BY <1>6, <1>7, <1>9, <1>10

-----------------------------------------------------------------------------
(* The steps. *)

LEMMA ModulesInitIInv == InitModules => ModulesIInv
<1>. SUFFICES ASSUME InitModules PROVE ModulesIInv
  OBVIOUS
<1>1. /\ maps = <<>> /\ queue = <<>> /\ images = <<>> /\ frames = <<>>
      /\ DOMAIN m_ImageMap = {} /\ \A p \in Procs : m_ModuleList[p] = <<>>
      /\ m_ModuleList = [p \in Procs |-> <<>>]
  BY DEF InitModules
<1>2. MapsOk(maps) /\ ImagesOk(images, m_ImageMap)
  BY <1>1 DEF MapsOk, ImagesOk
<1>3. ListsOk(m_ModuleList, maps, images)
  <2>1. m_ModuleList \in [Procs -> Seq(Module)]
    BY <1>1
  <2>. QED
    BY <1>1, <2>1 DEF ListsOk
<1>4. QueueOk(queue, maps, m_ModuleList, images)
  BY <1>1 DEF QueueOk
<1>5. FramesOk(frames, maps, m_ModuleList, images)
  BY <1>1 DEF FramesOk
<1>. QED
  BY <1>2, <1>3, <1>4, <1>5 DEF ModulesIInv

\* The lengths in a state of the invariant.
LEMMA Lengths ==
    ASSUME ModulesIInv
    PROVE  /\ images \in Seq(Image) /\ queue \in Seq(Message) /\ frames \in Seq(Frame)
           /\ Len(maps) \in Nat /\ Len(images) \in Nat /\ Len(queue) \in Nat /\ Len(frames) \in Nat
           /\ \A p \in Procs : Len(m_ModuleList[p]) \in Nat
           /\ MapsGrow(maps, maps) /\ ImagesGrow(images, images)
           /\ ListsGrow(m_ModuleList, m_ModuleList)
           /\ \A j \in 1..Len(maps) : maps[j] \in Mapping /\ maps[j].proc \in Procs
<1>1. images \in Seq(Image) /\ queue \in Seq(Message) /\ frames \in Seq(Frame)
  BY DEF ModulesIInv, ImagesOk, QueueOk, FramesOk
<1>2. /\ Len(maps) \in Nat /\ Len(images) \in Nat
      /\ \A p \in Procs : Len(m_ModuleList[p]) \in Nat
      /\ \A j \in 1..Len(maps) : maps[j] \in Mapping /\ maps[j].proc \in Procs
  BY <1>1, LengthsNat DEF ModulesIInv
<1>. QED
  BY <1>1, <1>2, NothingChanges, LenProperties

LEMMA OsMapIInv ==
    ASSUME ModulesIInv, NEW p \in Procs, NEW base \in Bases, NEW name \in Path,
           NEW reported \in BOOLEAN, OsMap(p, base, name, reported)
    PROVE  ModulesIInv'
<1>. DEFINE map == [proc |-> p, base |-> base, path |-> name, mapped |-> TRUE, reported |-> reported]
            load == [type |-> "load", map |-> Len(maps) + 1]
            n == Len(maps) + 1
<1>1. /\ maps' = Append(maps, map) /\ (p # System => name.form = "drive")
      /\ queue' = IF reported THEN Append(queue, load) ELSE queue
      /\ images' = images /\ m_ImageMap' = m_ImageMap /\ m_ModuleList' = m_ModuleList
      /\ frames' = frames
  BY DEF OsMap, mgrvars
<1>2. map \in Mapping /\ map.proc = p /\ map.path = name /\ map.reported = reported
  BY DEF Mapping
<1>3. load \in Message /\ load.type = "load" /\ load.map = n
  BY Lengths DEF Message
<1>. HIDE DEF map, load
<1>4. /\ maps' \in Seq(Mapping) /\ Len(maps') = n /\ maps'[n] = map
      /\ \A j \in 1..Len(maps) : maps'[j] = maps[j]
  BY <1>1, <1>2, AppendProperties DEF ModulesIInv, MapsOk
<1>5. Len(maps) \in Nat /\ \A j \in 1..Len(maps') : j \in 1..Len(maps) \/ j = n
  BY <1>4, Lengths
<1>6. MapsOk(maps')
  BY <1>1, <1>2, <1>4, <1>5 DEF ModulesIInv, MapsOk
<1>7. MapsGrow(maps, maps')
  BY <1>4, <1>5 DEF MapsGrow
<1>8. ListsOk(m_ModuleList, maps', images)
  BY <1>4, <1>5, <1>7, Lengths, ListsStay DEF ModulesIInv
<1>9. FramesOk(frames, maps', m_ModuleList, images)
  BY <1>4, <1>5, <1>7, Lengths, FramesStay DEF ModulesIInv
<1>10. QueueOk(queue', maps', m_ModuleList, images)
  <2>1. CASE ~reported
    <3>1. queue' = queue
      BY <1>1, <2>1
    <3>2. \A j \in 1..Len(maps') : j > Len(maps) => ~maps'[j].reported
      BY <1>2, <1>4, <1>5, <2>1
    <3>3. QueueOk(queue, maps', m_ModuleList, images)
      BY <1>4, <1>5, <1>7, <3>2, Lengths, QueueStays DEF ModulesIInv
    <3>. QED
      BY <3>1, <3>3
  <2>2. CASE reported
    <3>1. /\ queue' \in Seq(Message) /\ Len(queue') = Len(queue) + 1
          /\ queue'[Len(queue) + 1] = load
          /\ \A k \in 1..Len(queue) : queue'[k] = queue[k]
      BY <1>1, <1>3, <2>2, Lengths, AppendProperties
    <3>2. \A k \in 1..Len(queue') : k > Len(queue) => queue'[k] = load
      BY <3>1, Lengths
    <3>3. \A k \in 1..Len(queue') : k > Len(queue) =>
            queue'[k].map \in 1..Len(maps') /\ queue'[k].type # "stack"
      BY <1>3, <1>4, <1>5, <3>2
    <3>4. \E l \in 1..Len(queue') : Loads(queue'[l], n)
      <4>1. Len(queue) + 1 \in 1..Len(queue')
        BY <3>1, Lengths
      <4>. QED
        BY <1>3, <3>1, <4>1 DEF Loads
    <3>5. \A j \in 1..Len(maps') : j > Len(maps) => j = n
      BY <1>5
    <3>6. Len(queue) <= Len(queue')
      BY <3>1, Lengths
    <3>7. \A k \in 1..Len(queue') : k > Len(queue) =>
            /\ queue'[k].map \in 1..Len(maps')
            /\ queue'[k].type = "stack" => /\ queue'[k].map \in 1..Len(maps)
                                           /\ queue'[k].address \in CodeOf(maps[queue'[k].map])
      BY <3>3
    <3>8. \A j \in 1..Len(maps') : j > Len(maps) /\ maps'[j].reported =>
            \E l \in 1..Len(queue') : Loads(queue'[l], j)
      BY <3>4, <3>5
    <3>9. Len(maps') \in Nat
      BY <1>4, <1>5
    <3>. QED
      BY <1>7, <3>1, <3>6, <3>7, <3>8, <3>9, Lengths, QueueGrows DEF ModulesIInv
  <2>. QED
    BY <2>1, <2>2
<1>. QED
  BY <1>1, <1>6, <1>8, <1>9, <1>10 DEF ModulesIInv

LEMMA OsUnmapIInv ==
    ASSUME ModulesIInv, NEW i \in 1..Len(maps), OsUnmap(i)
    PROVE  ModulesIInv'
<1>. DEFINE map == [maps[i] EXCEPT !.mapped = FALSE]
<1>1. /\ maps' = [maps EXCEPT ![i].mapped = FALSE]
      /\ images' = images /\ m_ImageMap' = m_ImageMap /\ m_ModuleList' = m_ModuleList
      /\ frames' = frames /\ queue' = queue
  BY DEF OsUnmap, mgrvars
<1>2. /\ map \in Mapping /\ map.proc = maps[i].proc /\ map.base = maps[i].base
      /\ map.path = maps[i].path /\ map.reported = maps[i].reported
  BY Lengths DEF Mapping
<1>3. maps' = [maps EXCEPT ![i] = map]
  BY <1>1
<1>. HIDE DEF map
<1>4. /\ maps' \in Seq(Mapping) /\ Len(maps') = Len(maps)
      /\ \A j \in 1..Len(maps) : maps'[j] = IF j = i THEN map ELSE maps[j]
  BY <1>2, <1>3 DEF ModulesIInv, MapsOk
<1>5. MapsOk(maps')
  BY <1>2, <1>4 DEF ModulesIInv, MapsOk
<1>6. MapsGrow(maps, maps')
  BY <1>2, <1>4, Lengths DEF MapsGrow
<1>7. ListsOk(m_ModuleList, maps', images)
  BY <1>4, <1>6, Lengths, ListsStay DEF ModulesIInv
<1>8. FramesOk(frames, maps', m_ModuleList, images)
  BY <1>4, <1>6, Lengths, FramesStay DEF ModulesIInv
<1>9. QueueOk(queue, maps', m_ModuleList, images)
  <2>1. \A j \in 1..Len(maps') : ~(j > Len(maps))
    BY <1>4, Lengths
  <2>. QED
    BY <1>4, <1>6, <2>1, Lengths, QueueStays DEF ModulesIInv
<1>. QED
  BY <1>1, <1>5, <1>7, <1>8, <1>9 DEF ModulesIInv

LEMMA OsCallIInv ==
    ASSUME ModulesIInv, NEW i \in 1..Len(maps), NEW address \in CodeOf(maps[i]), OsCall(i, address)
    PROVE  ModulesIInv'
<1>. DEFINE m == [type |-> "stack", map |-> i, address |-> address]
<1>1. /\ queue' = Append(queue, m) /\ maps' = maps /\ frames' = frames
      /\ images' = images /\ m_ImageMap' = m_ImageMap /\ m_ModuleList' = m_ModuleList
  BY DEF OsCall, mgrvars
<1>2. m \in Message /\ m.map = i /\ m.address = address
  <2>1. maps[i].base \in Nat /\ Size(maps[i].path.file) \in Nat
    <3>1. maps[i] \in Mapping
      BY Lengths
    <3>. QED
      BY <3>1, AddressesAssumption DEF Mapping, Path
  <2>2. address \in Nat
    BY <2>1 DEF CodeOf
  <2>. QED
    BY <2>2, Lengths DEF Message
<1>. HIDE DEF m
<1>3. /\ queue' \in Seq(Message) /\ Len(queue') = Len(queue) + 1
      /\ queue'[Len(queue) + 1] = m
      /\ \A k \in 1..Len(queue) : queue'[k] = queue[k]
  BY <1>1, <1>2, Lengths, AppendProperties
<1>4. /\ \A k \in 1..Len(queue') : k > Len(queue) => queue'[k] = m
      /\ Len(queue) <= Len(queue')
      /\ \A j \in 1..Len(maps) : ~(j > Len(maps))
  BY <1>3, Lengths
<1>5. QueueOk(queue', maps, m_ModuleList, images)
  BY <1>2, <1>3, <1>4, Lengths, QueueGrows DEF ModulesIInv
<1>. QED
  BY <1>1, <1>5 DEF ModulesIInv

LEMMA OnPsLoadImageIInv == ModulesIInv /\ OnPsLoadImage => ModulesIInv'
<1>. SUFFICES ASSUME ModulesIInv, OnPsLoadImage PROVE ModulesIInv'
  OBVIOUS
<1>. DEFINE j    == Head(queue).map
            name == NormalizeFilePath(maps[j].path)
<1>1. /\ queue # <<>> /\ queue' = Tail(queue) /\ maps' = maps /\ frames' = frames
      /\ images' = ImagesWith(name) /\ m_ImageMap' = ImageMapWith(name)
      /\ m_ModuleList' = [m_ModuleList EXCEPT ![maps[j].proc] =
                            Append(@, [base |-> maps[j].base, image |-> ImageOf(name)])]
  BY DEF OnPsLoadImage
<1>2. Head(queue) = queue[1] /\ 1 \in 1..Len(queue)
  <2>1. Len(queue) # 0
    BY <1>1, Lengths, EmptySeq
  <2>. QED
    BY <2>1, Lengths
<1>3. j \in 1..Len(maps)
  BY <1>2 DEF ModulesIInv, QueueOk
<1>4. name \in Path /\ name.form = "drive" /\ name.file = maps[j].path.file
  <2>1. maps[j].path \in Path
    BY <1>3, Lengths DEF Mapping
  <2>. QED
    BY <2>1 DEF NormalizeFilePath, Path
<1>. HIDE DEF name
<1>5. /\ ImagesOk(images', m_ImageMap') /\ ImagesGrow(images, images')
      /\ ImageOf(name) \in 1..Len(images') /\ images'[ImageOf(name)].path.file = name.file
  BY <1>1, <1>4, ImageAdded DEF ModulesIInv
<1>6. images' \in Seq(Image)
  BY <1>5 DEF ImagesOk
<1>. HIDE DEF j
<1>7. /\ ListsOk(m_ModuleList', maps, images') /\ ListsGrow(m_ModuleList, m_ModuleList')
      /\ Known(maps[j], m_ModuleList', images')
      /\ \A p \in Procs : Len(m_ModuleList'[p]) \in Nat
  BY <1>1, <1>3, <1>4, <1>5, <1>6, Lengths, ModuleAdded DEF ModulesIInv
<1>8. FramesOk(frames, maps, m_ModuleList', images')
  BY <1>5, <1>7, Lengths, FramesStay DEF ModulesIInv
<1>9. QueueOk(queue', maps, m_ModuleList', images')
  BY <1>1, <1>2, <1>5, <1>7, Lengths, QueueShrinks DEF ModulesIInv, j
<1>. QED
  BY <1>1, <1>5, <1>7, <1>8, <1>9 DEF ModulesIInv

LEMMA CreateCallStacksIInv == ModulesIInv /\ CreateCallStacks => ModulesIInv'
<1>. SUFFICES ASSUME ModulesIInv, CreateCallStacks PROVE ModulesIInv'
  OBVIOUS
<1>. DEFINE m  == Head(queue)
            p  == maps[m.map].proc
            um == GetModuleFromAddress(p, m.address)
            f  == [proc |-> p, address |-> m.address, map |-> m.map, module |-> um]
<1>1. /\ queue # <<>> /\ m.type = "stack" /\ queue' = Tail(queue) /\ maps' = maps
      /\ images' = images /\ m_ImageMap' = m_ImageMap /\ m_ModuleList' = m_ModuleList
      /\ frames' = Append(frames, f)
  BY DEF CreateCallStacks, mgrvars
<1>2. m = queue[1] /\ 1 \in 1..Len(queue)
  <2>1. Len(queue) # 0
    BY <1>1, Lengths, EmptySeq
  <2>. QED
    BY <2>1, Lengths
<1>3. /\ m.map \in 1..Len(maps) /\ m.address \in CodeOf(maps[m.map]) /\ p \in Procs
      /\ maps[m.map].reported => Known(maps[m.map], m_ModuleList, images)
  <2>1. m.map \in 1..Len(maps) /\ m.address \in CodeOf(maps[m.map])
    BY <1>1, <1>2 DEF ModulesIInv, QueueOk
  <2>2. \A l \in 1..Len(queue) : ~(l < 1)
    BY Lengths
  <2>3. maps[m.map].reported => Known(maps[m.map], m_ModuleList, images)
    BY <1>1, <1>2, <2>2 DEF ModulesIInv, QueueOk
  <2>. QED
    BY <2>1, <2>3, Lengths
<1>4. m \in Message
  BY <1>2, Lengths
<1>5. m.address \in Nat /\ m.map \in Nat
  BY <1>1, <1>4 DEF Message
<1>6. /\ um \in Nat
      /\ um # 0 => /\ um \in 1..Len(m_ModuleList[p])
                   /\ Covers(m_ModuleList[p][um], m.address, images)
      /\ maps[m.map].reported => um # 0
  <2>1. maps[m.map].reported =>
          \E i \in 1..Len(m_ModuleList[p]) : Covers(m_ModuleList[p][i], m.address, images)
    BY <1>3, KnownCovers
  <2>. QED
    BY <1>3, <2>1, ModuleFound
<1>7. f \in Frame /\ FrameOk(f, maps, m_ModuleList, images)
  BY <1>3, <1>5, <1>6 DEF Frame, FrameOk
<1>. HIDE DEF f
<1>8. /\ frames' \in Seq(Frame) /\ Len(frames') = Len(frames) + 1
      /\ frames'[Len(frames) + 1] = f
      /\ \A i \in 1..Len(frames) : frames'[i] = frames[i]
  BY <1>1, <1>7, Lengths, AppendProperties
<1>9. FramesOk(frames', maps, m_ModuleList, images)
  <2>1. \A i \in 1..Len(frames') : i \in 1..Len(frames) \/ i = Len(frames) + 1
    BY <1>8, Lengths
  <2>. QED
    BY <1>7, <1>8, <2>1 DEF ModulesIInv, FramesOk
<1>10. QueueOk(queue', maps, m_ModuleList, images)
  BY <1>1, <1>2, Lengths, QueueShrinks DEF ModulesIInv
<1>. QED
  BY <1>1, <1>9, <1>10 DEF ModulesIInv

LEMMA FixFrameIInv ==
    ASSUME ModulesIInv, NEW i \in 1..Len(frames), FixFrame(i)
    PROVE  ModulesIInv'
<1>. DEFINE um == GetModuleFromAddress(frames[i].proc, frames[i].address)
            f  == [frames[i] EXCEPT !.module = um]
<1>1. /\ um # 0 /\ frames' = [frames EXCEPT ![i].module = um] /\ queue' = queue /\ maps' = maps
      /\ images' = images /\ m_ImageMap' = m_ImageMap /\ m_ModuleList' = m_ModuleList
  BY DEF FixFrame, mgrvars
<1>2. frames[i] \in Frame /\ FrameOk(frames[i], maps, m_ModuleList, images)
  BY Lengths DEF ModulesIInv, FramesOk
<1>3. /\ um \in Nat /\ um \in 1..Len(m_ModuleList[frames[i].proc])
      /\ Covers(m_ModuleList[frames[i].proc][um], frames[i].address, images)
  <2>1. frames[i].proc \in Procs
    BY <1>2 DEF Frame
  <2>. QED
    BY <1>1, <2>1, ModuleFound
<1>. HIDE DEF um
<1>4. f \in Frame /\ FrameOk(f, maps, m_ModuleList, images)
  BY <1>1, <1>2, <1>3 DEF Frame, FrameOk
<1>5. frames' = [frames EXCEPT ![i] = f]
  BY <1>1
<1>. HIDE DEF f
<1>6. FramesOk(frames', maps, m_ModuleList, images)
  BY <1>4, <1>5 DEF ModulesIInv, FramesOk
<1>. QED
  BY <1>1, <1>6 DEF ModulesIInv

\* Reading a file for functions leaves the paths of the images alone.
LEMMA LoadSymbolsSound ==
    ASSUME ImagesOk(images, m_ImageMap), NEW name \in Path, name.form = "drive",
           NEW readable \in BOOLEAN, LoadSymbols(name, readable)
    PROVE  /\ ImagesOk(images', m_ImageMap') /\ ImagesGrow(images, images')
           /\ ImageOf(name) \in 1..Len(images')
           /\ images'[ImageOf(name)].path.file = name.file
<1>. DEFINE I2 == ImagesWith(name)
            n  == ImageOf(name)
<1>1. PICK read \in BOOLEAN :
        images' = [I2 EXCEPT ![n].loaded = TRUE, ![n].funcs = @ \/ read]
  <2>1. \E read \in BOOLEAN :
          images' = [I2 EXCEPT ![n].loaded = TRUE, ![n].funcs = @ \/ read]
    BY DEF LoadSymbols
  <2>. QED
    BY <2>1
<1>2. /\ ImagesOk(I2, m_ImageMap') /\ ImagesGrow(images, I2)
      /\ n \in 1..Len(I2) /\ I2[n].path.file = name.file
  BY ImageAdded DEF LoadSymbols
<1>. HIDE DEF I2, n
<1>3. I2 \in Seq(Image) /\ I2[n] \in Image
  BY <1>2 DEF ImagesOk
<1>. DEFINE new == [[I2[n] EXCEPT !.loaded = TRUE] EXCEPT !.funcs = I2[n].funcs \/ read]
<1>4. new \in Image /\ new.path = I2[n].path
  <2>1. (I2[n].funcs \/ read) \in BOOLEAN
    BY <1>3 DEF Image
  <2>2. \A b \in BOOLEAN : LET r == [[I2[n] EXCEPT !.loaded = TRUE] EXCEPT !.funcs = b]
                           IN  r \in Image /\ r.path = I2[n].path
    BY <1>3 DEF Image
  <2>. QED
    BY <2>1, <2>2, Zenon
<1>5. /\ images' \in Seq(Image) /\ Len(images') = Len(I2)
      /\ \A i \in 1..Len(I2) : images'[i].path = I2[i].path
  <2>1. images' = [I2 EXCEPT ![n] = new]
    BY <1>1, <1>2, <1>3
  <2>. HIDE DEF new
  <2>. QED
    BY <1>2, <1>3, <1>4, <2>1
<1>6. ImagesOk(images', m_ImageMap')
  BY <1>2, <1>5 DEF ImagesOk
<1>7. ImagesGrow(images, images')
  <2>1. Len(images) \in Nat /\ Len(I2) \in Nat
    BY <1>3, LenProperties DEF ImagesOk
  <2>. QED
    BY <1>2, <1>5, <2>1 DEF ImagesGrow
<1>. QED
  BY <1>2, <1>5, <1>6, <1>7 DEF n

LEMMA QueryFrameIInv ==
    ASSUME ModulesIInv, NEW i \in 1..Len(frames), NEW readable \in BOOLEAN, QueryFrame(i, readable)
    PROVE  ModulesIInv'
<1>. DEFINE p == frames[i].proc
<1>1. /\ p # System /\ queue' = queue /\ maps' = maps /\ frames' = frames
      /\ \E j \in MappedIn(p) : OnQueuedAddModule(p, maps[j].base, maps[j].path, readable)
  BY DEF QueryFrame
<1>2. PICK j \in MappedIn(p) : OnQueuedAddModule(p, maps[j].base, maps[j].path, readable)
  BY <1>1
<1>3. j \in 1..Len(maps) /\ maps[j].proc = p
  BY DEF MappedIn
<1>. DEFINE name == maps[j].path
<1>4. name \in Path /\ name.form = "drive"
  <2>1. maps[j] \in Mapping
    BY <1>3, Lengths
  <2>2. name.form = "drive"
    BY <1>1, <1>3 DEF ModulesIInv, MapsOk
  <2>. QED
    BY <2>1, <2>2 DEF Mapping
<1>5. CASE UNCHANGED <<mgrvars, m_ModuleList>>
  BY <1>1, <1>5 DEF ModulesIInv, mgrvars
<1>6. CASE /\ LoadSymbols(name, readable)
           /\ m_ModuleList' = [m_ModuleList EXCEPT ![p] =
                                 Append(@, [base |-> maps[j].base, image |-> ImageOf(name)])]
  <2>1. /\ ImagesOk(images', m_ImageMap') /\ ImagesGrow(images, images')
        /\ ImageOf(name) \in 1..Len(images') /\ images'[ImageOf(name)].path.file = name.file
    BY <1>4, <1>6, LoadSymbolsSound DEF ModulesIInv
  <2>2. images' \in Seq(Image)
    BY <2>1 DEF ImagesOk
  <2>3. /\ ListsOk(m_ModuleList', maps, images') /\ ListsGrow(m_ModuleList, m_ModuleList')
        /\ \A q \in Procs : Len(m_ModuleList'[q]) \in Nat
    BY <1>3, <1>6, <2>1, <2>2, Lengths, ModuleAdded DEF ModulesIInv
  <2>4. FramesOk(frames, maps, m_ModuleList', images')
    BY <2>1, <2>3, Lengths, FramesStay DEF ModulesIInv
  <2>5. \A k \in 1..Len(maps) : ~(k > Len(maps))
    BY Lengths
  <2>6. QueueOk(queue, maps, m_ModuleList', images')
    BY <2>1, <2>3, <2>5, Lengths, QueueStays DEF ModulesIInv
  <2>. QED
    BY <1>1, <2>1, <2>3, <2>4, <2>6 DEF ModulesIInv
<1>. QED
  BY <1>2, <1>5, <1>6 DEF OnQueuedAddModule

\* The invariant holds in every behaviour.
THEOREM ModulesInvariance == SpecModules => []ModulesIInv
<1>1. InitModules => ModulesIInv
  BY ModulesInitIInv
<1>2. ModulesIInv /\ [NextModules]_moduleVars => ModulesIInv'
  <2>. SUFFICES ASSUME ModulesIInv, [NextModules]_moduleVars PROVE ModulesIInv'
    OBVIOUS
  <2>1. CASE Os
    BY <2>1, OsMapIInv, OsUnmapIInv, OsCallIInv DEF Os
  <2>2. CASE OnPsLoadImage \/ CreateCallStacks
    BY <2>2, OnPsLoadImageIInv, CreateCallStacksIInv
  <2>3. CASE Viewer
    BY <2>3, FixFrameIInv, QueryFrameIInv DEF Viewer
  <2>4. CASE UNCHANGED moduleVars
    BY <2>4 DEF moduleVars, mgrvars, ModulesIInv
  <2>. QED
    BY <2>1, <2>2, <2>3, <2>4 DEF NextModules
<1>. QED
  BY <1>1, <1>2, PTL DEF SpecModules

-----------------------------------------------------------------------------
(* What it gives. *)

\* GetImage (modulemgr.cpp) never makes a second CUniqueImage for a file, for
\* any spelling of its path by the driver or by a query.
THEOREM OneImageCorrect == SpecModules => []OneImagePerFile
<1>1. ModulesIInv => OneImagePerFile
  <2>. SUFFICES ASSUME ModulesIInv, NEW i \in 1..Len(images), NEW j \in 1..Len(images),
                       images[i].path.file = images[j].path.file
                PROVE  i = j
    BY DEF OneImagePerFile
  <2>1. images[i].path \in Path /\ images[j].path \in Path
    <3>1. images[i] \in Image /\ images[j] \in Image
      BY Lengths
    <3>. QED
      BY <3>1 DEF Image
  <2>2. images[i].path.form = "drive" /\ images[j].path.form = "drive"
    BY DEF ModulesIInv, ImagesOk
  <2>3. Upper(images[i].path) = Upper(images[j].path)
    BY <2>1, <2>2 DEF Upper, Path
  <2>4. m_ImageMap[Upper(images[i].path)] = i /\ m_ImageMap[Upper(images[j].path)] = j
    BY DEF ModulesIInv, ImagesOk
  <2>. QED
    BY <2>3, <2>4
<1>. QED
  BY <1>1, ModulesInvariance, PTL

\* A call from an image whose mapping the driver reported always finds its
\* module when CreateCallStacks handles the stack.
THEOREM FramesFoundCorrect == SpecModules => []ReportedFramesFound
<1>1. ModulesIInv => ReportedFramesFound
  BY DEF ModulesIInv, FramesOk, FrameOk, ReportedFramesFound
<1>. QED
  BY <1>1, ModulesInvariance, PTL

\* Where no other mapping of the process was ever at the address of a frame,
\* GetModuleFromAddress gave it the mapping the call was made from.
THEOREM FramesRightCorrect == SpecModules => []FramesRight
<1>1. ModulesIInv => FramesRight
  <2>. SUFFICES ASSUME ModulesIInv, NEW i \in 1..Len(frames), frames[i].module # 0,
                       ~ \E j \in 1..Len(maps) :
                           /\ maps[j].proc = frames[i].proc /\ j # frames[i].map
                           /\ frames[i].address \in
                                maps[j].base .. (maps[j].base + Size(maps[j].path.file))
                PROVE  Describes(m_ModuleList[frames[i].proc][frames[i].module],
                                 maps[frames[i].map], images)
    BY DEF FramesRight, Describes
  <2>. DEFINE f == frames[i]
              um == m_ModuleList[f.proc][f.module]
  <2>1. /\ f.map \in 1..Len(maps) /\ f.proc = maps[f.map].proc
        /\ f.module \in 1..Len(m_ModuleList[f.proc]) /\ Covers(um, f.address, images)
    BY DEF ModulesIInv, FramesOk, FrameOk
  <2>2. f.proc \in Procs
    BY <2>1, Lengths
  <2>3. PICK j \in 1..Len(maps) : maps[j].proc = f.proc /\ Describes(um, maps[j], images)
    BY <2>1, <2>2 DEF ModulesIInv, ListsOk
  <2>4. f.address \in maps[j].base .. (maps[j].base + Size(maps[j].path.file))
    BY <2>1, <2>3 DEF Covers, Describes
  <2>5. j = f.map
    BY <2>3, <2>4
  <2>. QED
    BY <2>3, <2>5
<1>. QED
  BY <1>1, ModulesInvariance, PTL

-----------------------------------------------------------------------------
(* Loops. *)

\* What holds before a loop of n rounds and is kept by each of them holds
\* after every round.
LEMMA EachRound ==
    ASSUME NEW n \in Nat, NEW P, 0 \in P, \A k \in 1..n : k - 1 \in P => k \in P
    PROVE  \A k \in 0..n : k \in P
<1>. SUFFICES ASSUME NEW b \in 0..n, b \notin P PROVE FALSE
  OBVIOUS
<1>. DEFINE Bad == {k \in 0..n : k \notin P}
<1>1. Bad \in SUBSET Nat /\ b \in Bad
  OBVIOUS
<1>2. PICK k \in Bad : \A j \in Bad : k <= j
  <2>. HIDE DEF Bad
  <2>. QED
    BY <1>1, LeastExists
<1>3. k \in 0..n /\ k \notin P /\ k # 0
  OBVIOUS
<1>4. k - 1 \in 0..n /\ ~(k <= k - 1) /\ k \in 1..n
  BY <1>3
<1>. QED
  BY <1>2, <1>3, <1>4

\* g has the states, of T, of a loop of n rounds from base.
Rounds(g, T, n, base, turn) ==
    /\ g \in [0..n -> T]
    /\ g[0] = base
    /\ \A i \in 1..n : g[i] = turn[i][g[i - 1]]

\* Every loop has such a function.
LEMMA Iterated ==
    ASSUME NEW T, NEW n \in Nat, NEW base \in T, NEW turn \in [1..n -> [T -> T]]
    PROVE  \E g : Rounds(g, T, n, base, turn)
<1>. DEFINE P(k) == \E g \in [0..k -> T] :
                      g[0] = base /\ \A i \in 1..k : g[i] = turn[i][g[i - 1]]
            Bad == {k \in 0..n : ~P(k)}
<1>1. Bad = {}
  <2>1. SUFFICES ASSUME NEW b \in Bad PROVE FALSE
    OBVIOUS
  <2>2. PICK k \in Bad : \A j \in Bad : k <= j
    <3>1. Bad \in SUBSET Nat
      OBVIOUS
    <3>. HIDE DEF Bad
    <3>. QED
      BY <2>1, <3>1, LeastExists
  <2>3. k \in 0..n /\ ~P(k)
    OBVIOUS
  <2>4. k # 0
    <3>1. P(0)
      <4>. DEFINE g == [i \in 0..0 |-> base]
      <4>1. g \in [0..0 -> T] /\ g[0] = base /\ \A i \in 1..0 : g[i] = turn[i][g[i - 1]]
        OBVIOUS
      <4>. HIDE DEF g
      <4>. QED
        BY <4>1
    <3>. QED
      BY <2>3, <3>1
  <2>5. k - 1 \in 0..n /\ k - 1 \notin Bad
    <3>1. k - 1 \in 0..n /\ ~(k <= k - 1)
      BY <2>3, <2>4
    <3>. HIDE DEF Bad
    <3>. QED
      BY <2>2, <3>1
  <2>6. P(k - 1)
    BY <2>5
  <2>7. PICK g \in [0..(k - 1) -> T] :
          g[0] = base /\ \A i \in 1..(k - 1) : g[i] = turn[i][g[i - 1]]
    BY <2>6
  <2>. DEFINE h == [i \in 0..k |-> IF i = k THEN turn[k][g[k - 1]] ELSE g[i]]
  <2>. HIDE DEF P, Bad
  <2>8. turn[k][g[k - 1]] \in T
    BY <2>3, <2>4
  <2>9. h \in [0..k -> T]
    BY <2>3, <2>8
  <2>10. h[0] = base /\ \A i \in 1..k : h[i] = turn[i][h[i - 1]]
    <3>1. \A i \in 0..k : h[i] = IF i = k THEN turn[k][g[k - 1]] ELSE g[i]
      OBVIOUS
    <3>2. 0 \in 0..k /\ \A i \in 1..k : i \in 0..k /\ i - 1 \in 0..k /\ i - 1 # k
      BY <2>3, <2>4
    <3>3. \A i \in 1..k : i # k => i \in 1..(k - 1)
      BY <2>3
    <3>. HIDE DEF h
    <3>. QED
      BY <2>4, <2>7, <3>1, <3>2, <3>3
  <2>11. P(k)
    <3>. HIDE DEF h
    <3>. QED
      BY <2>9, <2>10 DEF P
  <2>. QED
    BY <2>3, <2>11
<1>2. n \in 0..n
  OBVIOUS
<1>3. P(n)
  <2>. HIDE DEF P
  <2>. QED
    BY <1>1, <1>2
<1>. QED
  BY <1>3 DEF Rounds

-----------------------------------------------------------------------------
(* The functions of an image. *)

\* A list of functions.
HasOffsets(list) ==
    /\ Len(list) \in Nat
    /\ \A i \in 1..Len(list) : list[i].offset \in ULONG

ImageInv ==
    /\ exports \in Exports
    /\ funcList \in Seq([name : Names, offset : ULONG])
    /\ HasOffsets(m_NamedFunctions)
    /\ m_NamedFuncMaps = FuncMap(m_NamedFunctions)

LEMMA Exported ==
    ASSUME NEW table \in Exports
    PROVE  HasOffsets(EnumPEExport(table))
<1>. DEFINE n == Len(table.names)
            unread == {i \in 1..n : NameOf(table, i) = NoName}
            count == IF unread = {} THEN n ELSE Min(unread) - 1
            entry(i) == [name |-> NameOf(table, i), offset |-> table.functions[i]]
<1>1. n \in Nat /\ \A i \in 1..n : table.functions[i] \in ULONG
  BY ExportsAssumption
<1>2. count \in 0..n
  <2>1. CASE unread = {}
    BY <1>1, <2>1
  <2>2. CASE unread # {}
    <3>1. unread \in SUBSET Nat /\ \E i \in unread : TRUE
      BY <2>2
    <3>2. unread \subseteq 1..n
      OBVIOUS
    <3>. HIDE DEF unread
    <3>3. PICK m \in unread : \A i \in unread : m <= i
      BY <3>1, LeastExists
    <3>4. Min(unread) \in unread
      BY <3>3 DEF Min
    <3>5. ASSUME NEW k, k = Min(unread) PROVE k \in 1..n
      BY <3>2, <3>4, <3>5
    <3>. HIDE DEF n
    <3>6. \A k \in 1..n : k - 1 \in 0..n
      BY <1>1
    <3>. QED
      BY <2>2, <3>5, <3>6
  <2>. QED
    BY <2>1, <2>2
<1>3. EnumPEExport(table) = [i \in 1..count |-> entry(i)]
  BY DEF EnumPEExport
<1>. HIDE DEF count, n
<1>4. \A i \in 1..count : entry(i).offset \in ULONG
  BY <1>1, <1>2
<1>. HIDE DEF entry
<1>5. Len([i \in 1..count |-> entry(i)]) = count
  BY <1>1, <1>2
<1>. QED
  BY <1>1, <1>2, <1>3, <1>4, <1>5 DEF HasOffsets

\* The difference of two offsets of the lower half is not negative exactly if
\* the first is not the smaller one.
LEMMA LowerHalf ==
    ASSUME NEW a \in 0..MaxInt, NEW b \in 0..MaxInt
    PROVE  /\ Difference(a, b) \in Int
           /\ Difference(a, b) >= 0 <=> b <= a
           /\ b <= a => Difference(a, b) = a - b
BY MaxIntAssumption DEF Difference

\* Of the functions of a list up to the k-th, best is the nearest before an
\* offset, the first of them.
Nearest(list, Offset, k, best) ==
    /\ best \in 0..k
    /\ best = 0 => \A i \in 1..k : ~(list[i].offset <= Offset)
    /\ best # 0 => /\ list[best].offset <= Offset
                   /\ \A i \in 1..k : list[i].offset <= Offset => list[i].offset <= list[best].offset
                   /\ \A i \in 1..(best - 1) : list[i].offset # list[best].offset

LEMMA ClosestFound ==
    ASSUME NEW list, HasOffsets(list),
           NEW Offset \in 0..(MaxInt - 1), \A i \in 1..Len(list) : list[i].offset <= MaxInt
    PROVE  Nearest(list, Offset, Len(list), FindClosestFunction(list, Offset))
<1>. DEFINE n == Len(list)
            T == [delta : 0..MaxInt, idx : 0..n]
            start == [delta |-> MaxInt, idx |-> 0]
            Off(i) == Difference(Offset, list[i].offset)
            Step(i, best) == IF Off(i) >= 0 /\ Off(i) < best.delta
                             THEN [delta |-> Off(i), idx |-> i] ELSE best
            turn == [i \in 1..n |-> [best \in T |-> Step(i, best)]]
            Round(f) == [i \in 0..n |-> IF i = 0 THEN start ELSE Step(i, f[i - 1])]
            found == CHOOSE f : f = Round(f)
<1>1. n \in Nat /\ MaxInt \in Nat \ {0} /\ \A i \in 1..n : list[i].offset \in 0..MaxInt
  BY MaxIntAssumption DEF HasOffsets, ULONG
<1>2. FindClosestFunction(list, Offset) = found[n].idx
  BY DEF FindClosestFunction
<1>. HIDE DEF n
<1>3. \A i \in 1..n : /\ Off(i) \in Int
                      /\ Off(i) >= 0 <=> list[i].offset <= Offset
                      /\ list[i].offset <= Offset => Off(i) = Offset - list[i].offset
  <2>1. ASSUME NEW i \in 1..n, NEW b, b = list[i].offset
        PROVE  LET d == Difference(Offset, b)
               IN  d \in Int /\ (d >= 0 <=> b <= Offset) /\ (b <= Offset => d = Offset - b)
    <3>1. Offset \in 0..MaxInt /\ b \in 0..MaxInt
      BY <1>1, <2>1
    <3>. QED
      BY <3>1, LowerHalf
  <2>. QED
    BY <2>1
<1>. HIDE DEF Off
<1>4. start \in T /\ \A i \in 1..n, best \in T : Step(i, best) \in T
  <2>1. start \in T
    BY <1>1
  <2>2. ASSUME NEW i \in 1..n, NEW best \in T PROVE Step(i, best) \in T
    <3>1. best.delta \in 0..MaxInt
      OBVIOUS
    <3>2. CASE Off(i) >= 0 /\ Off(i) < best.delta
      <4>1. Off(i) \in 0..MaxInt /\ i \in 0..n
        BY <1>1, <1>3, <3>1, <3>2
      <4>. QED
        BY <3>2, <4>1
    <3>3. CASE ~(Off(i) >= 0 /\ Off(i) < best.delta)
      BY <3>3
    <3>. QED
      BY <3>2, <3>3
  <2>. QED
    BY <2>1, <2>2
<1>. HIDE DEF T, start, Step
<1>5. turn \in [1..n -> [T -> T]] /\ \A i \in 1..n, best \in T : turn[i][best] = Step(i, best)
  BY <1>4
<1>6. PICK g : Rounds(g, T, n, start, turn)
  <2>. HIDE DEF turn
  <2>. QED
    BY <1>1, <1>4, <1>5, Iterated
<1>7. g = Round(g)
  <2>1. g \in [0..n -> T] /\ g[0] = start /\ \A i \in 1..n : g[i] = turn[i][g[i - 1]]
    BY <1>6 DEF Rounds
  <2>2. \A i \in 1..n : i - 1 \in 0..n /\ g[i - 1] \in T
    BY <1>1, <2>1
  <2>. HIDE DEF turn
  <2>3. \A i \in 1..n : g[i] = Step(i, g[i - 1])
    BY <1>5, <2>1, <2>2
  <2>4. \A i \in 0..n : g[i] = Round(g)[i]
    BY <1>1, <2>1, <2>3
  <2>5. g = [i \in 0..n |-> g[i]]
    BY <2>1
  <2>. QED
    BY <2>4, <2>5
<1>8. found = Round(found)
  <2>. HIDE DEF Round
  <2>. QED
    BY <1>7
<1>. HIDE DEF found
<1>9. /\ found[0] = start
      /\ \A i \in 1..n : found[i] = Step(i, found[i - 1])
  <2>1. \A i \in 0..n : found[i] = Round(found)[i]
    BY <1>8
  <2>2. 0 \in 0..n /\ \A i \in 1..n : i \in 0..n /\ i # 0
    BY <1>1
  <2>. QED
    BY <2>1, <2>2
<1>. HIDE DEF Round, turn
<1>. DEFINE Good(k) == /\ found[k] \in T
                       /\ Nearest(list, Offset, k, found[k].idx)
                       /\ found[k].idx = 0 => found[k].delta = MaxInt
                       /\ found[k].idx # 0 => found[k].delta = Offset - list[found[k].idx].offset
            P == {k \in 0..n : Good(k)}
<1>10. 0 \in P
  <2>1. found[0].delta = MaxInt /\ found[0].idx = 0 /\ found[0] \in T
    BY <1>4, <1>9 DEF start
  <2>2. Nearest(list, Offset, 0, 0)
    BY DEF Nearest
  <2>. QED
    BY <1>1, <2>1, <2>2
<1>11. ASSUME NEW k \in 1..n, k - 1 \in P PROVE k \in P
  <2>. DEFINE best == found[k - 1].idx
              delta == found[k - 1].delta
              off(i) == list[i].offset
  <2>1. /\ k \in Nat /\ k \in 0..n /\ k # 0 /\ k \in 1..k
        /\ \A i \in 1..k : i \in 1..(k - 1) \/ i = k
    BY <1>1
  <2>2. /\ Good(k - 1) /\ found[k] = Step(k, found[k - 1])
    BY <1>9, <1>11
  <2>3. found[k] \in T
    BY <1>4, <2>2
  <2>4. /\ delta \in 0..MaxInt
        /\ best \in 0..(k - 1)
        /\ best = 0 => delta = MaxInt /\ \A i \in 1..(k - 1) : ~(off(i) <= Offset)
        /\ best # 0 => /\ off(best) <= Offset /\ delta = Offset - off(best)
                       /\ \A i \in 1..(k - 1) : off(i) <= Offset => off(i) <= off(best)
                       /\ \A i \in 1..(best - 1) : off(i) # off(best)
    BY <2>2 DEF Nearest, T
  <2>5. off(k) \in 0..MaxInt /\ (best # 0 => best \in 1..(k - 1) /\ off(best) \in 0..MaxInt)
    BY <1>1, <2>4
  <2>6. CASE Off(k) >= 0 /\ Off(k) < delta
    <3>1. found[k].idx = k /\ found[k].delta = Off(k)
      BY <2>2, <2>6 DEF Step
    <3>2. off(k) <= Offset /\ Off(k) = Offset - off(k)
      BY <1>3, <2>6
    <3>. HIDE DEF best, delta, off, Good
    <3>3. \A i \in 1..(k - 1) : off(i) <= Offset => off(i) <= off(k) /\ off(i) # off(k)
      <4>1. CASE best = 0
        BY <2>4, <4>1
      <4>2. CASE best # 0
        <5>1. off(best) < off(k)
          BY <2>4, <2>5, <2>6, <3>2, <4>2
        <5>2. \A i \in 1..(k - 1) : off(i) \in 0..MaxInt
          BY <1>1, <2>1 DEF off
        <5>. QED
          BY <2>4, <2>5, <4>2, <5>1, <5>2
      <4>. QED
        BY <4>1, <4>2
    <3>4. \A i \in 1..(k - 1) : off(i) # off(k)
      BY <3>2, <3>3
    <3>5. \A i \in 1..k : off(i) <= Offset => off(i) <= off(k)
      BY <2>1, <2>5, <3>3
    <3>6. Nearest(list, Offset, k, k)
      BY <2>1, <3>2, <3>4, <3>5 DEF Nearest, off
    <3>7. Good(k)
      BY <2>1, <2>3, <3>1, <3>2, <3>6 DEF Good, off
    <3>. QED
      BY <2>1, <3>7
  <2>7. CASE ~(Off(k) >= 0 /\ Off(k) < delta)
    <3>1. found[k] = found[k - 1]
      BY <2>2, <2>7 DEF Step
    <3>. HIDE DEF Good
    <3>2. Nearest(list, Offset, k, best)
      <4>. HIDE DEF best, delta, off
      <4>1. off(k) <= Offset => best # 0 /\ off(k) <= off(best)
        BY <1>1, <1>3, <2>4, <2>5, <2>7 DEF off
      <4>2. best = 0 => \A i \in 1..k : ~(off(i) <= Offset)
        BY <2>1, <2>4, <4>1
      <4>3. best # 0 => \A i \in 1..k : off(i) <= Offset => off(i) <= off(best)
        BY <2>1, <2>4, <4>1
      <4>4. best \in 0..k
        BY <2>1, <2>4
      <4>. QED
        BY <2>4, <4>2, <4>3, <4>4 DEF Nearest, off
    <3>3. Good(k)
      BY <2>2, <3>1, <3>2 DEF Good
    <3>. QED
      BY <2>1, <3>3
  <2>. QED
    BY <2>6, <2>7
<1>12. n \in P
  <2>1. n \in 0..n
    BY <1>1
  <2>. HIDE DEF P
  <2>. QED
    BY <1>1, <1>10, <1>11, <2>1, EachRound
<1>. QED
  BY <1>2, <1>12 DEF n

\* The greatest of the numbers up to n that a set has.
LEMMA GreatestExists ==
    ASSUME NEW n \in Nat, NEW S \in SUBSET (1..n), NEW x \in S
    PROVE  Max(S) \in S /\ \A y \in S : y <= Max(S)
<1>. DEFINE mirrored == {n - y : y \in S}
<1>1. mirrored \in SUBSET Nat /\ n - x \in mirrored
  OBVIOUS
<1>2. PICK m \in mirrored : \A y \in mirrored : m <= y
  <2>. HIDE DEF mirrored
  <2>. QED
    BY <1>1, LeastExists
<1>3. PICK z \in S : m = n - z
  OBVIOUS
<1>4. \A y \in S : z >= y
  <2>1. \A y \in S : n - y \in mirrored /\ y \in Nat
    OBVIOUS
  <2>. HIDE DEF mirrored
  <2>. QED
    BY <1>2, <1>3, <2>1
<1>. QED
  BY <1>3, <1>4 DEF Max

\* The symbol file has of a name what its last function has.
LEMMA LastWritten ==
    ASSUME NEW list, HasOffsets(list), NEW name
    PROVE  LET own == {i \in 1..Len(list) : list[i].name = name}
           IN  SymbolFileOffset(list, name) = IF own = {} THEN 0 ELSE list[Max(own)].offset
<1>. DEFINE n == Len(list)
            own == {i \in 1..n : list[i].name = name}
            Step(i, offset) == IF list[i].name = name THEN list[i].offset ELSE offset
            T == ULONG \cup {0}
            turn == [i \in 1..n |-> [offset \in T |-> Step(i, offset)]]
            Round(f) == [i \in 0..n |-> IF i = 0 THEN 0
                                        ELSE IF list[i].name = name THEN list[i].offset ELSE f[i - 1]]
            written == CHOOSE f : f = Round(f)
<1>1. n \in Nat /\ 0 \in T /\ \A i \in 1..n : list[i].offset \in T
  BY DEF HasOffsets
<1>2. SymbolFileOffset(list, name) = written[n]
  BY DEF SymbolFileOffset
<1>. HIDE DEF n, T
<1>3. turn \in [1..n -> [T -> T]] /\ \A i \in 1..n, offset \in T : turn[i][offset] = Step(i, offset)
  BY <1>1
<1>4. PICK g : Rounds(g, T, n, 0, turn)
  <2>. HIDE DEF turn
  <2>. QED
    BY <1>1, <1>3, Iterated
<1>5. g = Round(g)
  <2>1. g \in [0..n -> T] /\ g[0] = 0 /\ \A i \in 1..n : g[i] = turn[i][g[i - 1]]
    BY <1>4 DEF Rounds
  <2>2. \A i \in 1..n : i - 1 \in 0..n /\ g[i - 1] \in T
    BY <1>1, <2>1
  <2>. HIDE DEF turn
  <2>3. \A i \in 1..n : g[i] = Step(i, g[i - 1])
    BY <1>3, <2>1, <2>2
  <2>4. \A i \in 0..n : g[i] = Round(g)[i]
    BY <1>1, <2>1, <2>3
  <2>5. g = [i \in 0..n |-> g[i]]
    BY <2>1
  <2>. QED
    BY <2>4, <2>5
<1>6. written = Round(written)
  <2>. HIDE DEF Round
  <2>. QED
    BY <1>5
<1>. HIDE DEF written
<1>7. written[0] = 0 /\ \A i \in 1..n : written[i] = Step(i, written[i - 1])
  <2>1. \A i \in 0..n : written[i] = Round(written)[i]
    BY <1>6
  <2>2. 0 \in 0..n /\ \A i \in 1..n : i \in 0..n /\ i # 0
    BY <1>1
  <2>. QED
    BY <2>1, <2>2
<1>. DEFINE Good(k) == \/ written[k] = 0 /\ \A i \in 1..k : list[i].name # name
                       \/ \E last \in 1..k : /\ list[last].name = name
                                             /\ written[k] = list[last].offset
                                             /\ \A i \in (last + 1)..k : list[i].name # name
            P == {k \in 0..n : Good(k)}
<1>8. 0 \in P
  BY <1>1, <1>7
<1>9. ASSUME NEW k \in 1..n, k - 1 \in P PROVE k \in P
  <2>1. /\ k \in Nat /\ k \in 0..n /\ k \in 1..k /\ (k + 1)..k = {}
        /\ \A i \in 1..k : i \in 1..(k - 1) \/ i = k
    BY <1>1
  <2>2. Good(k - 1) /\ written[k] = Step(k, written[k - 1])
    BY <1>7, <1>9
  <2>3. CASE list[k].name = name
    BY <2>1, <2>2, <2>3
  <2>4. CASE list[k].name # name
    <3>1. written[k] = written[k - 1]
      BY <2>2, <2>4
    <3>2. CASE written[k - 1] = 0 /\ \A i \in 1..(k - 1) : list[i].name # name
      BY <2>1, <2>4, <3>1, <3>2
    <3>3. ASSUME NEW last \in 1..(k - 1), list[last].name = name, written[k - 1] = list[last].offset,
                 \A i \in (last + 1)..(k - 1) : list[i].name # name
          PROVE  k \in P
      <4>1. last \in 1..k /\ \A i \in (last + 1)..k : i \in (last + 1)..(k - 1) \/ i = k
        BY <2>1
      <4>2. Good(k)
        BY <2>4, <3>1, <3>3, <4>1
      <4>. QED
        BY <2>1, <4>2
    <3>. QED
      BY <2>2, <3>2, <3>3
  <2>. QED
    BY <2>3, <2>4
<1>10. Good(n)
  <2>1. n \in 0..n
    BY <1>1
  <2>2. n \in P
    <3>. HIDE DEF P
    <3>. QED
      BY <1>1, <1>8, <1>9, <2>1, EachRound
  <2>. QED
    BY <2>2
<1>11. own \in SUBSET (1..n)
  OBVIOUS
<1>12. CASE own = {}
  BY <1>2, <1>10, <1>12 DEF n
<1>13. CASE own # {}
  <2>1. PICK last \in 1..n : /\ list[last].name = name
                             /\ written[n] = list[last].offset
                             /\ \A i \in (last + 1)..n : list[i].name # name
    BY <1>10, <1>13
  <2>2. last \in own
    BY <2>1
  <2>3. Max(own) \in own /\ last <= Max(own)
    <3>. HIDE DEF own
    <3>. QED
      BY <1>1, <1>11, <2>2, GreatestExists
  <2>4. ASSUME NEW m, m = Max(own) PROVE m = last
    <3>1. m \in 1..n /\ list[m].name = name /\ last <= m
      BY <2>3, <2>4
    <3>2. m \notin (last + 1)..n
      BY <2>1, <3>1
    <3>. QED
      BY <1>1, <3>1, <3>2
  <2>5. Max(own) = last
    BY <2>4
  <2>. QED
    BY <1>2, <1>13, <2>1, <2>5 DEF n
<1>. QED
  BY <1>12, <1>13 DEF n

LEMMA ImageInvIsKept == SpecSymbols => []ImageInv
<1>1. InitSymbols => ImageInv
  <2>. SUFFICES ASSUME InitSymbols PROVE ImageInv
    OBVIOUS
  <2>1. HasOffsets(m_NamedFunctions)
    BY DEF InitSymbols, HasOffsets
  <2>2. m_NamedFuncMaps = FuncMap(m_NamedFunctions)
    <3>1. {m_NamedFunctions[i].name : i \in 1..Len(m_NamedFunctions)} = {}
      BY DEF InitSymbols
    <3>. QED
      BY <3>1 DEF InitSymbols, FuncMap
  <2>. QED
    BY <2>1, <2>2 DEF InitSymbols, ImageInv
<1>2. ImageInv /\ [NextSymbols]_symbolVars => ImageInv'
  <2>. SUFFICES ASSUME ImageInv, [NextSymbols]_symbolVars PROVE ImageInv'
    OBVIOUS
  <2>. DEFINE Func == [name : Names, offset : ULONG]
  <2>1. funcList \in Seq(Func)
    BY DEF ImageInv
  <2>2. ASSUME NEW name \in Names, NEW offset \in ULONG, NEW public \in BOOLEAN,
               EnumSymCallBack(name, offset, public)
        PROVE  ImageInv'
    <3>1. [name |-> name, offset |-> offset] \in Func
      OBVIOUS
    <3>2. funcList' \in Seq(Func)
      <4>. HIDE DEF Func
      <4>. QED
        BY <2>1, <2>2, <3>1, AppendProperties DEF EnumSymCallBack
    <3>. QED
      BY <2>2, <3>2 DEF EnumSymCallBack, ImageInv, HasOffsets, FuncMap, ULONG
  <2>3. CASE OnQueuedAddImage
    <3>1. HasOffsets(funcList)
      <4>1. Len(funcList) \in Nat /\ \A i \in 1..Len(funcList) : funcList[i] \in Func
        BY <2>1, LenProperties
      <4>. QED
        BY <4>1 DEF HasOffsets
    <3>2. HasOffsets(EnumPEExport(exports))
      BY Exported DEF ImageInv
    <3>3. ASSUME NEW list, list = IF funcList # <<>> THEN funcList ELSE EnumPEExport(exports)
          PROVE  HasOffsets(list)
      BY <3>1, <3>2, <3>3
    <3>4. /\ HasOffsets(m_NamedFunctions')
          /\ m_NamedFuncMaps' = FuncMap(m_NamedFunctions')
          /\ UNCHANGED <<exports, funcList>>
      BY <2>3, <3>3 DEF OnQueuedAddImage
    <3>. QED
      BY <3>4 DEF ImageInv, HasOffsets, FuncMap, ULONG
  <2>4. CASE UNCHANGED symbolVars
    BY <2>4 DEF symbolVars, ImageInv, HasOffsets, FuncMap, ULONG
  <2>. QED
    BY <2>2, <2>3, <2>4 DEF NextSymbols
<1>. QED
  BY <1>1, <1>2, PTL DEF SpecSymbols

\* An address is attributed to the function that starts nearest before it.
THEOREM ClosestCorrect == SpecSymbols => []ClosestIsNearest
<1>1. ImageInv => ClosestIsNearest
  <2>. DEFINE list == m_NamedFunctions
              n == Len(list)
  <2>. SUFFICES ASSUME ImageInv, NEW Offset \in {o \in ULONG : o < MaxInt},
                       \A i \in 1..n : list[i].offset <= MaxInt
                PROVE  LET before == {i \in 1..n : list[i].offset <= Offset}
                           nearest == {i \in before : \A j \in before : list[j].offset <= list[i].offset}
                       IN  FindClosestFunction(list, Offset) =
                             IF before = {} THEN 0 ELSE Min(nearest)
    BY DEF ClosestIsNearest
  <2>. DEFINE before == {i \in 1..n : list[i].offset <= Offset}
              nearest == {i \in before : \A j \in before : list[j].offset <= list[i].offset}
              best == FindClosestFunction(list, Offset)
  <2>1. HasOffsets(list) /\ n \in Nat /\ \A i \in 1..n : list[i].offset \in Nat
    BY DEF ImageInv, HasOffsets, ULONG
  <2>2. Offset \in 0..(MaxInt - 1)
    BY MaxIntAssumption DEF ULONG
  <2>3. Nearest(list, Offset, n, best)
    BY <2>1, <2>2, ClosestFound
  <2>. HIDE DEF n, list, best
  <2>4. CASE best = 0
    BY <2>3, <2>4 DEF Nearest, best, n, list
  <2>5. CASE best # 0
    <3>1. best \in 1..n /\ best \in before
      BY <2>1, <2>3, <2>5 DEF Nearest
    <3>2. best \in nearest
      BY <2>3, <2>5, <3>1 DEF Nearest
    <3>3. \A i \in nearest : best <= i
      <4>. SUFFICES ASSUME NEW i \in nearest, ~(best <= i) PROVE FALSE
        OBVIOUS
      <4>1. i \in 1..n /\ i \in before /\ list[i].offset = list[best].offset
        BY <2>1, <3>1, <3>2
      <4>2. i \in 1..(best - 1)
        BY <2>1, <3>1, <4>1
      <4>. QED
        BY <2>3, <2>5, <4>1, <4>2 DEF Nearest
    <3>4. \A i \in nearest : i \in Nat
      BY <2>1
    <3>5. best = Min(nearest)
      <4>. HIDE DEF nearest
      <4>. QED
        BY <3>2, <3>3, <3>4 DEF Min
    <3>. QED
      BY <2>5, <3>1, <3>5 DEF best, n, list
  <2>. QED
    BY <2>4, <2>5 DEF best, n, list
<1>. QED
  BY <1>1, ImageInvIsKept, PTL

\* The symbol file and the image agree on the offset of a name.
THEOREM SymbolFileCorrect == SpecSymbols => []FileAgreesWithImage
<1>1. ImageInv => FileAgreesWithImage
  <2>. DEFINE list == m_NamedFunctions
  <2>. SUFFICES ASSUME ImageInv, NEW name \in Names
                PROVE  SymbolFileOffset(list, name) = FindFunctionOffsetByName(name)
    BY DEF FileAgreesWithImage
  <2>. DEFINE own == {i \in 1..Len(list) : list[i].name = name}
  <2>1. HasOffsets(list) /\ m_NamedFuncMaps = FuncMap(list)
    BY DEF ImageInv
  <2>2. SymbolFileOffset(list, name) = IF own = {} THEN 0 ELSE list[Max(own)].offset
    BY <2>1, LastWritten
  <2>3. name \in DOMAIN m_NamedFuncMaps <=> own # {}
    BY <2>1 DEF FuncMap
  <2>4. own # {} => m_NamedFuncMaps[name] = list[Max(own)].offset
    BY <2>1, <2>3 DEF FuncMap
  <2>. QED
    BY <2>2, <2>3, <2>4 DEF FindFunctionOffsetByName
<1>. QED
  BY <1>1, ImageInvIsKept, PTL

=============================================================================
