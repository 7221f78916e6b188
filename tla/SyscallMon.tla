----------------------------- MODULE SyscallMon -----------------------------
(***************************************************************************)
(* The life of a monitor process (main.cpp, CSyscallMon, CMonitorWorker's  *)
(* thread, CDriverLoader) beside other processes of the same program that  *)
(* are started, rejected, closed and killed.  They share the named mutex,  *)
(* the driver and the driver's service keys in the registry.               *)
(*                                                                         *)
(* What main does when Initialize fails: it prints a message and goes on,  *)
(* so that a rejected process waits at the console and runs Uninitialize   *)
(* like any other.                                                         *)
(***************************************************************************)
EXTENDS Naturals, FiniteSets

CONSTANT Instances      \* processes of the program

VARIABLES
    pc,         \* main thread
    worker,     \* worker thread: "none" "wait" "read" "parse" "stopped"
    mutex,      \* m_hMutex: "none" (closed), "open", or "null", never created
    port,       \* m_hClientPort is connected to the driver
    named,      \* m_pServiceName is set (else empty)
    path,       \* m_pSysPath is set (else empty)
    quitEvent,  \* m_hQuitEvent: "null" "open" "signaled"
    inited,     \* the managers are initialized
    loaded,     \* the driver is in the kernel
    keys,       \* ImagePath in the "SyscallMon" and the "Services" key
    accident,   \* the driver was left loaded by a kill or a failed unload
    denied,     \* history: a process has gone on without the mutex
    lost        \* history: the last Install went on without writing ImagePath

proc == <<worker, mutex, port, named, path, quitEvent, inited>>
driver == <<loaded, keys, accident, lost>>
vars == <<pc, proc, driver, denied>>

Phases == {"off", "mutex", "privilege", "connect", "install", "load", "reconnect",
           "init", "start", "console", "wait", "disconnect", "uninstall", "unload",
           "release", "exit"}

Goto(i, from, to) == pc[i] = from /\ pc' = [pc EXCEPT ![i] = to]

Set(f, i, v) == [f EXCEPT ![i] = v]

-----------------------------------------------------------------------------
(* main and CSyscallMon::Initialize. *)

Start(i) ==
    /\ Goto(i, "off", "mutex")
    /\ UNCHANGED <<proc, driver, denied>>

\* Mutant: the mutex is created but nobody asks whether it existed.
Mutant_CreateMutex(i) ==
    /\ Goto(i, "mutex", "privilege")
    /\ \/ mutex' = Set(mutex, i, "open") /\ UNCHANGED denied
       \/ mutex' = Set(mutex, i, "null") /\ denied' = TRUE
    /\ UNCHANGED <<worker, port, named, path, quitEvent, inited, driver>>

\* A process that finds the mutex closes its handle and is rejected.  One that
\* gets no handle, for any other error (the mutex of another user's process
\* may not be opened), goes on: only ERROR_ALREADY_EXISTS is asked for.
CreateMutex(i) ==
    /\ \/ /\ \A j \in Instances : mutex[j] # "open"
          /\ Goto(i, "mutex", "privilege")
          /\ mutex' = Set(mutex, i, "open")
          /\ UNCHANGED denied
       \/ /\ \E j \in Instances : mutex[j] = "open"
          /\ Goto(i, "mutex", "console")
          /\ UNCHANGED <<mutex, denied>>
       \/ /\ Goto(i, "mutex", "privilege")
          /\ mutex' = Set(mutex, i, "null")
          /\ denied' = TRUE
    /\ UNCHANGED <<worker, port, named, path, quitEvent, inited, driver>>

\* The privileges may be refused and the driver's file may be missing.
CheckPrivileges(i) ==
    /\ \/ Goto(i, "privilege", "connect")
       \/ Goto(i, "privilege", "console")
    /\ UNCHANGED <<proc, driver, denied>>

\* The first Connect succeeds only if the driver is loaded already, and then
\* only the service's names are set.
Connect(i) ==
    /\ \/ /\ loaded
          /\ Goto(i, "connect", "init")
          /\ port' = Set(port, i, TRUE)
          /\ named' = Set(named, i, TRUE)
       \/ /\ Goto(i, "connect", "install")
          /\ UNCHANGED <<port, named>>
    /\ UNCHANGED <<worker, mutex, path, quitEvent, inited, driver, denied>>

\* CreateKeys writes the key of the service name: with an empty name that is
\* the Services key itself.
Key(i) == IF named[i] THEN "SyscallMon" ELSE "Services"

\* Mutant: the keys are written before the path is copied.
Mutant_Install(i) ==
    /\ named' = Set(named, i, TRUE)
    /\ path' = Set(path, i, TRUE)
    /\ \/ /\ Goto(i, "install", "load")
          /\ keys' = [keys EXCEPT !["SyscallMon"] = IF path[i] THEN "driver" ELSE "empty"]
          /\ lost' = FALSE
       \/ Goto(i, "install", "console") /\ UNCHANGED <<keys, lost>>
    /\ UNCHANGED <<worker, mutex, port, quitEvent, inited, loaded, accident, denied>>

\* Install, first half: the names are copied, then CreateKeys writes them.
\* CreateKeys fails if a key cannot be created, before or after ImagePath is
\* written; that a value cannot be written it does not notice.
Install(i) ==
    LET written == [keys EXCEPT !["SyscallMon"] = "driver"]
    IN  /\ named' = Set(named, i, TRUE)
        /\ path' = Set(path, i, TRUE)
        /\ \/ Goto(i, "install", "load") /\ keys' = written /\ lost' = FALSE
           \/ Goto(i, "install", "load") /\ UNCHANGED keys /\ lost' = TRUE
           \/ Goto(i, "install", "console") /\ keys' \in {keys, written} /\ UNCHANGED lost
        /\ UNCHANGED <<worker, mutex, port, quitEvent, inited, loaded, accident, denied>>

\* Install, second half: NtLoadDriver loads the file that ImagePath names, if
\* it can; a driver that is loaded already will do.
LoadDriver(i) ==
    /\ \/ /\ keys["SyscallMon"] = "driver"
          /\ Goto(i, "load", "reconnect")
          /\ loaded' = TRUE
       \/ Goto(i, "load", "console") /\ UNCHANGED loaded
    /\ UNCHANGED <<proc, keys, accident, lost, denied>>

\* Mutant: main returns when Initialize fails.
Mutant_Reconnect(i) ==
    /\ \/ loaded /\ Goto(i, "reconnect", "init") /\ port' = Set(port, i, TRUE)
       \/ Goto(i, "reconnect", "exit") /\ UNCHANGED port
    /\ UNCHANGED <<worker, mutex, named, path, quitEvent, inited, driver, denied>>

\* The second Connect, to the driver just loaded, may fail all the same.
Reconnect(i) ==
    /\ \/ loaded /\ Goto(i, "reconnect", "init") /\ port' = Set(port, i, TRUE)
       \/ Goto(i, "reconnect", "console") /\ UNCHANGED port
    /\ UNCHANGED <<worker, mutex, named, path, quitEvent, inited, driver, denied>>

\* The quit event is created, capture enabled, and the process and event
\* managers are initialized.
InitManagers(i) ==
    /\ Goto(i, "init", "start")
    /\ quitEvent' = Set(quitEvent, i, "open")
    /\ inited' = Set(inited, i, TRUE)
    /\ UNCHANGED <<worker, mutex, port, named, path, driver, denied>>

StartWorker(i) ==
    /\ Goto(i, "start", "console")
    /\ worker' = Set(worker, i, "wait")
    /\ UNCHANGED <<mutex, port, named, path, quitEvent, inited, driver, denied>>

-----------------------------------------------------------------------------
(* CSyscallMon::Uninitialize, whether Initialize succeeded or not. *)

\* Mutant: the event is closed but the member keeps the handle.
Mutant_Quit(i) ==
    /\ Goto(i, "console", "wait")
    /\ UNCHANGED <<proc, driver, denied>>

\* The user ends the console loop.  Quit closes the event; nobody sets it.
Quit(i) ==
    /\ Goto(i, "console", "wait")
    /\ quitEvent' = Set(quitEvent, i, "null")
    /\ UNCHANGED <<worker, mutex, port, named, path, inited, driver, denied>>

\* Mutant: the worker itself is waited for.
Mutant_Wait(i) ==
    /\ worker[i] \in {"none", "stopped"}
    /\ Goto(i, "wait", "disconnect")
    /\ UNCHANGED <<proc, driver, denied>>

\* wait() waits for the event's handle, which Quit has made null: it returns
\* at once, and Uninitialize finds nothing left to close.
Wait(i) ==
    /\ Goto(i, "wait", "disconnect")
    /\ UNCHANGED <<proc, driver, denied>>

Disconnect(i) ==
    /\ Goto(i, "disconnect", "uninstall")
    /\ port' = Set(port, i, FALSE)
    /\ UNCHANGED <<worker, mutex, named, path, quitEvent, inited, driver, denied>>

\* Uninstall, first half: CreateKeys writes what Install or the first Connect
\* left in the loader, or fails to without noticing; when it fails itself the
\* driver stays.
Uninstall(i) ==
    /\ keys' \in {keys, [keys EXCEPT ![Key(i)] = IF path[i] THEN "driver" ELSE "empty"]}
    /\ \/ Goto(i, "uninstall", "unload") /\ UNCHANGED accident
       \/ Goto(i, "uninstall", "release") /\ accident' = (accident \/ named[i])
    /\ UNCHANGED <<proc, loaded, lost, denied>>

\* Mutant: a driver of any name is unloaded.
Mutant_UnloadDriver(i) ==
    /\ Goto(i, "unload", "release")
    /\ \/ loaded' = FALSE /\ accident' = FALSE /\ port' = [j \in Instances |-> FALSE]
       \/ UNCHANGED <<loaded, port>> /\ accident' = (accident \/ named[i])
    /\ UNCHANGED <<worker, mutex, named, path, quitEvent, inited, keys, lost, denied>>

\* Uninstall, second half: ZwUnloadDriver of the service name; an empty one
\* names no driver.  A driver that is unloaded ends its connections.
UnloadDriver(i) ==
    /\ Goto(i, "unload", "release")
    /\ \/ /\ named[i]
          /\ loaded' = FALSE
          /\ accident' = FALSE
          /\ port' = [j \in Instances |-> FALSE]
       \/ UNCHANGED <<loaded, port>> /\ accident' = (accident \/ named[i])
    /\ UNCHANGED <<worker, mutex, named, path, quitEvent, inited, keys, lost, denied>>

\* m_hMutex is closed, for a rejected process a second time.
CloseMutex(i) ==
    /\ Goto(i, "release", "exit")
    /\ mutex' = Set(mutex, i, "none")
    /\ UNCHANGED <<worker, port, named, path, quitEvent, inited, driver, denied>>

\* The process is gone, and with it its threads and handles.
Gone(i) ==
    /\ worker' = Set(worker, i, "none")
    /\ mutex' = Set(mutex, i, "none")
    /\ port' = Set(port, i, FALSE)
    /\ named' = Set(named, i, FALSE)
    /\ path' = Set(path, i, FALSE)
    /\ quitEvent' = Set(quitEvent, i, "null")
    /\ inited' = Set(inited, i, FALSE)

Exit(i) ==
    /\ Goto(i, "exit", "off")
    /\ Gone(i)
    /\ UNCHANGED <<driver, denied>>

Kill(i) ==
    /\ pc[i] # "off"
    /\ pc' = [pc EXCEPT ![i] = "off"]
    /\ accident' = (accident \/ named[i])
    /\ Gone(i)
    /\ UNCHANGED <<loaded, keys, lost, denied>>

-----------------------------------------------------------------------------
(* CMonitorWorker::run. *)

\* The wait for the quit event: it ends the loop only if the event is set; a
\* timeout and a failure (a null handle) both go on to Read.
CheckQuit(i) ==
    /\ worker[i] = "wait"
    /\ worker' = Set(worker, i, IF quitEvent[i] = "signaled" THEN "stopped" ELSE "read")
    /\ UNCHANGED <<pc, mutex, port, named, path, quitEvent, inited, driver, denied>>

\* Read blocks until the driver has a message.
ReadMessage(i) ==
    /\ worker[i] = "read"
    /\ port[i]
    /\ worker' = Set(worker, i, "parse")
    /\ UNCHANGED <<pc, mutex, port, named, path, quitEvent, inited, driver, denied>>

ParseMessage(i) ==
    /\ worker[i] = "parse"
    /\ worker' = Set(worker, i, "wait")
    /\ UNCHANGED <<pc, mutex, port, named, path, quitEvent, inited, driver, denied>>

\* Read fails when there is no connection, and the quit event is asked again.
ReadError(i) ==
    /\ worker[i] = "read"
    /\ ~port[i]
    /\ worker' = Set(worker, i, IF quitEvent[i] = "signaled" THEN "stopped" ELSE "wait")
    /\ UNCHANGED <<pc, mutex, port, named, path, quitEvent, inited, driver, denied>>

-----------------------------------------------------------------------------
Init ==
    /\ pc = [i \in Instances |-> "off"]
    /\ worker = [i \in Instances |-> "none"]
    /\ mutex = [i \in Instances |-> "none"]
    /\ port = [i \in Instances |-> FALSE]
    /\ named = [i \in Instances |-> FALSE]
    /\ path = [i \in Instances |-> FALSE]
    /\ quitEvent = [i \in Instances |-> "null"]
    /\ inited = [i \in Instances |-> FALSE]
    /\ loaded = FALSE
    /\ keys = [k \in {"SyscallMon", "Services"} |-> "none"]
    /\ accident = FALSE
    /\ denied = FALSE
    /\ lost = FALSE

Initialize(i) ==
    \/ CreateMutex(i) \/ CheckPrivileges(i) \/ Connect(i) \/ Install(i)
    \/ LoadDriver(i) \/ Reconnect(i) \/ InitManagers(i) \/ StartWorker(i)

Uninitialize(i) ==
    \/ Wait(i) \/ Disconnect(i) \/ Uninstall(i) \/ UnloadDriver(i)
    \/ CloseMutex(i) \/ Exit(i)

Worker(i) == CheckQuit(i) \/ ReadMessage(i) \/ ParseMessage(i) \/ ReadError(i)

Next ==
    \E i \in Instances :
        \/ Start(i) \/ Quit(i) \/ Kill(i)
        \/ Initialize(i) \/ Uninitialize(i) \/ Worker(i)

Spec == Init /\ [][Next]_vars

\* Both threads run; starting, quitting and killing are up to the user.
FairSpec ==
    Spec /\ \A i \in Instances :
              WF_vars(Initialize(i)) /\ WF_vars(Uninitialize(i)) /\ WF_vars(Worker(i))

-----------------------------------------------------------------------------
(* Properties. *)

\* Every variable holds values of its type, and the quit event is open only
\* from InitManagers to Quit, the service's path set only with its name.
TypeOK ==
    /\ pc \in [Instances -> Phases]
    /\ worker \in [Instances -> {"none", "wait", "read", "parse", "stopped"}]
    /\ mutex \in [Instances -> {"none", "open", "null"}]
    /\ port \in [Instances -> BOOLEAN]
    /\ named \in [Instances -> BOOLEAN]
    /\ path \in [Instances -> BOOLEAN]
    /\ quitEvent \in [Instances -> {"null", "open", "signaled"}]
    /\ inited \in [Instances -> BOOLEAN]
    /\ loaded \in BOOLEAN
    /\ keys \in [{"SyscallMon", "Services"} -> {"none", "empty", "driver"}]
    /\ accident \in BOOLEAN
    /\ denied \in BOOLEAN
    /\ lost \in BOOLEAN
    /\ \A i \in Instances : quitEvent[i] = "open" => pc[i] \in {"start", "console"}
    /\ \A i \in Instances : path[i] => named[i]

\* A process has a part in the driver from the moment it can install, load or
\* unload it until it has closed the mutex.
Uses(i) == named[i] /\ pc[i] # "exit"

\* "Syscall Monitor is already running!": of two processes that use the driver
\* at the same time one has gone on without the mutex, since it could not be
\* created; rejected ones go on to Uninitialize but have no part in the driver.
OneMonitor ==
    \A i, j \in Instances :
        Uses(i) /\ Uses(j) /\ i # j => mutex[i] = "null" \/ mutex[j] = "null"

\* A connection ends by the Disconnect or the end of its own process; another
\* process unloads the driver under it only if one of the two has no mutex.
ConnectionKept ==
    [][\A i \in Instances :
         port[i] /\ ~port'[i] /\ pc'[i] = pc[i] =>
            \E j \in Instances \ {i} :
                pc[j] = "unload" /\ "null" \in {mutex[i], mutex[j]}]_vars

\* When NtLoadDriver is called the service's ImagePath is the driver's file,
\* although a process that only attached overwrites it with an empty path when
\* it is closed: unless the value could not be written, or a process has run
\* without the mutex.
LoadsTheDriver ==
    ~denied /\ ~lost => \A i \in Instances : pc[i] = "load" => keys["SyscallMon"] = "driver"

\* A message is parsed only when the managers it is handed to are ready.
ParsesInitialized == \A i \in Instances : worker[i] = "parse" => inited[i]

\* Unless a process was killed or an unload failed, no process of the program
\* running means no driver loaded, also after an initialization that failed.
NothingLeftBehind ==
    (\A i \in Instances : pc[i] = "off") /\ ~accident => ~loaded

\* Closing the program ends it, whatever the worker is doing.
ShutdownTerminates == \A i \in Instances : pc[i] = "wait" ~> pc[i] = "off"
=============================================================================
