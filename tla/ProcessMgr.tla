----------------------------- MODULE ProcessMgr -----------------------------
(***************************************************************************)
(* How CProcessMgr builds and maintains the process table while the system *)
(* it observes goes on creating and ending processes.                      *)
(*                                                                         *)
(*   main thread    SetCaptureEnable, then CProcessMgr::Initialize         *)
(*                  (EnumSystemModules, EnumProcesses, FillParent for all),*)
(*                  then the worker is started (syscallmon.cpp 446-450)    *)
(*   worker thread  takes the driver's messages in order and handles the   *)
(*                  process notifications (CEventMgr::OnPsCreateProcess)   *)
(*   system         creates and ends processes; external, with the driver  *)
(*                  that turns both into messages once capture is enabled  *)
(***************************************************************************)
EXTENDS ProcessTable

CONSTANTS Unqueryable,  \* ids of processes whose image path cannot be read
          BootClock,    \* creation times 1..BootClock precede the monitor
          MaxClock,     \* bound: the last creation time
          MaxQueue      \* bound: messages waiting in the driver

ASSUME PidsAssumption == Pids \subseteq {p \in Nat : p > SystemPid}
ASSUME UnqueryableAssumption == Unqueryable \subseteq Pids
ASSUME BoundsAssumption == BootClock \in Nat /\ MaxClock \in Nat /\ MaxQueue \in Nat

VARIABLES
    list, keyMap, idMap,  \* the process table
    psSystem,   \* m_PsSystemProcess
    pc,         \* main thread: "capture" "modules" "snapshot" "base" "path" "parents" "run"
    toEnum,     \* process ids of the EnumProcesses snapshot not visited yet
    base,       \* the visited process: what GetProcessBaseInfo returned
    cursor,     \* loop index of FillList's FillParent loop
    capture,    \* the driver produces notifications
    queue,      \* notifications not handled yet, oldest first
    os,         \* os[p]: creation time (0: not running) and parent id of p
    clock,      \* last creation time handed out
    unread,     \* ids whose enumeration failed while their process ran
    used,       \* ids that name, or named, a process someone may refer to
    reused      \* an id of used was handed out again

table == <<list, keyMap, idMap, psSystem>>
main  == <<pc, toEnum, base, cursor>>
sys   == <<os, clock, used, reused>>
vars  == <<table, main, unread, capture, queue, sys>>

Parents == Pids \cup {SystemPid}
OsEntry == [ctime : Nat, ppid : Parents]
Notice  == [create : BOOLEAN, pid : Pids, ppid : Parents, ctime : Nat]
NoBase  == [pid |-> 0, ppid |-> 0, ctime |-> 0]

Live == {p \in Pids : os[p].ctime > 0}

\* The driver queues a notification when capture is enabled.
Notify(m) == queue' = IF capture THEN Append(queue, m) ELSE queue

-----------------------------------------------------------------------------
(* The system. *)

\* Any set of processes is running, with any parent ids: a parent may have
\* ended, and its id may already name a younger process.
OsInit ==
    /\ os \in [Pids -> [ctime : 0..BootClock, ppid : Parents]]
    /\ \A p, q \in Live : p # q => os[p].ctime # os[q].ctime
    /\ \A p \in Pids : p \notin Live => os[p].ppid = SystemPid
    /\ \A p \in Live : os[p].ppid # p
    /\ clock = BootClock
    /\ used = Live \cup {os[p].ppid : p \in Live}
    /\ reused = (\E p, q \in Live : os[p].ppid = q /\ os[q].ctime > os[p].ctime)

OsCreate(p, parent) ==
    /\ p \notin Live
    /\ parent \in Live \cup {SystemPid}
    /\ clock < MaxClock
    /\ Len(queue) < MaxQueue
    /\ clock' = clock + 1
    /\ os' = [os EXCEPT ![p] = [ctime |-> clock + 1, ppid |-> parent]]
    /\ used' = used \cup {p}
    /\ reused' = (reused \/ p \in used)
    /\ Notify([create |-> TRUE, pid |-> p, ppid |-> parent, ctime |-> clock + 1])
    /\ UNCHANGED <<table, main, unread, capture>>

OsExit(p) ==
    /\ p \in Live
    /\ Len(queue) < MaxQueue
    /\ os' = [os EXCEPT ![p] = [ctime |-> 0, ppid |-> SystemPid]]
    /\ Notify([create |-> FALSE, pid |-> p, ppid |-> os[p].ppid,
               ctime |-> os[p].ctime])
    /\ UNCHANGED <<table, main, unread, capture, clock, used, reused>>

-----------------------------------------------------------------------------
(* The main thread. *)

\* InsertProcess as an action: the new object is the last one of the list.
InsertProcess(up) ==
    /\ list' = ListWith(list, up)
    /\ keyMap' = KeyMapWith(keyMap, up, Len(list) + 1)
    /\ idMap' \in IdMapOrders(ListWith(list, up))

\* SetCaptureEnable(true): the result of the driver call is ignored.
SetCaptureEnable ==
    /\ pc = "capture"
    /\ pc' = "modules"
    /\ capture' \in BOOLEAN
    /\ UNCHANGED <<table, toEnum, base, cursor, unread, queue, sys>>

\* EnumSystemModules calls EnumSystemModuleProc with the kernel image, which
\* makes the object of the System process; its creation time is whatever the
\* variable held when GetProcessBaseInfo fails.  The query itself may fail.
EnumSystemModules ==
    /\ pc = "modules"
    /\ pc' = "snapshot"
    /\ \/ \E t \in {0, 1} :
            /\ InsertProcess(CUniqueProcess(SystemPid, 0, t))
            /\ psSystem' = Len(list) + 1
       \/ UNCHANGED table
    /\ UNCHANGED <<toEnum, base, cursor, unread, capture, queue, sys>>

\* NtQuerySystemInformation takes a snapshot of the running processes; when
\* it fails EnumProcesses returns and the table stays without them.
EnumProcesses ==
    /\ pc = "snapshot"
    /\ pc' = "base"
    /\ \/ toEnum' = Live /\ UNCHANGED unread
       \/ toEnum' = {} /\ unread' = Live
    /\ UNCHANGED <<table, base, cursor, capture, queue, sys>>

\* EnumProcessProc(ProcessId), first driver call: the process may have ended
\* since the snapshot, or its id may name another one.
GetProcessBaseInfo(p) ==
    /\ pc = "base"
    /\ p \in toEnum
    /\ toEnum' = toEnum \ {p}
    /\ IF p \in Live
         THEN /\ base' = [pid |-> p, ppid |-> os[p].ppid, ctime |-> os[p].ctime]
              /\ pc' = "path"
         ELSE UNCHANGED <<base, pc>>
    /\ UNCHANGED <<table, cursor, unread, capture, queue, sys>>

\* EnumProcessProc, second driver call: without an image path there is no
\* object.
GetProcessImagePath ==
    /\ pc = "path"
    /\ pc' = "base"
    /\ base' = NoBase
    /\ IF base.pid \in Live \ Unqueryable
         THEN InsertProcess(CUniqueProcess(base.pid, base.ppid, base.ctime))
         ELSE UNCHANGED <<list, keyMap, idMap>>
    /\ unread' = unread \cup ({base.pid} \cap Live \cap Unqueryable)
    /\ UNCHANGED <<psSystem, toEnum, cursor, capture, queue, sys>>

\* Every process of the snapshot has been visited.
EnumProcessesDone ==
    /\ pc = "base"
    /\ toEnum = {}
    /\ pc' = "parents"
    /\ cursor' = 1
    /\ UNCHANGED <<table, toEnum, base, unread, capture, queue, sys>>

\* One turn of FillList's last loop.
FillNextParent ==
    /\ pc = "parents"
    /\ cursor <= Len(list)
    /\ list' = FillParent(list, idMap, cursor)
    /\ cursor' = cursor + 1
    /\ UNCHANGED <<keyMap, idMap, psSystem, pc, toEnum, base, unread, capture, queue, sys>>

\* Mutant: messages that arrived during the enumeration are discarded.
Mutant_StartWorker ==
    /\ pc = "parents"
    /\ cursor > Len(list)
    /\ pc' = "run"
    /\ queue' = <<>>
    /\ UNCHANGED <<table, toEnum, base, cursor, unread, capture, sys>>

\* The loop is over: CSyscallMon::Initialize starts the worker.
StartWorker ==
    /\ pc = "parents"
    /\ cursor > Len(list)
    /\ pc' = "run"
    /\ UNCHANGED <<table, toEnum, base, cursor, unread, capture, queue, sys>>

-----------------------------------------------------------------------------
(* The worker thread: OnPsCreateProcess, one message at a time. *)

\* A creation: an object is made only if Find returns nothing for the id.
OnPsCreate ==
    /\ pc = "run"
    /\ queue # <<>>
    /\ Head(queue).create
    /\ queue' = Tail(queue)
    /\ LET m  == Head(queue)
           up == CUniqueProcess(m.pid, m.ppid, m.ctime)
           n  == Len(list) + 1
       IN  IF Find(list, idMap, m.pid) = NULL
             THEN \E order \in IdMapOrders(ListWith(list, up)) :
                    /\ idMap' = order
                    /\ list' = FillParent(ListWith(list, up), order, n)
                    /\ keyMap' = KeyMapWith(keyMap, up, n)
             ELSE UNCHANGED <<list, keyMap, idMap>>
    /\ UNCHANGED <<psSystem, main, unread, capture, sys>>

\* An exit: whatever object Find returns for the id is marked dead.
OnPsDestroy ==
    /\ pc = "run"
    /\ queue # <<>>
    /\ ~Head(queue).create
    /\ queue' = Tail(queue)
    /\ list' = Kill(list, Find(list, idMap, Head(queue).pid))
    /\ UNCHANGED <<keyMap, idMap, psSystem, main, unread, capture, sys>>

-----------------------------------------------------------------------------
Init ==
    /\ list = <<>> /\ keyMap = <<>> /\ idMap = <<>> /\ psSystem = NULL
    /\ pc = "capture" /\ toEnum = {} /\ base = NoBase /\ cursor = 1
    /\ unread = {}
    /\ capture = FALSE
    /\ queue = <<>>
    /\ OsInit

Main ==
    \/ SetCaptureEnable
    \/ EnumSystemModules
    \/ EnumProcesses
    \/ \E p \in Pids : GetProcessBaseInfo(p)
    \/ GetProcessImagePath
    \/ EnumProcessesDone
    \/ FillNextParent
    \/ StartWorker

Worker == OnPsCreate \/ OnPsDestroy

System ==
    \/ \E p \in Pids, parent \in Parents : OsCreate(p, parent)
    \/ \E p \in Pids : OsExit(p)

Next == Main \/ Worker \/ System

Spec == Init /\ [][Next]_vars

\* Both threads run whenever they can: neither waits for anything but its
\* own next step, and the system may stay idle.
FairSpec == Spec /\ WF_vars(Main) /\ WF_vars(Worker)

-----------------------------------------------------------------------------
(* Properties. *)

Objects == 1..Len(list)

\* Every variable holds values of its type; in particular object references
\* stay inside the list.
TypeOK ==
    /\ list \in Seq(Process)
    /\ \A n \in Objects : list[n].parent \in 0..Len(list)
    /\ psSystem \in 0..Len(list)
    /\ idMap \in Seq(Nat)
    /\ pc \in {"capture", "modules", "snapshot", "base", "path", "parents", "run"}
    /\ toEnum \subseteq Pids
    /\ base \in [pid : Ids, ppid : Ids, ctime : Nat]
    /\ cursor \in Nat
    /\ unread \subseteq Pids
    /\ capture \in BOOLEAN
    /\ queue \in Seq(Notice)
    /\ os \in [Pids -> OsEntry]
    /\ clock \in Nat
    /\ used \subseteq Parents
    /\ reused \in BOOLEAN

\* The multimap's entries are exactly the objects of the list, each once: a
\* walk over the multimap misses no process and meets none twice, although
\* insertions come from two threads and reorder it.
IdMapIsList ==
    /\ Len(idMap) = Len(list)
    /\ \A i \in 1..Len(idMap) : idMap[i] \in Objects
    /\ \A i, j \in 1..Len(idMap) : idMap[i] = idMap[j] => i = j
    /\ \A n \in Objects : \E i \in 1..Len(idMap) : idMap[i] = n

\* m_KeyMap and m_List agree: every object is the entry of its own key.
KeyMapIsList ==
    \A n \in Objects :
        /\ <<list[n].pid, list[n].ctime>> \in DOMAIN keyMap
        /\ keyMap[<<list[n].pid, list[n].ctime>>] = n

\* The three containers InsertProcess fills one after the other agree, also in
\* the walk over the one that is reordered by it.
ContainersAgree == IdMapIsList /\ KeyMapIsList

\* While the object of an id is alive, Find returns it and nothing else: the
\* walk beyond the id's entries is harmless as long as the process lives.
FindsTheLiving ==
    \A n \in Objects : list[n].alive => Find(list, idMap, list[n].pid) = n

\* Parent pointers and child lists mirror each other, each link once, while
\* the enumeration's loop and the notifications both add links.
LinksMirror ==
    \A m \in Objects :
        LET kids == list[m].children
        IN  /\ \A i \in 1..Len(kids) : kids[i] \in Objects /\ list[kids[i]].parent = m
            /\ \A i, j \in 1..Len(kids) : kids[i] = kids[j] => i = j
            /\ \A n \in Objects :
                 list[n].parent = m => \E i \in 1..Len(kids) : kids[i] = n

\* As long as no id is reused, a parent link leads to an object of the parent
\* id that is older than the child, so the links form a forest.
ParentIsOlder ==
    ~reused =>
      \A n \in Objects :
        LET p == list[n].parent
        IN  p # NULL => /\ list[p].pid = list[n].ppid
                        /\ list[p].pid # SystemPid => list[p].ctime < list[n].ctime

\* Once the worker has caught up, the living objects are the running
\* processes: none that started or ended while the table was being filled is
\* missed, kept as a ghost or mixed up with another one, except a running
\* one whose enumeration failed.
CaughtUp == pc = "run" /\ queue = <<>> /\ capture /\ ~reused

TableMatchesSystem ==
    CaughtUp =>
      /\ \A n \in Objects :
           list[n].alive /\ list[n].pid # SystemPid
             => list[n].pid \in Live /\ list[n].ctime = os[list[n].pid].ctime
      /\ \A p \in Live \ unread :
           \E n \in Objects : list[n].alive /\ list[n].pid = p

\* A comment in Find announces what it returns when no living process has
\* the id: "//not found? get the last one", the last process of that id.
FindReturnsItsPid ==
    \A p \in Parents :
        LET n == Find(list, idMap, p) IN n # NULL => list[n].pid = p

\* Every process that ended is marked dead eventually: the notification is
\* not lost between the snapshot and the worker's start.
Ghost(p) ==
    /\ capture /\ ~reused
    /\ p \notin Live
    /\ \E n \in Objects : list[n].pid = p /\ list[n].alive

GhostsVanish == \A p \in Pids : Ghost(p) ~> ~Ghost(p)
=============================================================================
