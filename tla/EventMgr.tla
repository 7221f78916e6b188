------------------------------ MODULE EventMgr ------------------------------
(***************************************************************************)
(* The worker's message handlers (CMonitorWorker::ParseMessage and the     *)
(* On* functions of CEventMgr): each message of the driver becomes events  *)
(* of m_EventList, attributed to objects of the process table, and a call  *)
(* stack message is attached to the event whose id it carries.             *)
(*                                                                         *)
(* The 29 handlers come in the shapes below; what an event says besides    *)
(* its id, type and processes only decorates it.  The lock ParseMessage    *)
(* holds makes each handler one step.  The driver is external: it numbers  *)
(* its messages in the order it queues them, and sends the call stack of a *)
(* numbered message at any later time, once, or never.                     *)
(*                                                                         *)
(* m_CaptureEnable stays TRUE and m_DropExclude FALSE, their initial       *)
(* values, so that AddEvent keeps every event whatever the filters say.    *)
(***************************************************************************)
EXTENDS ProcessTable, FiniteSets

CONSTANTS NullPrefix,   \* null entries the constructor puts in m_EventList
          FirstId,      \* first event id; earlier numbers are creation times
          MaxId,        \* bound: the last event id
          MaxQueue      \* bound: messages waiting in the driver

ASSUME PidsAssumption == IsFiniteSet(Pids) /\ SystemPid \notin Pids  \* ids have 32 bits
ASSUME PrefixAssumption == NullPrefix \in Nat
ASSUME IdsAssumption == FirstId \in Nat \ {0, 1} /\ MaxId \in Nat /\ MaxQueue \in Nat

VARIABLES
    list, keyMap, idMap,  \* the process table
    psSystem,   \* m_PsSystemProcess
    events,     \* m_EventList after its null entries
    crash,      \* "no", or what ended the program: "lookup" "kernel"
    queue,      \* the driver's messages, oldest first
    live,       \* running processes
    nextId,     \* the id of the next message
    pending,    \* ids whose call stack may still come
    taken,      \* ids whose call stack was handled
    used,       \* process ids handed out so far
    reused      \* one of them was handed out again

table == <<list, keyMap, idMap>>
sys   == <<live, nextId, pending, used, reused>>
vars  == <<table, psSystem, events, crash, queue, sys, taken>>

Parents == Pids \cup {SystemPid}

\* What ParseMessage switches on, with the handlers of one shape merged.
Kinds == {"process", "thread", "image", "target", "call", "stack"}

\* other: parent, creating or target process; flag: creation, or data accepted
Message == [kind : Kinds, id : Nat, pid : Parents, other : Parents, flag : BOOLEAN]

Types == {"CreateProcess", "ProcessCreate", "ProcessDestroy",
          "CreateThread", "ThreadCreate", "ThreadDestroy",
          "LoadImage", "Target", "Call"}

\* pid is the process id the message gave for proc; stack counts the call
\* stacks attached.
Event == [id : Nat, type : Types, proc : Nat, target : Nat, pid : Parents, stack : Nat]

NewEvent(id, type, proc, target, pid) ==
    [id |-> id, type |-> type, proc |-> proc, target |-> target, pid |-> pid, stack |-> 0]

-----------------------------------------------------------------------------
(* The driver and the system it observes. *)

Send(m) ==
    /\ crash = "no"
    /\ Len(queue) < MaxQueue
    /\ queue' = Append(queue, m)

\* A numbered message; its call stack may follow.
SendEvent(kind, pid, other, flag) ==
    /\ nextId <= MaxId
    /\ Send([kind |-> kind, id |-> nextId, pid |-> pid, other |-> other, flag |-> flag])
    /\ nextId' = nextId + 1
    /\ pending' = pending \cup {nextId}
    /\ UNCHANGED <<table, psSystem, events, crash, taken>>

OsCreate(p, parent) ==
    /\ p \notin live
    /\ parent \in live \cup {SystemPid}
    /\ live' = live \cup {p}
    /\ used' = used \cup {p}
    /\ reused' = (reused \/ p \in used)
    /\ SendEvent("process", p, parent, TRUE)

OsExit(p) ==
    /\ p \in live
    /\ live' = live \ {p}
    /\ UNCHANGED <<used, reused>>
    /\ SendEvent("process", p, SystemPid, FALSE)

\* A running process does something: to itself, or to a process it has a
\* handle of, which may have ended.
OsAct(p, kind, other, flag) ==
    /\ p \in live
    /\ \/ kind = "thread" /\ other \in live
       \/ kind = "target" /\ other \in used /\ flag
       \/ kind = "call" /\ other = SystemPid
       \/ kind = "image" /\ other = SystemPid /\ flag
    /\ UNCHANGED <<live, used, reused>>
    /\ SendEvent(kind, p, other, flag)

\* An image load that is no event has the id 0 and no call stack.  Bound: one
\* of them waits at a time.
OsLoadSilently(p) ==
    /\ p \in live
    /\ \A i \in 1..Len(queue) : queue[i].id # 0
    /\ Send([kind |-> "image", id |-> 0, pid |-> p, other |-> SystemPid, flag |-> TRUE])
    /\ UNCHANGED <<table, psSystem, events, crash, sys, taken>>

SendCallStack(id) ==
    /\ id \in pending
    /\ Send([kind |-> "stack", id |-> id, pid |-> SystemPid, other |-> SystemPid,
             flag |-> TRUE])
    /\ pending' = pending \ {id}
    /\ UNCHANGED <<table, psSystem, events, crash, live, nextId, used, reused, taken>>

-----------------------------------------------------------------------------
(* The worker. *)

\* ParseMessage hands the oldest message to the handler of its kind.
Dispatch(kind) ==
    /\ crash = "no"
    /\ queue # <<>>
    /\ Head(queue).kind = kind
    /\ queue' = Tail(queue)

\* AddEvent, for each of them in turn; "No need to sort".
InsertEvents(new) == events' = events \o new

\* OnPsCreateProcess, creation.  The object is made if Find knows none, then
\* the creator is looked up, and both sides of the creation are events.
OnPsCreateProcess ==
    /\ Dispatch("process")
    /\ Head(queue).flag
    /\ LET m  == Head(queue)
           up == CUniqueProcess(m.pid, m.other, m.id)
           n  == Len(list) + 1
           Record(l, order, p) ==
               LET creator == Find(l, order, m.other)
               IN  InsertEvents(IF creator = NULL THEN <<>>
                                ELSE <<NewEvent(m.id, "CreateProcess", creator, p, m.other),
                                       NewEvent(m.id, "ProcessCreate", p, NULL, m.pid)>>)
       IN  IF Find(list, idMap, m.pid) = NULL
             THEN \E order \in IdMapOrders(ListWith(list, up)) :
                    /\ idMap' = order
                    /\ list' = FillParent(ListWith(list, up), order, n)
                    /\ keyMap' = KeyMapWith(keyMap, up, n)
                    /\ Record(list', order, n)
             ELSE /\ UNCHANGED table
                  /\ Record(list, idMap, Find(list, idMap, m.pid))
    /\ UNCHANGED <<psSystem, crash, sys, taken>>

\* OnPsCreateProcess, exit.
OnPsDestroyProcess ==
    /\ Dispatch("process")
    /\ ~Head(queue).flag
    /\ LET m == Head(queue)
           p == Find(list, idMap, m.pid)
       IN  /\ list' = Kill(list, p)
           /\ InsertEvents(IF p = NULL THEN <<>>
                           ELSE <<NewEvent(m.id, "ProcessDestroy", p, NULL, m.pid)>>)
    /\ UNCHANGED <<keyMap, idMap, psSystem, crash, sys, taken>>

\* OnPsCreateThread: a creation needs both processes, an exit only one.
OnPsCreateThread ==
    /\ Dispatch("thread")
    /\ LET m       == Head(queue)
           p       == Find(list, idMap, m.pid)
           creator == Find(list, idMap, m.other)
       IN  InsertEvents(
             IF p = NULL \/ (m.flag /\ creator = NULL) THEN <<>>
             ELSE IF m.flag
               THEN <<NewEvent(m.id, "CreateThread", creator, p, m.other),
                      NewEvent(m.id, "ThreadCreate", p, creator, m.pid)>>
               ELSE <<NewEvent(m.id, "ThreadDestroy", p, NULL, m.pid)>>)
    /\ UNCHANGED <<table, psSystem, crash, sys, taken>>

\* Mutant: every load is an event.
Mutant_OnPsLoadImage ==
    /\ Dispatch("image")
    /\ LET m == Head(queue)
           p == Find(list, idMap, m.pid)
       IN  InsertEvents(IF p = NULL THEN <<>>
                        ELSE <<NewEvent(m.id, "LoadImage", p, NULL, m.pid)>>)
    /\ UNCHANGED <<table, psSystem, crash, sys, taken>>

\* OnPsLoadImage: a load with the id 0 is no event.  The module, which is
\* recorded even then, is ModuleMgr's matter.
OnPsLoadImage ==
    /\ Dispatch("image")
    /\ LET m == Head(queue)
           p == Find(list, idMap, m.pid)
       IN  InsertEvents(IF p = NULL \/ m.id = 0 THEN <<>>
                        ELSE <<NewEvent(m.id, "LoadImage", p, NULL, m.pid)>>)
    /\ UNCHANGED <<table, psSystem, crash, sys, taken>>

\* The handlers of calls on another process (OpenProcess, OpenThread,
\* TerminateProcess and the virtual memory calls).
OnTargetCall ==
    /\ Dispatch("target")
    /\ LET m      == Head(queue)
           p      == Find(list, idMap, m.pid)
           target == Find(list, idMap, m.other)
       IN  InsertEvents(IF p = NULL \/ target = NULL THEN <<>>
                        ELSE <<NewEvent(m.id, "Target", p, target, m.pid)>>)
    /\ UNCHANGED <<table, psSystem, crash, sys, taken>>

\* The handlers that need the calling process only.  The data they accept:
\* a class of system information they know, registry data that stays within
\* the message; the driver, mutant, directory object, window and file
\* handlers accept everything.
OnCall ==
    /\ Dispatch("call")
    /\ LET m == Head(queue)
           p == Find(list, idMap, m.pid)
       IN  InsertEvents(IF p = NULL \/ ~m.flag THEN <<>>
                        ELSE <<NewEvent(m.id, "Call", p, NULL, m.pid)>>)
    /\ UNCHANGED <<table, psSystem, crash, sys, taken>>

\* The side of a creation that takes no call stack: the other side does.
Refuses == {"ProcessCreate", "ThreadCreate"}

\* Mutant: both sides of a creation are searched.
Mutant_Matches(id) == {i \in 1..Len(events) : events[i].id = id}

Matches(id) == {i \in 1..Len(events) : events[i].id = id /\ events[i].type \notin Refuses}

Newest(S) == CHOOSE i \in S : \A j \in S : j <= i

\* FindEventById walks from the newest event to the oldest; an id newer than
\* the newest is not looked for.  Where no event stops the walk it reaches
\* the null entries and dereferences them.
LookUp(id) ==
    IF events # <<>> /\ id > events[Len(events)].id THEN "none"
    ELSE IF Matches(id) # {} THEN "found"
    ELSE IF NullPrefix > 0 THEN "null"
    ELSE "none"

\* OnCallStack, when the walk ends and every address can be resolved.
OnCallStack ==
    /\ Dispatch("stack")
    /\ LookUp(Head(queue).id) # "null"
    /\ taken' = taken \cup {Head(queue).id}
    /\ events' = IF LookUp(Head(queue).id) = "found"
                   THEN [events EXCEPT ![Newest(Matches(Head(queue).id))].stack = @ + 1]
                   ELSE events
    /\ UNCHANGED <<table, psSystem, crash, sys>>

\* The two ways a call stack ends the program: the walk meets a null entry, or
\* CreateCallStacks resolves a kernel address (there may be none) against the
\* System process without asking whether there is one.
CallStackCrash ==
    /\ crash = "no"
    /\ queue # <<>>
    /\ Head(queue).kind = "stack"
    /\ \/ LookUp(Head(queue).id) = "null" /\ crash' = "lookup"
       \/ LookUp(Head(queue).id) = "found" /\ psSystem = NULL /\ crash' = "kernel"
    /\ UNCHANGED <<table, psSystem, events, queue, sys, taken>>

-----------------------------------------------------------------------------
\* The table CProcessMgr::Initialize leaves: the System process, unless its
\* enumeration failed, then the recorded ones in the order of the enumeration,
\* all started by System.
Enumerated(system, pids) ==
    LET first == IF system
                 THEN <<[CUniqueProcess(SystemPid, 0, 1) EXCEPT
                           !.children = [k \in 1..Len(pids) |-> k + 1]]>>
                 ELSE <<>>
    IN  first \o [n \in 1..Len(pids) |->
                    [CUniqueProcess(pids[n], SystemPid, 1) EXCEPT !.parent = IF system THEN 1 ELSE NULL]]

\* Orders of a set.
Orders(S) == {s \in [1..Cardinality(S) -> S] : \A x \in S : \E n \in DOMAIN s : s[n] = x}

\* The worker starts: some processes are running, each recorded or not; one
\* that started after capture was enabled still has its creation queued.
Init ==
    /\ live \in SUBSET Pids
    /\ \E pids \in UNION {Orders(S) : S \in SUBSET live}, system \in BOOLEAN, late \in SUBSET live :
         /\ Cardinality(late) <= 1
         /\ list = Enumerated(system, pids)
         /\ psSystem = IF system THEN 1 ELSE NULL
         /\ pending = IF late = {} THEN {} ELSE {FirstId}
         /\ nextId = IF late = {} THEN FirstId ELSE FirstId + 1
         /\ queue = IF late = {} THEN <<>>
                    ELSE <<[kind |-> "process", id |-> FirstId, pid |-> CHOOSE p \in late : TRUE,
                            other |-> SystemPid, flag |-> TRUE]>>
    /\ idMap \in IdMapOrders(list)
    /\ keyMap = [key \in {<<list[n].pid, list[n].ctime>> : n \in 1..Len(list)} |->
                   CHOOSE n \in 1..Len(list) : <<list[n].pid, list[n].ctime>> = key]
    /\ events = <<>>
    /\ crash = "no"
    /\ taken = {}
    /\ used = live
    /\ reused = FALSE

Driver ==
    \/ \E p \in Pids, parent \in Parents : OsCreate(p, parent)
    \/ \E p \in Pids : OsExit(p) \/ OsLoadSilently(p)
    \/ \E p \in Pids, other \in Parents, kind \in Kinds, flag \in BOOLEAN :
         OsAct(p, kind, other, flag)
    \/ \E id \in pending : SendCallStack(id)

Worker ==
    \/ OnPsCreateProcess \/ OnPsDestroyProcess \/ OnPsCreateThread \/ OnPsLoadImage
    \/ OnTargetCall \/ OnCall
    \/ OnCallStack \/ CallStackCrash

Next == Driver \/ Worker

Spec == Init /\ [][Next]_vars

-----------------------------------------------------------------------------
(* Properties. *)

Indices == 1..Len(events)

\* FindEventById's early exit relies on an order nobody establishes ("No need
\* to sort"): ids never decrease along the list, and only the two sides of a
\* creation, side by side, share one.
EventsInOrder ==
    \A i, j \in Indices : i < j =>
        /\ events[i].id <= events[j].id
        /\ events[i].id = events[j].id =>
             /\ j = i + 1
             /\ <<events[i].type, events[j].type>> \in
                  {<<"CreateProcess", "ProcessCreate">>, <<"CreateThread", "ThreadCreate">>}
             /\ events[i].target = events[j].proc

\* A call stack that was handled sits on its event, once, and nowhere else:
\* however late it comes and whatever was recorded in between, and never on
\* the new process's side of a creation.
StacksFound ==
    \A i \in Indices :
        events[i].stack = IF events[i].id \in taken /\ events[i].type \notin Refuses
                            THEN 1 ELSE 0

\* As long as no process id is reused, an event belongs to the process that
\* caused it: its exit is handled after everything it did.
ActorIsRight ==
    ~reused => \A i \in Indices : list[events[i].proc].pid = events[i].pid

\* A process says nothing after its exit: no event that follows its
\* ProcessDestroy in the list is attributed to its object, as long as no
\* process id is reused.
LastWord ==
    ~reused =>
      \A i, j \in Indices :
        i < j /\ events[i].type = "ProcessDestroy" => events[j].proc # events[i].proc
=============================================================================
