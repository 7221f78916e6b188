------------------------------ MODULE ModuleMgr -----------------------------
(***************************************************************************)
(* CModuleMgr (modulemgr.cpp) and the modules of processes: the images     *)
(* that processes map, whether their functions are known, and the modules  *)
(* the frames of call stacks belong to.                                    *)
(*                                                                         *)
(* The system maps and unmaps images and makes calls whose stacks the      *)
(* driver captures; the driver reports mappings and stacks, in order, but  *)
(* no unmapping.  The worker fills the module lists from the reports and   *)
(* resolves a stack when it is reported.  FixCallStacks, the interface for *)
(* a viewer of events, resolves the frames that were left and may ask the  *)
(* driver about the others.  Its caller is not in the repository; it must  *)
(* run on the worker's thread, as the module lists have no lock.  The Qt   *)
(* workers of the file are not connected to anything and are left out.     *)
(* Bound: a stack has one frame, of the kernel (System) or of a process.   *)
(***************************************************************************)
EXTENDS Naturals, Sequences, FiniteSets, FiniteSetsExt

CONSTANTS Procs,       \* processes, System among them
          System,      \* the process whose modules are the kernel's
          Files,       \* image files
          Size(_),     \* the ImageSize of each file
          Bases,       \* addresses images are mapped at
          MaxMaps,     \* bound: images mapped in all
          MaxStacks    \* bound: stacks captured in all

ASSUME SystemAssumption == System \in Procs
ASSUME AddressesAssumption == Bases \subseteq Nat /\ \A file \in Files : Size(file) \in Nat

VARIABLES
    maps,       \* the mappings made so far: process, base, path, whether the
                \* image is mapped still, whether the driver reported it
    queue,      \* the driver's messages the worker has not handled
    images,     \* the CUniqueImage objects: path, m_bLoadedSymbol, and
                \* whether m_NamedFunctions was filled from the file
    m_ImageMap, \* the image of each key
    m_ModuleList,        \* m_ModuleList[p]: bases and images of the modules of p
    m_LoadImageQueue,    \* paths whose files were to be read
    m_LoadedImageQueue,  \* paths whose files were read
    frames      \* the frames of the stacks handled: process, address, module
                \* (its place in the list, 0 for NULL), the mapping it was in

mgrvars == <<images, m_ImageMap, m_LoadImageQueue, m_LoadedImageQueue>>
moduleVars == <<maps, queue, mgrvars, m_ModuleList, frames>>

\* A path names a file by its drive, or has one of the prefixes \SystemRoot\ and
\* \??\ before it; and is in capitals or not.
Path == [file : Files, form : {"drive", "prefix"}, caps : BOOLEAN]

NormalizeFilePath(path) == [path EXCEPT !.form = "drive"]

\* Mutant: keys keep their spelling.
Mutant_Upper(path) == path

\* boost::to_upper_copy
Upper(path) == [path EXCEPT !.caps = TRUE]

-----------------------------------------------------------------------------
(* The system observed, and the driver. *)

\* Code is behind the headers at the base.
CodeOf(map) == (map.base + 1) .. (map.base + Size(map.path.file) - 1)

MappedIn(p) == {i \in 1..Len(maps) : maps[i].proc = p /\ maps[i].mapped}

\* Drivers have paths of any form, images of programs have paths with a drive.
\* The driver says nothing of what was mapped before the capture was on.
OsMap(p, base, path, reported) ==
    /\ Len(maps) < MaxMaps
    /\ p # System => path.form = "drive"
    /\ \A i \in MappedIn(p) : \/ base + Size(path.file) <= maps[i].base
                              \/ maps[i].base + Size(maps[i].path.file) <= base
    /\ maps' = Append(maps, [proc |-> p, base |-> base, path |-> path,
                             mapped |-> TRUE, reported |-> reported])
    /\ queue' = IF reported THEN Append(queue, [type |-> "load", map |-> Len(maps) + 1])
                            ELSE queue
    /\ UNCHANGED <<mgrvars, m_ModuleList, frames>>

OsUnmap(i) ==
    /\ maps[i].mapped
    /\ maps' = [maps EXCEPT ![i].mapped = FALSE]
    /\ UNCHANGED <<queue, mgrvars, m_ModuleList, frames>>

\* Code of a mapping makes a call.
OsCall(i, address) ==
    /\ Len(frames) + Cardinality({j \in 1..Len(queue) : queue[j].type = "stack"}) < MaxStacks
    /\ maps[i].mapped
    /\ address \in CodeOf(maps[i])
    /\ queue' = Append(queue, [type |-> "stack", map |-> i, address |-> address])
    /\ UNCHANGED <<maps, mgrvars, m_ModuleList, frames>>

-----------------------------------------------------------------------------
(* The worker. *)

HasImage(path) == Upper(path) \in DOMAIN m_ImageMap

\* The image GetImage finds or makes, and what images and m_ImageMap are then.
ImageOf(path) == IF HasImage(path) THEN m_ImageMap[Upper(path)] ELSE Len(images) + 1

ImagesWith(path) ==
    IF HasImage(path) THEN images
    ELSE Append(images, [path |-> path, loaded |-> FALSE, funcs |-> FALSE])

ImageMapWith(path) ==
    [key \in DOMAIN m_ImageMap \cup {Upper(path)} |->
       IF key = Upper(path) THEN ImageOf(path) ELSE m_ImageMap[key]]

\* Mutant: the offset in the image is not looked at.
Mutant_Covering(p, address) ==
    {i \in 1..Len(m_ModuleList[p]) : address >= m_ModuleList[p][i].base}

\* The modules of p whose range covers the address; the end is in the range.
Covering(p, address) ==
    {i \in 1..Len(m_ModuleList[p]) :
       LET um == m_ModuleList[p][i] IN
         address \in um.base .. (um.base + Size(images[um.image].path.file))}

GetModuleFromAddress(p, address) == Min(Covering(p, address) \cup
    (IF Covering(p, address) = {} THEN {0} ELSE {}))

\* Mutant: a base that has a module is skipped.
Mutant_OnPsLoadImage ==
    /\ queue # <<>> /\ Head(queue).type = "load"
    /\ LET map == maps[Head(queue).map]
           path == NormalizeFilePath(map.path)
           skip == \E i \in 1..Len(m_ModuleList[map.proc]) :
                     m_ModuleList[map.proc][i].base = map.base
       IN /\ images' = ImagesWith(path)
          /\ m_ImageMap' = ImageMapWith(path)
          /\ m_ModuleList' = [m_ModuleList EXCEPT ![map.proc] =
                IF skip THEN @ ELSE Append(@, [base |-> map.base, image |-> ImageOf(path)])]
    /\ queue' = Tail(queue)
    /\ UNCHANGED <<maps, frames, m_LoadImageQueue, m_LoadedImageQueue>>

OnPsLoadImage ==
    /\ queue # <<>> /\ Head(queue).type = "load"
    /\ LET map == maps[Head(queue).map]
           path == NormalizeFilePath(map.path)
       IN /\ images' = ImagesWith(path)
          /\ m_ImageMap' = ImageMapWith(path)
          /\ m_ModuleList' = [m_ModuleList EXCEPT ![map.proc] =
                                Append(@, [base |-> map.base, image |-> ImageOf(path)])]
    /\ queue' = Tail(queue)
    /\ UNCHANGED <<maps, frames, m_LoadImageQueue, m_LoadedImageQueue>>

CreateCallStacks ==
    /\ queue # <<>> /\ Head(queue).type = "stack"
    /\ LET stack == Head(queue)
           p == maps[stack.map].proc
       IN frames' = Append(frames, [proc |-> p, address |-> stack.address, map |-> stack.map,
                                    module |-> GetModuleFromAddress(p, stack.address)])
    /\ queue' = Tail(queue)
    /\ UNCHANGED <<maps, mgrvars, m_ModuleList>>

-----------------------------------------------------------------------------
(* A viewer of events. *)

\* The image of the path, from GetImage, through LoadImageFromFile,
\* QueuedLoadImage, OnQueuedAddImage and OnLoadImageComplete: its file is read
\* for functions unless that was tried.  Afterwards it counts as loaded,
\* whether or not the file could be read.
LoadSymbols(path, readable) ==
    LET ui == ImageOf(path)
        wanted == ~ImagesWith(path)[ui].loaded
        opened == wanted /\ path \notin m_LoadImageQueue
        read == opened /\ readable
    IN /\ images' = [ImagesWith(path) EXCEPT ![ui].loaded = TRUE, ![ui].funcs = @ \/ read]
       /\ m_ImageMap' = ImageMapWith(path)
       /\ m_LoadImageQueue' = m_LoadImageQueue \cup (IF wanted THEN {path} ELSE {})
       /\ m_LoadedImageQueue' = m_LoadedImageQueue \cup (IF read THEN {path} ELSE {})

OnQueuedAddModule(p, base, path, readable) ==
    IF \E i \in 1..Len(m_ModuleList[p]) : m_ModuleList[p][i].base = base
    THEN UNCHANGED <<mgrvars, m_ModuleList>>
    ELSE /\ LoadSymbols(path, readable)
         /\ m_ModuleList' = [m_ModuleList EXCEPT ![p] =
                               Append(@, [base |-> base, image |-> ImageOf(path)])]

\* FixCallStacks finds the module of a frame that has none...
FixFrame(i) ==
    LET um == GetModuleFromAddress(frames[i].proc, frames[i].address) IN
      /\ frames[i].module = 0
      /\ um # 0
      /\ frames' = [frames EXCEPT ![i].module = um]
      /\ UNCHANGED <<maps, queue, mgrvars, m_ModuleList>>

\* ...or, for a frame of a program that is in no known module, has
\* QueuedGetModuleInfo ask the driver what is mapped at the address now.  The
\* frame itself is left for the next call.
QueryFrame(i, readable) ==
    LET p == frames[i].proc IN
      /\ frames[i].module = 0
      /\ p # System
      /\ GetModuleFromAddress(p, frames[i].address) = 0
      /\ \E j \in MappedIn(p) :
           /\ frames[i].address \in CodeOf(maps[j])
           /\ OnQueuedAddModule(p, maps[j].base, maps[j].path, readable)
      /\ UNCHANGED <<maps, queue, frames>>

-----------------------------------------------------------------------------
InitModules ==
    /\ maps = <<>>
    /\ queue = <<>>
    /\ images = <<>>
    /\ m_ImageMap = [key \in {} |-> 0]
    /\ m_ModuleList = [p \in Procs |-> <<>>]
    /\ m_LoadImageQueue = {}
    /\ m_LoadedImageQueue = {}
    /\ frames = <<>>

Os ==
    \/ \E p \in Procs, base \in Bases, path \in Path, reported \in BOOLEAN :
         OsMap(p, base, path, reported)
    \/ \E i \in 1..Len(maps) : OsUnmap(i) \/ \E address \in CodeOf(maps[i]) : OsCall(i, address)

Viewer ==
    \E i \in 1..Len(frames) : FixFrame(i) \/ \E readable \in BOOLEAN : QueryFrame(i, readable)

NextModules == Os \/ OnPsLoadImage \/ CreateCallStacks \/ Viewer

SpecModules == InitModules /\ [][NextModules]_moduleVars

-----------------------------------------------------------------------------
(* Properties. *)

\* A file has one CUniqueImage, however its path is spelled by the driver and
\* whoever maps it: what is learned of its functions is learned once.
OneImagePerFile ==
    \A i, j \in 1..Len(images) : images[i].path.file = images[j].path.file => i = j

\* A call made from an image whose mapping was reported has its module: the
\* list was filled before the stack came, and never shrinks.
ReportedFramesFound ==
    \A i \in 1..Len(frames) : maps[frames[i].map].reported => frames[i].module # 0

\* Whether a frame is resolved when its stack comes, later, or after a query,
\* its module is the mapping the call was made from, unless another one of
\* the process was, or came to be, at the address, headers and end included.
FramesRight ==
    \A i \in 1..Len(frames) :
      LET frame == frames[i]
          others == {j \in 1..Len(maps) : /\ maps[j].proc = frame.proc /\ j # frame.map
                                          /\ frame.address \in maps[j].base ..
                                               (maps[j].base + Size(maps[j].path.file))}
          um == m_ModuleList[frame.proc][frame.module]
      IN frame.module # 0 /\ others = {} =>
           /\ um.base = maps[frame.map].base
           /\ images[um.image].path.file = maps[frame.map].path.file
=============================================================================
