---------------------------- MODULE SharedCache ----------------------------
(***************************************************************************)
(* Threads that call RorkHookLocateSharedCache,                            *)
(* RorkHookFindSharedCacheSymbol and RorkHookFindSharedCacheSymbolAtPath   *)
(* (RorkHookSharedCache.c) while the file system may change under them.    *)
(*                                                                         *)
(* A path is the sequence of the strings it was put together from; the     *)
(* empty string is <<>>.  File descriptors and mapped addresses are        *)
(* numbers that the kernel hands out again once they are free, so that     *)
(* releasing one twice hits whoever has it by then.  The search itself     *)
(* reads private read-only mappings and is one step (CacheSymbols).        *)
(***************************************************************************)
EXTENDS CacheSymbols, Sequences

CONSTANTS
    Threads,
    Fds, Addresses,   \* what open and mmap may return
    None,
    Contents,         \* file -> its kind and what it holds
    PathMax,          \* PATH_MAX
    Worlds            \* the processes to look at, see below

(***************************************************************************)
(* A world is a process: the path that dyld_shared_cache_file_path gives,  *)
(* whether the environment names a private cache directory, which of the   *)
(* two directories can be searched, the lengths of base paths, what        *)
(* task_info tells, the files at first, those that may appear later, the   *)
(* calls of the threads, and whether system calls may fail.                *)
(***************************************************************************)
VARIABLES
    world,
    files,      \* path -> file that access and open find there
    open,       \* descriptor -> file
    memory,     \* address -> file mapped there
    once,       \* onceToken
    cachePath,  \* the static buffer
    probe,      \* index of the loop over suffixes
    pc,
    role,       \* thread -> which of the two files it maps
    fd,         \* thread -> descriptor
    mapping,    \* thread -> mainMapping.bytes and symbolsMapping.bytes
    hasSidecar,
    result,     \* thread -> the pointer that is returned
    seen,       \* history: the path a thread was given
    opened,     \* history: the files that open found for a thread
    changed     \* history: the file system has changed

Files == DOMAIN Contents
FileOrNone == Files \union {None}

ASSUME KernelAssumption ==
    /\ Fds \subseteq Nat /\ Addresses \subseteq Nat
    /\ None \notin Fds /\ None \notin Addresses /\ None \notin Files
    /\ PathMax \in Nat

ASSUME ContentsAssumption ==
    \A f \in Files : /\ Contents[f].kind \in {"regular", "fifo"}
                     /\ Contents[f].readable \in BOOLEAN /\ IsFile(Contents[f])

ASSUME WorldsAssumption ==
    \A w \in Worlds :
        /\ w.active \in {"active", None} /\ w.private \in BOOLEAN
        /\ w.directories \subseteq {"cryptex", "system"}
        /\ {w.length[b] : b \in {"active", "private", "cryptex", "system"}} \subseteq Nat
        /\ w.files \in [DOMAIN w.files -> FileOrNone] /\ w.later \subseteq FileOrNone
        /\ w.task.slide \in 0 .. Limit - 1
        /\ \A t \in Threads : w.calls[t] # None =>
              /\ w.calls[t].op \in {"locate", "symbol", "atPath"}
              /\ w.calls[t].op = "atPath" => w.calls[t].slide \in 0 .. Limit - 1

kernel == <<files, open, memory, changed>>
location == <<once, cachePath, probe>>
locals == <<role, fd, mapping, hasSidecar, result>>
history == <<seen, opened>>
vars == <<world, kernel, location, pc, locals, history>>

Roles == {"main", "symbols"}   \* the cache and its sidecar
Bases == {"private", "cryptex", "system"}
Suffixes == <<"_arm64e", "_arm64", "_armv7s", "_armv7">>
Call(t) == world.calls[t]

\* strlen of what a path is put together from.
PieceLength(piece) ==
    CASE piece \in {"_arm64e", "_armv7s"} -> 7
      [] piece \in {"_arm64", "_armv7"} -> 6
      [] piece = ".symbols" -> 8
      [] OTHER -> world.length[piece]
PathLength(path) ==   \* no path has more than three pieces
    LET length(k) == IF k \in DOMAIN path THEN PieceLength(path[k]) ELSE 0
    IN  length(1) + length(2) + length(3)

\* strlcpy, strlcat or snprintf did not truncate the path.
Fits(path) == PathLength(path) < PathMax

Exists(path) == path \in DOMAIN files /\ files[path] # None

\* access(path, R_OK) and open(path, O_RDONLY).
IsReadable(path) == Exists(path) /\ Contents[files[path]].readable
-----------------------------------------------------------------------------
Init ==
    /\ world \in Worlds
    /\ files = world.files /\ changed = FALSE
    /\ open = [d \in Fds |-> None] /\ memory = [a \in Addresses |-> None]
    /\ once = "unset" /\ cachePath = <<>> /\ probe = 0
    /\ pc = [t \in Threads |-> "idle"]
    /\ role = [t \in Threads |-> "main"]
    /\ fd = [t \in Threads |-> None]
    /\ mapping = [t \in Threads |-> [r \in Roles |-> None]]
    /\ hasSidecar = [t \in Threads |-> FALSE]
    /\ result = [t \in Threads |-> Null]
    /\ seen = [t \in Threads |-> None]
    /\ opened = [t \in Threads |-> [r \in Roles |-> None]]

GoTo(t, from, to) == pc[t] = from /\ pc' = [pc EXCEPT ![t] = to]

\* The entry of the three functions, with their checks for NULL.
HasArguments(t) ==
    \/ Call(t).op = "locate"
    \/ Call(t).image # None /\ Call(t).name # None /\ Call(t).path # None

Enter(t) ==
    /\ Call(t) # None
    /\ GoTo(t, "idle", IF ~HasArguments(t) THEN "returned"
                       ELSE IF Call(t).op = "atPath" THEN "open" ELSE "once")
    /\ UNCHANGED <<world, kernel, location, locals, history>>

-----------------------------------------------------------------------------
(* RorkHookLocateSharedCache: dispatch_once lets one thread in and keeps   *)
(* the others waiting until it is done.                                    *)

OnceEnter(t) ==
    /\ GoTo(t, "once", "ask")
    /\ once = "unset" /\ once' = "running"
    /\ UNCHANGED <<world, kernel, cachePath, probe, locals, history>>

\* Mutant: only the first caller waits for the block.
Mut_OncePass(t) ==
    /\ GoTo(t, "once", IF Call(t).op = "locate" THEN "returned"
                       ELSE IF cachePath = <<>> THEN "returned" ELSE "open")
    /\ once # "unset"
    /\ seen' = [seen EXCEPT ![t] = cachePath]
    /\ UNCHANGED <<world, kernel, location, locals, opened>>

OncePass(t) ==
    /\ GoTo(t, "once", IF Call(t).op = "locate" THEN "returned"
                       ELSE IF cachePath = <<>> THEN "returned" ELSE "open")
    /\ once = "done"
    /\ seen' = [seen EXCEPT ![t] = cachePath]
    /\ UNCHANGED <<world, kernel, location, locals, opened>>

\* The block returns, and its thread goes on as the others do.
LeaveBlock(t, from) == GoTo(t, from, "once") /\ once' = "done"

AskDyld(t) ==
    /\ GoTo(t, "ask", "active")
    /\ cachePath' = IF world.active = None THEN <<>> ELSE <<world.active>>
    /\ UNCHANGED <<world, kernel, once, probe, locals, history>>

CheckActive(t) ==
    /\ \/ /\ LeaveBlock(t, "active")
          /\ world.active # None /\ Fits(cachePath) /\ IsReadable(cachePath)
          /\ UNCHANGED cachePath
       \/ /\ GoTo(t, "active", "choose")
          /\ ~(world.active # None /\ Fits(cachePath) /\ IsReadable(cachePath))
          /\ cachePath' = <<>>
          /\ UNCHANGED once
    /\ UNCHANGED <<world, kernel, probe, locals, history>>

\* The base path to put suffixes to; "" when there is none.
BasePath ==
    CASE world.private -> <<"private">>
      [] ~world.private /\ "cryptex" \in world.directories -> <<"cryptex">>
      [] ~world.private /\ "cryptex" \notin world.directories
                        /\ "system" \in world.directories -> <<"system">>
      [] OTHER -> <<>>

ChooseBase(t) ==
    /\ \/ /\ LeaveBlock(t, "choose")
          /\ world.private /\ ~Fits(BasePath)
          /\ cachePath' = <<>>
          /\ UNCHANGED probe
       \/ /\ GoTo(t, "choose", "probe")
          /\ ~(world.private /\ ~Fits(BasePath))
          /\ cachePath' = BasePath
          /\ probe' = IF BasePath = <<>> THEN Len(Suffixes) + 1 ELSE 1
          /\ UNCHANGED once
    /\ UNCHANGED <<world, kernel, locals, history>>

\* Mutant: the suffix that did not fit or was not there is not taken off.
Mut_PutSuffix(t) ==
    /\ GoTo(t, "probe", "check")
    /\ probe <= Len(Suffixes)
    /\ cachePath' = Append(cachePath, Suffixes[probe])
    /\ UNCHANGED <<world, kernel, once, probe, locals, history>>

\* cachePath is cut off at baseLength, then strlcat.
PutSuffix(t) ==
    /\ GoTo(t, "probe", "check")
    /\ probe <= Len(Suffixes)
    /\ cachePath' = <<Head(cachePath), Suffixes[probe]>>
    /\ UNCHANGED <<world, kernel, once, probe, locals, history>>

CheckSuffix(t) ==
    /\ \/ /\ LeaveBlock(t, "check")
          /\ Fits(cachePath) /\ IsReadable(cachePath)
          /\ UNCHANGED probe
       \/ /\ GoTo(t, "check", "probe")
          /\ ~(Fits(cachePath) /\ IsReadable(cachePath))
          /\ probe' = probe + 1
          /\ UNCHANGED once
    /\ UNCHANGED <<world, kernel, cachePath, locals, history>>

NotLocated(t) ==
    /\ LeaveBlock(t, "probe")
    /\ probe > Len(Suffixes)
    /\ cachePath' = <<>>
    /\ UNCHANGED <<world, kernel, probe, locals, history>>

Locate(t) == \/ OnceEnter(t) \/ OncePass(t) \/ AskDyld(t) \/ CheckActive(t)
             \/ ChooseBase(t) \/ PutSuffix(t) \/ CheckSuffix(t) \/ NotLocated(t)

-----------------------------------------------------------------------------
(* RorkHookMapFile, for the main file and for the sidecar.                 *)

mainPath(t) == IF Call(t).op = "atPath" THEN Call(t).path ELSE cachePath
symbolsPath(t) == Append(mainPath(t), ".symbols")
PathToMap(t) == IF role[t] = "main" THEN mainPath(t) ELSE symbolsPath(t)

\* MapFile returns: what RorkHookFindSharedCacheSymbolAtPath goes on with.
MapFileReturns(t, from, bytes) ==
    IF role[t] = "main"
    THEN /\ GoTo(t, from, IF bytes = None THEN "returned" ELSE "sidecar")
         /\ mapping' = [mapping EXCEPT ![t]["main"] = bytes]
         /\ UNCHANGED hasSidecar
    ELSE /\ GoTo(t, from, "lookup")
         /\ mapping' = [mapping EXCEPT ![t]["symbols"] =
                            IF bytes = None THEN mapping[t]["main"] ELSE bytes]
         /\ hasSidecar' = [hasSidecar EXCEPT ![t] = bytes # None]

\* Mutant: opened without O_NONBLOCK, a FIFO keeps its reader waiting.
Mut_Open(t) ==
    /\ GoTo(t, "open", "stat")
    /\ IsReadable(PathToMap(t))
    /\ Contents[files[PathToMap(t)]].kind # "fifo"
    /\ \E d \in Fds :
          /\ open[d] = None /\ \A e \in Fds : e < d => open[e] # None
          /\ open' = [open EXCEPT ![d] = files[PathToMap(t)]]
          /\ fd' = [fd EXCEPT ![t] = d]
    /\ opened' = [opened EXCEPT ![t][role[t]] = files[PathToMap(t)]]
    /\ UNCHANGED <<world, files, memory, changed, location, role, mapping,
                   hasSidecar, result, seen>>

Open(t) ==
    /\ GoTo(t, "open", "stat")
    /\ IsReadable(PathToMap(t))
    /\ \E d \in Fds :
          /\ open[d] = None /\ \A e \in Fds : e < d => open[e] # None
          /\ open' = [open EXCEPT ![d] = files[PathToMap(t)]]
          /\ fd' = [fd EXCEPT ![t] = d]
    /\ opened' = [opened EXCEPT ![t][role[t]] = files[PathToMap(t)]]
    /\ UNCHANGED <<world, files, memory, changed, location, role, mapping,
                   hasSidecar, result, seen>>

\* Mutant: a failure of open is not noticed.
Mut_OpenFails(t) ==
    /\ GoTo(t, "open", "stat")
    /\ ~IsReadable(PathToMap(t)) \/ world.faults \/ \A d \in Fds : open[d] # None
    /\ UNCHANGED <<world, kernel, location, locals, history>>

OpenFails(t) ==
    /\ MapFileReturns(t, "open", None)
    /\ ~IsReadable(PathToMap(t)) \/ world.faults \/ \A d \in Fds : open[d] # None
    /\ UNCHANGED <<world, kernel, location, role, fd, result, history>>

\* A regular file that is not empty.
IsMappable(f) == Contents[f].kind = "regular" /\ Contents[f].size > 0

Stat(t) ==
    /\ \/ GoTo(t, "stat", "map") /\ IsMappable(open[fd[t]])
       \/ GoTo(t, "stat", "reject") /\ ~IsMappable(open[fd[t]])
    /\ UNCHANGED <<world, kernel, location, locals, history>>

StatFails(t) ==
    /\ world.faults
    /\ GoTo(t, "stat", "reject")
    /\ UNCHANGED <<world, kernel, location, locals, history>>

\* Mutant: a file that is rejected is not closed.
Mut_Reject(t) ==
    /\ fd' = [fd EXCEPT ![t] = None]
    /\ MapFileReturns(t, "reject", None)
    /\ UNCHANGED <<world, kernel, location, role, result, history>>

Reject(t) ==
    /\ MapFileReturns(t, "reject", None)
    /\ open' = [open EXCEPT ![fd[t]] = None]
    /\ fd' = [fd EXCEPT ![t] = None]
    /\ UNCHANGED <<world, files, memory, changed, location, role, result, history>>

Mmap(t) ==
    /\ GoTo(t, "map", "close")
    /\ \E a \in Addresses :
          /\ memory[a] = None /\ \A b \in Addresses : b < a => memory[b] # None
          /\ memory' = [memory EXCEPT ![a] = open[fd[t]]]
          /\ mapping' = [mapping EXCEPT ![t][role[t]] = a]
    /\ UNCHANGED <<world, files, open, changed, location, role, fd, hasSidecar,
                   result, history>>

MmapFails(t) ==
    /\ world.faults \/ \A a \in Addresses : memory[a] # None
    /\ GoTo(t, "map", "reject")
    /\ UNCHANGED <<world, kernel, location, locals, history>>

Close(t) ==
    /\ MapFileReturns(t, "close", mapping[t][role[t]])
    /\ open' = [open EXCEPT ![fd[t]] = None]
    /\ fd' = [fd EXCEPT ![t] = None]
    /\ UNCHANGED <<world, files, memory, changed, location, role, result, history>>

MapFile(t) == \/ Open(t) \/ OpenFails(t) \/ Stat(t) \/ StatFails(t) \/ Reject(t)
              \/ Mmap(t) \/ MmapFails(t) \/ Close(t)
-----------------------------------------------------------------------------
(* RorkHookFindSharedCacheSymbolAtPath.                                    *)

\* The path of the sidecar is made; one that does not fit is not tried.
Sidecar(t) ==
    /\ \/ GoTo(t, "sidecar", "open") /\ Fits(symbolsPath(t)) /\ UNCHANGED mapping
       \/ /\ GoTo(t, "sidecar", "lookup") /\ ~Fits(symbolsPath(t))
          /\ mapping' = [mapping EXCEPT ![t]["symbols"] = mapping[t]["main"]]
    /\ role' = [role EXCEPT ![t] = "symbols"]
    /\ UNCHANGED <<world, kernel, location, fd, hasSidecar, result, history>>

\* dyld tells the process the slide of its shared cache.
SlideIsPublished ==
    /\ world.task.answers /\ world.task.address # 0
    /\ world.task.readable /\ world.task.version >= 12

\* The slide that dyld publishes, 0 when it cannot be had.
SharedCacheSlide == IF SlideIsPublished THEN world.task.slide ELSE 0

\* The lookup in the files f (main) and g (local symbols).
Query(t, f, g) ==
    [main |-> Contents[f], symbols |-> Contents[g],
     slide |-> IF Call(t).op = "atPath" THEN Call(t).slide ELSE SharedCacheSlide,
     image |-> Call(t).image, name |-> Call(t).name]

QueryOf(t) == Query(t, memory[mapping[t]["main"]], memory[mapping[t]["symbols"]])

\* The search; without its two views it cannot run (ViewsStayMapped).
Lookup(t) ==
    /\ GoTo(t, "lookup", "unmap")
    /\ memory[mapping[t]["main"]] # None /\ memory[mapping[t]["symbols"]] # None
    /\ \E q \in {QueryOf(t)} :
          result' = [result EXCEPT ![t] = FindSharedCacheSymbolInData(q)]
    /\ UNCHANGED <<world, kernel, location, role, fd, mapping, hasSidecar, history>>

\* Mutant: whether there is a sidecar is forgotten.
Mut_UnmapSidecar(t) ==
    /\ GoTo(t, "unmap", "unmapMain")
    /\ memory' = [memory EXCEPT ![mapping[t]["symbols"]] = None]
    /\ UNCHANGED <<world, files, open, changed, location, locals, history>>

UnmapSidecar(t) ==
    /\ GoTo(t, "unmap", "unmapMain")
    /\ memory' = IF hasSidecar[t] THEN [memory EXCEPT ![mapping[t]["symbols"]] = None]
                  ELSE memory
    /\ UNCHANGED <<world, files, open, changed, location, locals, history>>

UnmapMain(t) ==
    /\ GoTo(t, "unmapMain", "returned")
    /\ memory' = [memory EXCEPT ![mapping[t]["main"]] = None]
    /\ UNCHANGED <<world, files, open, changed, location, locals, history>>

Step(t) == \/ Enter(t) \/ Locate(t) \/ MapFile(t) \/ Sidecar(t) \/ Lookup(t)
           \/ UnmapSidecar(t) \/ UnmapMain(t)

\* An update or another process puts a file in place or takes it away.
ReplaceFile(path) ==
    /\ \E f \in world.later : f # files[path] /\ files' = [files EXCEPT ![path] = f]
    /\ changed' = TRUE
    /\ UNCHANGED <<world, open, memory, location, pc, locals, history>>

Next == \/ \E t \in Threads : Step(t)
        \/ \E path \in DOMAIN files : ReplaceFile(path)

Spec == Init /\ [][Next]_vars

\* A thread in a call keeps running.
FairSpec == Spec /\ \A t \in Threads : WF_vars(pc[t] # "idle" /\ Step(t))

-----------------------------------------------------------------------------
(* Properties.                                                             *)

Phases == {"idle", "once", "ask", "active", "choose", "probe", "check", "open",
           "stat", "map", "reject", "close", "sidecar", "lookup", "unmap",
           "unmapMain", "returned"}

\* Every variable has its type, and a thread between open and close has a
\* descriptor.
TypeOK ==
    /\ open \in [Fds -> FileOrNone] /\ memory \in [Addresses -> FileOrNone]
    /\ once \in {"unset", "running", "done"}
    /\ probe \in 0 .. Len(Suffixes) + 1
    /\ pc \in [Threads -> Phases]
    /\ role \in [Threads -> Roles]
    /\ fd \in [Threads -> Fds \union {None}]
    /\ mapping \in [Threads -> [Roles -> Addresses \union {None}]]
    /\ hasSidecar \in [Threads -> BOOLEAN]
    /\ opened \in [Threads -> [Roles -> FileOrNone]]
    /\ \A t \in Threads : pc[t] \in {"stat", "map", "reject", "close"} => fd[t] \in Fds

\* While a thread searches, it has the two files that it opened in front of it:
\* no other thread closed its descriptor or unmapped its memory, and it
\* unmapped neither itself (RorkHookFindSharedCacheSymbolAtPath gives
\* mainMapping away under two names).
ViewsStayMapped ==
    \A t \in Threads : pc[t] = "lookup" =>
        /\ opened[t]["main"] # None /\ memory[mapping[t]["main"]] = opened[t]["main"]
        /\ memory[mapping[t]["symbols"]] =
              IF hasSidecar[t] THEN opened[t]["symbols"] ELSE opened[t]["main"]

\* Between calls nothing is left open or mapped, whichever system call failed.
NothingLeaks ==
    (\A t \in Threads : pc[t] \in {"idle", "returned"}) =>
        /\ \A d \in Fds : open[d] = None
        /\ \A a \in Addresses : memory[a] = None

\* The whole paths; a base without suffix is none, nor is one with two.
CachePaths == {<<>>, <<"active">>} \union
    {<<b, Suffixes[k]>> : b \in Bases, k \in DOMAIN Suffixes}

ASSUME NoneAssumption == None \notin CachePaths

\* However many threads ask at once, the path is decided once and each of them
\* gets it whole (the static buffer of RorkHookLocateSharedCache is written in
\* several steps, and its address is all that the function returns).
Cell == INSTANCE OnceCell WITH
    Askers <- Threads, Values <- CachePaths, Undecided <- None,
    value <- IF once = "done" THEN cachePath ELSE None, got <- seen
LocatesOnce == Cell!Spec

(***************************************************************************)
(* The lookup as RorkHookSharedCache.h describes it: dyld's path; when     *)
(* that is not readable the private cache, then the Cryptex location, then *)
(* the system location, each with its suffixes in order.  A location that  *)
(* the process does not have, or that holds no cache, is passed over.      *)
(***************************************************************************)
Usable(path) == Fits(path) /\ IsReadable(path)
NamedByDyld == world.active # None /\ Usable(<<world.active>>)
Offered(b) == IF b = "private" THEN world.private ELSE b \in world.directories
UsableIn(b) == {k \in DOMAIN Suffixes : Offered(b) /\ Usable(<<b, Suffixes[k]>>)}
Ahead(b) == CASE b = "private" -> {}
              [] b = "cryptex" -> {"private"}
              [] b = "system"  -> {"private", "cryptex"}

IsFirstChoice(path) ==
    IF NamedByDyld THEN path = <<world.active>>
    ELSE \/ path = <<>> /\ \A b \in Bases : UsableIn(b) = {}
         \/ \E b \in Bases :
               /\ UsableIn(b) # {} /\ \A c \in Ahead(b) : UsableIn(c) = {}
               /\ path = <<b, Suffixes[Min(UsableIn(b))]>>

\* What the header says: the path is the first that can be used.  This does not
\* hold: the code takes one location by else-if and probes no other.
FallsBack == once = "done" /\ ~changed => IsFirstChoice(cachePath)

\* Nothing is found, and the first location that the process has holds no cache.
StopsAtFirst(path) ==
    /\ path = <<>> /\ ~NamedByDyld
    /\ \E b \in Bases : /\ Offered(b) /\ UsableIn(b) = {}
                        /\ \A c \in Ahead(b) : ~Offered(c)

\* A path that RorkHookLocateSharedCache gives is the one the header promises,
\* suffixes that do not fit and unreadable files included; when it gives none
\* there is none, or the first location that the process has is without a cache:
\* the only case in which the code departs from the header (FallsBack).
FirstChoice ==
    once = "done" /\ ~changed => IsFirstChoice(cachePath) \/ StopsAtFirst(cachePath)

LocalReadsAreBounded(q, k) ==
    LET end(base, size) == IF size = 0 THEN q.symbols.size ELSE base + size
        pool == q.symbols.localSymbolsOffset + symbolsInfo(q).stringsOffset
    IN  /\ \A r \in LocalReads(q, k) :
              /\ q.symbols.localSymbolsOffset <= r[1] /\ r[1] + r[2] <= q.symbols.size
              /\ r[1] + r[2] <= end(q.symbols.localSymbolsOffset, q.symbols.localSymbolsSize)
        /\ \A r \in NameReads(q, k) :
              pool <= r[1] /\ r[1] + r[2] <= pool + symbolsInfo(q).stringsSize

\* Whatever the files say, the search reads only what is mapped: of the main
\* file the file, of local symbols their region, of names the pool ("Every
\* table, record, string, index, and final address is validated").
ReadsAreBounded ==
    \A t \in Threads : pc[t] = "lookup" =>
        LET q == QueryOf(t)
        IN  /\ \A r \in MainReads(q) : r[1] + r[2] <= q.main.size
            /\ \A k \in FoundImage(q) : LocalReadsAreBounded(q, k)

(***************************************************************************)
(* The meaning of the format, in file offsets and unbounded integers: the  *)
(* image at a place of the table, the symbols that belong to it.           *)
(***************************************************************************)
Ends(f, offset, end) == offset + At(f.strings, offset, NoString).length < end
Reads(f, offset) == At(f.strings, offset, NoString).name
HasPath(q, k) == LET o == PathOffset(q, k)
                 IN  o < q.main.size /\ Ends(q.main, o, q.main.size) /\ Reads(q.main, o) = q.image
IsFirstImage(q, k) == /\ k \in 0 .. imagesCount(q) - 1 /\ HasPath(q, k)
                      /\ \A j \in 0 .. k - 1 : ~HasPath(q, j)
InfoOf(q) == At(q.symbols.infos, q.symbols.localSymbolsOffset, NoInfo)
EntryOf(q, k) ==
    LET o == q.symbols.localSymbolsOffset + InfoOf(q).entriesOffset
    IN  IF uses64BitEntry(q) THEN At(q.symbols.entries64, o + k * Entry64Size, NoEntry)
                             ELSE At(q.symbols.entries32, o + k * Entry32Size, NoEntry)
SymbolAt(q, j) == At(q.symbols.nlists, q.symbols.localSymbolsOffset + InfoOf(q).nlistOffset
                                       + j * NListSize, NoSymbol)
HasName(q, j) ==
    LET pool == q.symbols.localSymbolsOffset + InfoOf(q).stringsOffset
        x == SymbolAt(q, j).strx
    IN  /\ j < InfoOf(q).nlistCount /\ SymbolAt(q, j).sect /\ x # 0
        /\ x < InfoOf(q).stringsSize
        /\ Ends(q.symbols, pool + x, pool + InfoOf(q).stringsSize)
        /\ Reads(q.symbols, pool + x) = q.name
IsSymbolOf(q, k, j) ==
    LET e == EntryOf(q, k)
    IN  /\ j \in e.nlistStartIndex .. e.nlistStartIndex + e.nlistCount - 1 /\ HasName(q, j)
        /\ \A i \in e.nlistStartIndex .. j - 1 : ~HasName(q, i)

\* addr is the first symbol of its name of the first image of its path, slid.
IsAddress(q, slide, addr) ==
    \E k \in 0 .. imagesCount(q) - 1 : \E j \in 0 .. InfoOf(q).nlistCount - 1 :
        /\ IsFirstImage(q, k) /\ IsSymbolOf(q, k, j)
        /\ addr = slide + SymbolAt(q, j).value

\* The search in the files that t opened.
Asked(t) == Query(t, opened[t]["main"],
                  IF hasSidecar[t] THEN opened[t]["symbols"] ELSE opened[t]["main"])

\* The slide of the mapping that t asks about, and whether the code can know it.
TrueSlide(t) == IF Call(t).op = "atPath" THEN Call(t).slide ELSE world.task.slide
SlideIsKnown(t) == Call(t).op = "atPath" \/ SlideIsPublished

\* A pointer that is found is the address of the first symbol of that name of
\* the first image of that path, in the files that were opened, corrected by the
\* slide of the mapping where dyld publishes it: no symbol of another image, no
\* name of another symbol, no wrapped sum.  Where dyld does not, it is the
\* address of that symbol before any slide (RorkHookSharedCacheSlide is "0 when
\* it cannot be read", private/RorkHookInternal.h).
ResolvesRightly ==
    \A t \in Threads : result[t] # Null =>
        /\ IsAddress(Asked(t), IF SlideIsKnown(t) THEN TrueSlide(t) ELSE 0, result[t].addr)
        /\ result[t].signed = (PtrAuth /\ result[t].addr \in Executable)

\* What RorkHookSharedCache.h says: a pointer that is returned "addresses the
\* process's live shared-cache mapping, is corrected for its slide".  This does
\* not hold where the slide cannot be read and 0 is taken for it.
AddressesLiveCache ==
    \A t \in Threads : result[t] # Null => IsAddress(Asked(t), TrueSlide(t), result[t].addr)

(***************************************************************************)
(* A cache as it should be: regular files, and every table inside of what  *)
(* holds it.                                                               *)
(***************************************************************************)
WellMade(q) ==
    LET base == q.symbols.localSymbolsOffset
        end == IF q.symbols.localSymbolsSize = 0 THEN q.symbols.size
               ELSE base + q.symbols.localSymbolsSize
        size == IF uses64BitEntry(q) THEN Entry64Size ELSE Entry32Size
    IN  /\ \A f \in {q.main, q.symbols} :
              f.kind = "regular" /\ f.magic /\ HeaderSize <= f.size
        /\ imagesOffset(q) # 0
        /\ imagesOffset(q) + imagesCount(q) * ImageInfoSize <= q.main.size
        /\ base # 0 /\ base + InfoSize <= end /\ end <= q.symbols.size
        /\ base + InfoOf(q).entriesOffset + InfoOf(q).entriesCount * size <= end
        /\ imagesCount(q) <= InfoOf(q).entriesCount
        /\ base + InfoOf(q).nlistOffset + InfoOf(q).nlistCount * NListSize <= end
        /\ base + InfoOf(q).stringsOffset + InfoOf(q).stringsSize <= end
        /\ \A k \in 0 .. imagesCount(q) - 1 :
              EntryOf(q, k).nlistStartIndex + EntryOf(q, k).nlistCount <= InfoOf(q).nlistCount

\* In such a cache a symbol that is there is found, with or without a sidecar,
\* in the modern format and in the legacy one, unless a system call failed, the
\* files changed or dyld does not publish the slide.
FindsWhatIsThere ==
    \A t \in Threads :
        (/\ pc[t] = "returned" /\ opened[t]["main"] # None
         /\ ~changed /\ ~world.faults /\ SlideIsKnown(t)) =>
        LET side == symbolsPath(t)
            hasSide == Fits(side) /\ IsReadable(side) /\ IsMappable(files[side])
            q == Query(t, opened[t]["main"], IF hasSide THEN files[side] ELSE opened[t]["main"])
        IN  WellMade(q) =>
                \A k \in 0 .. imagesCount(q) - 1, j \in 0 .. InfoOf(q).nlistCount - 1 :
                    (/\ IsFirstImage(q, k) /\ IsSymbolOf(q, k, j)
                     /\ TrueSlide(t) + SymbolAt(q, j).value < Limit)
                    => result[t].addr = TrueSlide(t) + SymbolAt(q, j).value

\* Every call returns, also when the path names something that is no file.
CallsReturn == \A t \in Threads : pc[t] # "idle" ~> pc[t] = "returned"
=============================================================================
