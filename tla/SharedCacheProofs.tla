------------------------- MODULE SharedCacheProofs -------------------------
(***************************************************************************)
(* Theorems about SharedCache, for any number of threads, descriptors,     *)
(* addresses, files and processes: the location of the cache implements    *)
(* OnceCell, no thread's mapping is taken away, and nothing leaks.         *)
(***************************************************************************)
EXTENDS SharedCache, TLAPS

-----------------------------------------------------------------------------
(* The inductive invariant, in parts.                                      *)

Block == {"ask", "active", "choose", "probe", "check"}
BeforeMap == {"idle", "once"} \union Block
HoldsFd == {"stat", "map", "reject", "close"}
Probed == {<<b, Suffixes[k]>> : b \in Bases, k \in DOMAIN Suffixes}

Types ==
    /\ world \in Worlds
    /\ files \in [DOMAIN files -> FileOrNone]
    /\ open \in [Fds -> FileOrNone] /\ memory \in [Addresses -> FileOrNone]
    /\ pc \in [Threads -> Phases]
    /\ role \in [Threads -> Roles]
    /\ fd \in [Threads -> Fds \union {None}]
    /\ mapping \in [Threads -> [Roles -> Addresses \union {None}]]
    /\ hasSidecar \in [Threads -> BOOLEAN]
    /\ opened \in [Threads -> [Roles -> FileOrNone]]

\* One thread at most is in the block, and only while the token says so; what
\* the buffer holds at each of its steps.
Location ==
    /\ once \in {"unset", "running", "done"}
    /\ probe \in 0 .. Len(Suffixes) + 1
    /\ \A t \in Threads : pc[t] \in Block => once = "running"
    /\ \A t, u \in Threads : pc[t] \in Block /\ pc[u] \in Block => t = u
    /\ \A t \in Threads : pc[t] = "active" => cachePath \in {<<>>, <<"active">>}
    /\ \A t \in Threads : pc[t] = "probe" =>
          /\ probe >= 1
          /\ probe <= Len(Suffixes) => cachePath \in {<<b>> : b \in Bases} \union Probed
    /\ \A t \in Threads : pc[t] = "check" =>
          probe \in DOMAIN Suffixes /\ cachePath \in Probed
    /\ once = "done" => cachePath \in CachePaths

\* Who was given a path was given the one that was decided.
Answers ==
    /\ seen \in [Threads -> CachePaths \union {None}]
    /\ \A t \in Threads : seen[t] # None => once = "done" /\ seen[t] = cachePath
    /\ \A t \in Threads : pc[t] \in BeforeMap => seen[t] = None

\* Every open descriptor belongs to one thread, which is between open and close.
Descriptors ==
    /\ \A t \in Threads : pc[t] \in HoldsFd =>
          /\ fd[t] \in Fds
          /\ opened[t][role[t]] \in Files /\ open[fd[t]] = opened[t][role[t]]
    /\ \A t \in Threads : pc[t] \notin HoldsFd => fd[t] = None
    /\ \A t, u \in Threads : fd[t] # None /\ fd[t] = fd[u] => t = u
    /\ \A d \in Fds : open[d] # None => \E t \in Threads : fd[t] = d

\* The threads that have the main file, or the sidecar, mapped.
WithMain == {t \in Threads :
    \/ pc[t] \in {"sidecar", "lookup", "unmap", "unmapMain"}
    \/ pc[t] \in {"open"} \union HoldsFd /\ role[t] = "symbols"
    \/ pc[t] = "close" /\ role[t] = "main"}
WithSide == {t \in Threads :
    \/ pc[t] = "close" /\ role[t] = "symbols"
    \/ pc[t] \in {"lookup", "unmap"} /\ hasSidecar[t]}

Roleplay ==
    /\ \A t \in Threads : pc[t] \in BeforeMap \union {"sidecar"} => role[t] = "main"
    /\ \A t \in Threads : role[t] = "main" => ~hasSidecar[t]
    /\ \A t \in Threads : pc[t] \in {"open"} \union HoldsFd => ~hasSidecar[t]

\* What is mapped belongs to one thread under one name; the second name that
\* the main file has without a sidecar is no claim to it.
Mappings ==
    /\ \A t \in WithMain :
          /\ mapping[t]["main"] \in Addresses /\ opened[t]["main"] \in Files
          /\ memory[mapping[t]["main"]] = opened[t]["main"]
    /\ \A t \in WithSide :
          /\ mapping[t]["symbols"] \in Addresses /\ opened[t]["symbols"] \in Files
          /\ memory[mapping[t]["symbols"]] = opened[t]["symbols"]
    /\ \A t \in Threads : pc[t] \in {"lookup", "unmap"} /\ ~hasSidecar[t] =>
          mapping[t]["symbols"] = mapping[t]["main"]
    /\ \A t \in WithMain, u \in WithSide : mapping[t]["main"] # mapping[u]["symbols"]
    /\ \A t, u \in WithMain : t # u => mapping[t]["main"] # mapping[u]["main"]
    /\ \A t, u \in WithSide : t # u => mapping[t]["symbols"] # mapping[u]["symbols"]
    /\ \A a \in Addresses : memory[a] # None =>
          \/ \E t \in WithMain : mapping[t]["main"] = a
          \/ \E t \in WithSide : mapping[t]["symbols"] = a

IInv == Types /\ Location /\ Answers /\ Descriptors /\ Roleplay /\ Mappings

-----------------------------------------------------------------------------
(* What the steps do to the tables of tables, point by point.              *)

Tables(S) == [Threads -> [Roles -> S]]
Updated(f, t, r, v) == [f EXCEPT ![t][r] = v]

LEMMA Update ==
    ASSUME NEW S, NEW f \in Tables(S), NEW t \in Threads, NEW r \in Roles, NEW v \in S
    PROVE  /\ Updated(f, t, r, v) \in Tables(S)
           /\ \A u \in Threads, s \in Roles :
                 Updated(f, t, r, v)[u][s] = IF u = t /\ s = r THEN v ELSE f[u][s]
<1> DEFINE g == Updated(f, t, r, v)
<1>1. [f[t] EXCEPT ![r] = v] \in [Roles -> S]
  BY DEF Tables
<1>2. g = [f EXCEPT ![t] = [f[t] EXCEPT ![r] = v]]
  BY DEF Updated
<1> HIDE DEF g
<1>3. g \in Tables(S)
  BY <1>1, <1>2 DEF Tables
<1>4. ASSUME NEW u \in Threads, NEW s \in Roles
      PROVE  g[u][s] = IF u = t /\ s = r THEN v ELSE f[u][s]
  BY <1>2 DEF Tables
<1>q. QED
  BY <1>3, <1>4 DEF g

LEMMA OpenEffect ==
    ASSUME Types, NEW t \in Threads, Open(t)
    PROVE  /\ opened' \in Tables(FileOrNone)
           /\ files[PathToMap(t)] \in Files
           /\ \A u \in Threads, s \in Roles :
                 opened'[u][s] = IF u = t /\ s = role[t] THEN files[PathToMap(t)] ELSE opened[u][s]
<1> DEFINE f == files[PathToMap(t)]
<1>1. f \in Files
  BY DEF Open, IsReadable, Exists, Types, FileOrNone
<1>2. /\ opened \in Tables(FileOrNone) /\ role[t] \in Roles /\ f \in FileOrNone
      /\ opened' = Updated(opened, t, role[t], f)
  BY <1>1 DEF Open, Types, FileOrNone, Tables, Updated
<1> HIDE DEF f
<1>3. /\ opened' \in Tables(FileOrNone)
      /\ \A u \in Threads, s \in Roles :
            opened'[u][s] = IF u = t /\ s = role[t] THEN f ELSE opened[u][s]
  BY <1>2, Update
<1>q. QED
  BY <1>1, <1>3 DEF f

LEMMA MmapEffect ==
    ASSUME Types, NEW t \in Threads, Mmap(t)
    PROVE  \E a \in Addresses :
              /\ memory[a] = None /\ memory' = [memory EXCEPT ![a] = open[fd[t]]]
              /\ mapping' \in Tables(Addresses \union {None})
              /\ \A u \in Threads, s \in Roles :
                    mapping'[u][s] = IF u = t /\ s = role[t] THEN a ELSE mapping[u][s]
<1>1. PICK a \in Addresses : /\ memory[a] = None /\ memory' = [memory EXCEPT ![a] = open[fd[t]]]
                             /\ mapping' = Updated(mapping, t, role[t], a)
  BY DEF Mmap, Updated
<1>2. mapping \in Tables(Addresses \union {None}) /\ role[t] \in Roles
  BY DEF Types, Tables
<1>3. a \in Addresses \union {None}
  OBVIOUS
<1>4. /\ mapping' \in Tables(Addresses \union {None})
      /\ \A u \in Threads, s \in Roles :
            mapping'[u][s] = IF u = t /\ s = role[t] THEN a ELSE mapping[u][s]
  BY <1>1, <1>2, <1>3, Update
<1>q. QED
  BY <1>1, <1>4

LEMMA SidecarEffect ==
    ASSUME Types, NEW t \in Threads, Sidecar(t)
    PROVE  /\ mapping' \in Tables(Addresses \union {None})
           /\ \/ pc' = [pc EXCEPT ![t] = "open"] /\ mapping' = mapping
              \/ /\ pc' = [pc EXCEPT ![t] = "lookup"]
                 /\ \A u \in Threads, s \in Roles : mapping'[u][s] =
                        IF u = t /\ s = "symbols" THEN mapping[t]["main"] ELSE mapping[u][s]
<1>1. mapping \in Tables(Addresses \union {None}) /\ "symbols" \in Roles /\ "main" \in Roles
  BY DEF Types, Tables, Roles
<1>2. mapping[t]["main"] \in Addresses \union {None}
  BY <1>1 DEF Tables
<1>3. CASE pc' = [pc EXCEPT ![t] = "open"] /\ mapping' = mapping
  BY <1>1, <1>3
<1>4. CASE /\ pc' = [pc EXCEPT ![t] = "lookup"]
           /\ mapping' = Updated(mapping, t, "symbols", mapping[t]["main"])
  BY <1>1, <1>2, <1>4, Update
<1>q. QED
  BY <1>3, <1>4 DEF Sidecar, GoTo, Updated

LEMMA ReturnsEffect ==
    ASSUME Types, NEW t \in Threads, NEW from, NEW bytes \in Addresses \union {None},
           MapFileReturns(t, from, bytes)
    PROVE  /\ pc[t] = from
           /\ mapping' \in Tables(Addresses \union {None})
           /\ \/ /\ role[t] = "main"
                 /\ pc' = [pc EXCEPT ![t] = IF bytes = None THEN "returned" ELSE "sidecar"]
                 /\ hasSidecar' = hasSidecar
                 /\ \A u \in Threads, s \in Roles : mapping'[u][s] =
                        IF u = t /\ s = "main" THEN bytes ELSE mapping[u][s]
              \/ /\ role[t] = "symbols"
                 /\ pc' = [pc EXCEPT ![t] = "lookup"]
                 /\ hasSidecar' = [hasSidecar EXCEPT ![t] = bytes # None]
                 /\ \A u \in Threads, s \in Roles : mapping'[u][s] =
                        IF u = t /\ s = "symbols"
                        THEN IF bytes = None THEN mapping[t]["main"] ELSE bytes
                        ELSE mapping[u][s]
<1>1. mapping \in Tables(Addresses \union {None}) /\ "symbols" \in Roles /\ "main" \in Roles
  BY DEF Types, Tables, Roles
<1>2. role[t] \in {"main", "symbols"} /\ pc[t] = from
  BY DEF Types, Roles, MapFileReturns, GoTo
<1>3. CASE role[t] = "main"
  <2>1. /\ pc' = [pc EXCEPT ![t] = IF bytes = None THEN "returned" ELSE "sidecar"]
        /\ mapping' = Updated(mapping, t, "main", bytes) /\ hasSidecar' = hasSidecar
    BY <1>3 DEF MapFileReturns, GoTo, Updated
  <2>2. /\ mapping' \in Tables(Addresses \union {None})
        /\ \A u \in Threads, s \in Roles : mapping'[u][s] =
              IF u = t /\ s = "main" THEN bytes ELSE mapping[u][s]
    BY <1>1, <2>1, Update
  <2>q. QED
    BY <1>2, <1>3, <2>1, <2>2
<1>4. CASE role[t] = "symbols"
  <2> DEFINE v == IF bytes = None THEN mapping[t]["main"] ELSE bytes
  <2>1. /\ pc' = [pc EXCEPT ![t] = "lookup"]
        /\ mapping' = Updated(mapping, t, "symbols", v)
        /\ hasSidecar' = [hasSidecar EXCEPT ![t] = bytes # None]
    BY <1>4 DEF MapFileReturns, GoTo, Updated
  <2>2. v \in Addresses \union {None}
    BY <1>1 DEF Tables
  <2> HIDE DEF v
  <2>3. /\ mapping' \in Tables(Addresses \union {None})
        /\ \A u \in Threads, s \in Roles : mapping'[u][s] =
              IF u = t /\ s = "symbols" THEN v ELSE mapping[u][s]
    BY <1>1, <2>1, <2>2, Update
  <2>q. QED
    BY <1>2, <1>4, <2>1, <2>3 DEF v
<1>q. QED
  BY <1>2, <1>3, <1>4

-----------------------------------------------------------------------------
(* The steps of a thread keep each part of the invariant.                  *)

\* The shape of the three ways out of RorkHookMapFile.
LEMMA ReturnsTypes ==
    ASSUME Types, NEW t \in Threads, NEW from, NEW bytes \in Addresses \union {None},
           MapFileReturns(t, from, bytes), UNCHANGED <<world, files, memory, role, opened>>,
           open' \in [Fds -> FileOrNone], fd' \in [Threads -> Fds \union {None}]
    PROVE  Types'
<1>1. mapping' \in [Threads -> [Roles -> Addresses \union {None}]]
  BY ReturnsEffect DEF Tables
<1>2. /\ hasSidecar' = hasSidecar \/ hasSidecar' = [hasSidecar EXCEPT ![t] = bytes # None]
      /\ \E to \in {"returned", "sidecar", "lookup"} : pc' = [pc EXCEPT ![t] = to]
  BY DEF MapFileReturns, GoTo
<1>3. hasSidecar' \in [Threads -> BOOLEAN] /\ pc' \in [Threads -> Phases]
  BY <1>2 DEF Types, Phases
<1>q. QED
  BY <1>1, <1>3 DEF Types

LEMMA TypesStep ==
    ASSUME Types, Descriptors, NEW t \in Threads, Step(t)
    PROVE  Types'
<1> USE DEF kernel, location, locals, history, Phases
<1>1. CASE Enter(t) \/ OnceEnter(t) \/ OncePass(t) \/ AskDyld(t) \/ PutSuffix(t)
  BY <1>1 DEF Enter, OnceEnter, OncePass, AskDyld, PutSuffix, GoTo, Types
<1>2. CASE CheckActive(t) \/ ChooseBase(t) \/ CheckSuffix(t) \/ NotLocated(t)
  BY <1>2 DEF CheckActive, ChooseBase, CheckSuffix, NotLocated, LeaveBlock, GoTo, Types
<1>3. CASE Stat(t) \/ StatFails(t) \/ MmapFails(t) \/ Lookup(t)
  BY <1>3 DEF Stat, StatFails, MmapFails, Lookup, GoTo, Types
<1>4. CASE UnmapSidecar(t) \/ UnmapMain(t)
  BY <1>4 DEF UnmapSidecar, UnmapMain, GoTo, Types, FileOrNone
<1>5. CASE Sidecar(t)
  <2>1. /\ mapping' \in [Threads -> [Roles -> Addresses \union {None}]]
        /\ pc' = [pc EXCEPT ![t] = "open"] \/ pc' = [pc EXCEPT ![t] = "lookup"]
    BY <1>5, SidecarEffect DEF Tables
  <2>2. role' \in [Threads -> Roles]
    BY <1>5 DEF Sidecar, Types, Roles
  <2>q. QED
    BY <1>5, <2>1, <2>2 DEF Sidecar, Types
<1>6. CASE Open(t)
  <2>1. /\ opened' \in [Threads -> [Roles -> FileOrNone]] /\ files[PathToMap(t)] \in FileOrNone
    BY <1>6, OpenEffect DEF Tables, FileOrNone
  <2>2. open' \in [Fds -> FileOrNone] /\ fd' \in [Threads -> Fds \union {None}]
    BY <1>6, <2>1 DEF Open, Types
  <2>q. QED
    BY <1>6, <2>1, <2>2 DEF Open, GoTo, Types
<1>7. CASE Mmap(t)
  <2>1. pc[t] = "map" /\ fd[t] \in Fds /\ open[fd[t]] \in FileOrNone
    BY <1>7 DEF Mmap, GoTo, Descriptors, HoldsFd, Types
  <2>2. PICK a \in Addresses : /\ memory' = [memory EXCEPT ![a] = open[fd[t]]]
                               /\ mapping' \in Tables(Addresses \union {None})
    BY <1>7, MmapEffect
  <2>3. mapping' \in [Threads -> [Roles -> Addresses \union {None}]]
    BY <2>2 DEF Tables
  <2>4. memory' \in [Addresses -> FileOrNone]
    BY <2>1, <2>2 DEF Types
  <2>q. QED
    BY <1>7, <2>3, <2>4 DEF Mmap, GoTo, Types
<1>8. CASE OpenFails(t)
  <2>1. open' \in [Fds -> FileOrNone] /\ fd' \in [Threads -> Fds \union {None}]
    BY <1>8 DEF OpenFails, Types
  <2>2. MapFileReturns(t, "open", None) /\ UNCHANGED <<world, files, memory, role, opened>>
    BY <1>8 DEF OpenFails
  <2>q. QED
    BY <2>1, <2>2, ReturnsTypes
<1>9. CASE Reject(t)
  <2>1. open' \in [Fds -> FileOrNone] /\ fd' \in [Threads -> Fds \union {None}]
    BY <1>9 DEF Reject, Types, FileOrNone
  <2>2. MapFileReturns(t, "reject", None) /\ UNCHANGED <<world, files, memory, role, opened>>
    BY <1>9 DEF Reject
  <2>q. QED
    BY <2>1, <2>2, ReturnsTypes
<1>10. CASE Close(t)
  <2>1. open' \in [Fds -> FileOrNone] /\ fd' \in [Threads -> Fds \union {None}]
    BY <1>10 DEF Close, Types, FileOrNone
  <2>2. /\ MapFileReturns(t, "close", mapping[t][role[t]])
        /\ UNCHANGED <<world, files, memory, role, opened>>
    BY <1>10 DEF Close
  <2>3. mapping[t][role[t]] \in Addresses \union {None}
    BY DEF Types
  <2>q. QED
    BY <2>1, <2>2, <2>3, ReturnsTypes
<1>q. QED
  BY <1>1, <1>2, <1>3, <1>4, <1>5, <1>6, <1>7, <1>8, <1>9, <1>10 DEF Step, Locate, MapFile

LEMMA SuffixesFact == Len(Suffixes) = 4 /\ DOMAIN Suffixes = 1 .. 4
  BY DEF Suffixes

\* The paths that the steps of the block write.
LEMMA PathFacts ==
    /\ Probed \subseteq CachePaths /\ <<>> \in CachePaths /\ <<"active">> \in CachePaths
    /\ \A p \in {<<b>> : b \in Bases} \union Probed, k \in DOMAIN Suffixes :
          <<Head(p), Suffixes[k]>> \in Probed
<1>1. Probed \subseteq CachePaths /\ <<>> \in CachePaths /\ <<"active">> \in CachePaths
  BY DEF Probed, CachePaths, Bases
<1>2. ASSUME NEW p \in {<<b>> : b \in Bases} \union Probed
      PROVE  Head(p) \in Bases
  <2>1. CASE p \in {<<b>> : b \in Bases}
    BY <2>1
  <2>2. CASE p \in Probed
    BY <2>2 DEF Probed
  <2>q. QED
    BY <2>1, <2>2
<1>q. QED
  BY <1>1, <1>2 DEF Probed

LEMMA LocationStep ==
    ASSUME Types, Location, NEW t \in Threads, Step(t)
    PROVE  Location'
<1> USE SuffixesFact DEF kernel, location, locals, history, Block
<1>1. CASE Enter(t)
  BY <1>1 DEF Enter, GoTo, Types, Location
<1>2. CASE OnceEnter(t)
  BY <1>2 DEF OnceEnter, GoTo, Types, Location
<1>3. CASE OncePass(t)
  BY <1>3 DEF OncePass, GoTo, Types, Location
<1>4. CASE AskDyld(t)
  <2>1. cachePath' \in {<<>>, <<"active">>}
    BY <1>4, WorldsAssumption DEF AskDyld, Types
  <2>q. QED
    BY <1>4, <2>1 DEF AskDyld, GoTo, Types, Location
<1>5. CASE CheckActive(t)
  <2>1. cachePath \in CachePaths /\ pc[t] = "active" /\ once = "running" /\ probe' = probe
    BY <1>5, PathFacts DEF CheckActive, LeaveBlock, GoTo, Location
  <2>2. CASE /\ pc' = [pc EXCEPT ![t] = "once"] /\ once' = "done" /\ cachePath' = cachePath
    BY <2>1, <2>2 DEF Types, Location
  <2>3. CASE pc' = [pc EXCEPT ![t] = "choose"] /\ once' = once
    BY <2>1, <2>3 DEF Types, Location
  <2>q. QED
    BY <1>5, <2>2, <2>3 DEF CheckActive, LeaveBlock, GoTo
<1>6. CASE ChooseBase(t)
  <2>1. BasePath \in {<<b>> : b \in Bases} \/ BasePath = <<>>
    BY DEF BasePath, Bases
  <2>2. CASE LeaveBlock(t, "choose") /\ cachePath' = <<>> /\ probe' = probe
    BY <2>2, PathFacts DEF LeaveBlock, GoTo, Types, Location
  <2>3. CASE /\ GoTo(t, "choose", "probe") /\ cachePath' = BasePath /\ once' = once
             /\ probe' = IF BasePath = <<>> THEN Len(Suffixes) + 1 ELSE 1
    <3>1. /\ probe' \in 1 .. 5
          /\ probe' <= 4 => cachePath' \in {<<b>> : b \in Bases} \union Probed
      BY <2>1, <2>3
    <3>2. /\ pc[t] = "choose" /\ pc' = [pc EXCEPT ![t] = "probe"] /\ once' = once
      BY <2>3 DEF GoTo
    <3> HIDE DEF Block
    <3>3. once = "running" /\ \A u \in Threads : pc[u] \in Block => u = t
      BY <3>2 DEF Location, Block
    <3>4. \A u \in Threads : u # t => pc'[u] \notin Block
      BY <3>2, <3>3 DEF Types
    <3>5. pc'[t] = "probe" /\ "probe" \in Block
      BY <3>2 DEF Types, Block
    <3>6. \A u \in Threads : pc'[u] \notin {"active", "check"}
      BY <3>4, <3>5 DEF Block
    <3>q. QED
      BY <3>1, <3>2, <3>3, <3>4, <3>5, <3>6 DEF Location
  <2>q. QED
    BY <1>6, <2>2, <2>3 DEF ChooseBase
<1>7. CASE PutSuffix(t)
  <2>1. pc[t] = "probe" /\ probe \in DOMAIN Suffixes
    BY <1>7 DEF PutSuffix, GoTo, Location
  <2>2. cachePath \in {<<b>> : b \in Bases} \union Probed
    BY <2>1 DEF Location
  <2>3. cachePath' \in Probed
    BY <1>7, <2>1, <2>2, PathFacts DEF PutSuffix
  <2>q. QED
    BY <1>7, <2>1, <2>3 DEF PutSuffix, GoTo, Types, Location
<1>8. CASE CheckSuffix(t)
  <2>1. pc[t] = "check" /\ cachePath' = cachePath
    BY <1>8 DEF CheckSuffix, LeaveBlock, GoTo
  <2>2. probe \in 1 .. 4 /\ cachePath \in Probed /\ cachePath \in CachePaths
    BY <2>1, PathFacts DEF Location
  <2>3. CASE LeaveBlock(t, "check") /\ probe' = probe
    BY <2>1, <2>2, <2>3 DEF LeaveBlock, GoTo, Types, Location
  <2>4. CASE GoTo(t, "check", "probe") /\ probe' = probe + 1 /\ once' = once
    BY <2>1, <2>2, <2>4 DEF GoTo, Types, Location
  <2>q. QED
    BY <1>8, <2>3, <2>4 DEF CheckSuffix
<1>9. CASE NotLocated(t)
  BY <1>9, PathFacts DEF NotLocated, LeaveBlock, GoTo, Types, Location
<1>10. CASE MapFile(t) \/ Sidecar(t) \/ Lookup(t) \/ UnmapSidecar(t) \/ UnmapMain(t)
  <2>1. UNCHANGED location /\ pc[t] \notin Block
        /\ \E to \in Phases \ Block : pc' = [pc EXCEPT ![t] = to]
    <3>1. CASE OpenFails(t) \/ Reject(t) \/ Close(t)
      BY <3>1 DEF OpenFails, Reject, Close, MapFileReturns, GoTo, Phases
    <3>2. CASE Open(t) \/ Stat(t) \/ StatFails(t) \/ Mmap(t) \/ MmapFails(t)
      BY <3>2 DEF Open, Stat, StatFails, Mmap, MmapFails, GoTo, Phases
    <3>q. QED
      BY <1>10, <3>1, <3>2
      DEF MapFile, Sidecar, Lookup, UnmapSidecar, UnmapMain, GoTo, Phases
  <2>q. QED
    BY <2>1 DEF Types, Location
<1>q. QED
  BY <1>1, <1>2, <1>3, <1>4, <1>5, <1>6, <1>7, <1>8, <1>9, <1>10 DEF Step, Locate

LEMMA AnswersStep ==
    ASSUME Types, Location, Answers, NEW t \in Threads, Step(t)
    PROVE  Answers'
<1> USE DEF kernel, location, locals, history, BeforeMap, Block
<1>1. CASE OncePass(t)
  <2>1. /\ once = "done" /\ cachePath \in CachePaths /\ UNCHANGED <<once, cachePath>>
        /\ seen' = [seen EXCEPT ![t] = cachePath]
        /\ pc' = [pc EXCEPT ![t] = "returned"] \/ pc' = [pc EXCEPT ![t] = "open"]
    BY <1>1 DEF OncePass, GoTo, Location
  <2>q. QED
    BY <2>1 DEF Answers, Types
<1>2. CASE /\ UNCHANGED <<seen, once, cachePath>>
           /\ \E to \in Phases : /\ pc' = [pc EXCEPT ![t] = to]
                                 /\ to \in BeforeMap => pc[t] \in BeforeMap
  BY <1>2 DEF Answers, Types
<1>3. CASE /\ seen' = seen /\ once # "done" /\ pc[t] \in BeforeMap
           /\ \E to \in Phases : pc' = [pc EXCEPT ![t] = to]
  BY <1>3 DEF Answers, Types
<1>4. CASE Enter(t)
  BY <1>2, <1>4 DEF Enter, GoTo, Phases
<1>5. CASE OnceEnter(t) \/ AskDyld(t) \/ PutSuffix(t)
  BY <1>3, <1>5 DEF OnceEnter, AskDyld, PutSuffix, GoTo, Phases, Location
<1>6. CASE CheckActive(t) \/ ChooseBase(t) \/ CheckSuffix(t) \/ NotLocated(t)
  BY <1>3, <1>6 DEF CheckActive, ChooseBase, CheckSuffix, NotLocated, LeaveBlock, GoTo, Phases, Location
<1>7. CASE OpenFails(t) \/ Reject(t) \/ Close(t)
  BY <1>2, <1>7 DEF OpenFails, Reject, Close, MapFileReturns, GoTo, Phases
<1>8. CASE Open(t) \/ Stat(t) \/ StatFails(t) \/ Mmap(t) \/ MmapFails(t)
  BY <1>2, <1>8 DEF Open, Stat, StatFails, Mmap, MmapFails, GoTo, Phases
<1>9. CASE Sidecar(t) \/ Lookup(t) \/ UnmapSidecar(t) \/ UnmapMain(t)
  BY <1>2, <1>9 DEF Sidecar, Lookup, UnmapSidecar, UnmapMain, GoTo, Phases
<1>q. QED
  BY <1>1, <1>4, <1>5, <1>6, <1>7, <1>8, <1>9 DEF Step, Locate, MapFile

LEMMA RoleplayStep ==
    ASSUME Types, Roleplay, NEW t \in Threads, Step(t)
    PROVE  Roleplay'
<1> USE DEF kernel, location, locals, history, BeforeMap, Block, HoldsFd
<1>1. CASE Enter(t) \/ OnceEnter(t) \/ OncePass(t) \/ AskDyld(t) \/ PutSuffix(t)
  BY <1>1 DEF Enter, OnceEnter, OncePass, AskDyld, PutSuffix, GoTo, Types, Roleplay
<1>2. CASE CheckActive(t) \/ ChooseBase(t) \/ CheckSuffix(t) \/ NotLocated(t)
  BY <1>2 DEF CheckActive, ChooseBase, CheckSuffix, NotLocated, LeaveBlock, GoTo, Types, Roleplay
<1>3. CASE OpenFails(t) \/ Reject(t) \/ Close(t)
  <2>1. /\ UNCHANGED role /\ role[t] \in {"main", "symbols"}
        /\ \/ /\ role[t] = "main" /\ hasSidecar' = hasSidecar
              /\ pc' = [pc EXCEPT ![t] = "returned"] \/ pc' = [pc EXCEPT ![t] = "sidecar"]
           \/ /\ role[t] = "symbols" /\ pc' = [pc EXCEPT ![t] = "lookup"]
              /\ \E b \in BOOLEAN : hasSidecar' = [hasSidecar EXCEPT ![t] = b]
    BY <1>3 DEF OpenFails, Reject, Close, MapFileReturns, GoTo, Types, Roles
  <2>q. QED
    BY <2>1 DEF Types, Roleplay
<1>4. CASE Open(t) \/ Stat(t) \/ StatFails(t) \/ Mmap(t) \/ MmapFails(t)
  BY <1>4 DEF Open, Stat, StatFails, Mmap, MmapFails, GoTo, Types, Roleplay
<1>5. CASE Lookup(t) \/ UnmapSidecar(t) \/ UnmapMain(t)
  BY <1>5 DEF Lookup, UnmapSidecar, UnmapMain, GoTo, Types, Roleplay
<1>6. CASE Sidecar(t)
  <2>1. /\ ~hasSidecar[t] /\ hasSidecar' = hasSidecar
        /\ role' = [role EXCEPT ![t] = "symbols"]
        /\ pc' = [pc EXCEPT ![t] = "open"] \/ pc' = [pc EXCEPT ![t] = "lookup"]
    BY <1>6 DEF Sidecar, GoTo, Roleplay
  <2>q. QED
    BY <2>1 DEF Types, Roleplay
<1>q. QED
  BY <1>1, <1>2, <1>3, <1>4, <1>5, <1>6 DEF Step, Locate, MapFile

LEMMA DescriptorsStep ==
    ASSUME Types, Descriptors, NEW t \in Threads, Step(t)
    PROVE  Descriptors'
<1> USE DEF kernel, location, locals, history
<1>0. CASE /\ UNCHANGED <<open, fd, opened>>
           /\ \E to \in Phases : /\ pc' = [pc EXCEPT ![t] = to]
                                 /\ to \in HoldsFd <=> pc[t] \in HoldsFd
           /\ \/ role' = role
              \/ pc[t] \notin HoldsFd /\ role' = [role EXCEPT ![t] = "symbols"]
  <2>1. \A u \in Threads : pc'[u] \in HoldsFd <=> pc[u] \in HoldsFd
    BY <1>0 DEF Types
  <2>2. \A u \in Threads : pc[u] \in HoldsFd => role'[u] = role[u]
    BY <1>0 DEF Types
  <2>q. QED
    BY <1>0, <2>1, <2>2 DEF Descriptors
<1>1. CASE Enter(t) \/ OnceEnter(t) \/ OncePass(t) \/ AskDyld(t) \/ PutSuffix(t)
  BY <1>0, <1>1 DEF Enter, OnceEnter, OncePass, AskDyld, PutSuffix, GoTo, HoldsFd, Phases
<1>2. CASE CheckActive(t) \/ ChooseBase(t) \/ CheckSuffix(t) \/ NotLocated(t)
  BY <1>0, <1>2
  DEF CheckActive, ChooseBase, CheckSuffix, NotLocated, LeaveBlock, GoTo, HoldsFd, Phases
<1>3. CASE Stat(t) \/ StatFails(t) \/ Mmap(t) \/ MmapFails(t)
  BY <1>0, <1>3 DEF Stat, StatFails, Mmap, MmapFails, GoTo, HoldsFd, Phases
<1>4. CASE Sidecar(t) \/ Lookup(t) \/ UnmapSidecar(t) \/ UnmapMain(t)
  BY <1>0, <1>4 DEF Sidecar, Lookup, UnmapSidecar, UnmapMain, GoTo, HoldsFd, Phases
<1> USE KernelAssumption DEF HoldsFd
<1>5. CASE OpenFails(t)
  BY <1>0, <1>5 DEF OpenFails, MapFileReturns, GoTo, Phases
<1>6. CASE Open(t)
  <2>1. PICK d \in Fds : /\ open[d] = None /\ open' = [open EXCEPT ![d] = files[PathToMap(t)]]
                         /\ fd' = [fd EXCEPT ![t] = d]
    BY <1>6 DEF Open
  <2>2. /\ pc[t] = "open" /\ pc' = [pc EXCEPT ![t] = "stat"] /\ role' = role /\ fd[t] = None
    BY <1>6 DEF Open, GoTo, Descriptors
  <2>3. ASSUME NEW u \in Threads, u # t, pc[u] \in HoldsFd
        PROVE  fd[u] \in Fds /\ fd[u] # d
    BY <2>1, <2>3 DEF Descriptors
  <2>4. \A u \in Threads : u # t => opened'[u][role[u]] = opened[u][role[u]]
    BY <1>6, OpenEffect DEF Types
  <2>5. opened'[t][role[t]] = files[PathToMap(t)] /\ files[PathToMap(t)] \in Files
    BY <1>6, OpenEffect DEF Types
  <2>6. \A u \in Threads : fd[u] # d
    BY <2>3, <2>1, <2>2 DEF Descriptors
  <2>q. QED
    BY <2>1, <2>2, <2>4, <2>5, <2>6 DEF Types, Descriptors
<1>7. CASE Reject(t) \/ Close(t)
  <2>1. /\ pc[t] \in HoldsFd /\ fd[t] \in Fds
        /\ \E to \in Phases \ HoldsFd : pc' = [pc EXCEPT ![t] = to]
        /\ open' = [open EXCEPT ![fd[t]] = None] /\ fd' = [fd EXCEPT ![t] = None]
        /\ UNCHANGED <<role, opened>>
    BY <1>7 DEF Reject, Close, MapFileReturns, GoTo, Phases, Descriptors
  <2>2. \A u \in Threads : u # t /\ fd[u] # None => fd[u] # fd[t]
    BY <2>1 DEF Descriptors
  <2>q. QED
    BY <2>1, <2>2 DEF Types, Descriptors
<1>q. QED
  BY <1>1, <1>2, <1>3, <1>4, <1>5, <1>6, <1>7 DEF Step, Locate, MapFile

\* A step of t leaves everything of the other threads alone.
Others(t) ==
    \A u \in Threads \ {t} :
        /\ pc'[u] = pc[u] /\ role'[u] = role[u] /\ hasSidecar'[u] = hasSidecar[u]
        /\ \A s \in Roles : mapping'[u][s] = mapping[u][s] /\ opened'[u][s] = opened[u][s]

LEMMA HoldersAreThreads ==
    WithMain \subseteq Threads /\ WithSide \subseteq Threads
    /\ WithMain' \subseteq Threads /\ WithSide' \subseteq Threads
  BY DEF WithMain, WithSide

LEMMA OthersKeep ==
    ASSUME NEW t \in Threads, Others(t), NEW u \in Threads \ {t}
    PROVE  /\ (u \in WithMain' <=> u \in WithMain) /\ (u \in WithSide' <=> u \in WithSide)
           /\ mapping'[u]["main"] = mapping[u]["main"]
           /\ mapping'[u]["symbols"] = mapping[u]["symbols"]
           /\ opened'[u]["main"] = opened[u]["main"]
           /\ opened'[u]["symbols"] = opened[u]["symbols"]
  BY DEF Others, WithMain, WithSide, Roles

\* A step that maps and unmaps nothing, after which t has what it had.
LEMMA MappingsKept ==
    ASSUME Mappings, NEW t \in Threads, Others(t), memory' = memory,
           t \in WithMain' <=> t \in WithMain, t \in WithSide' <=> t \in WithSide,
           t \in WithMain => /\ mapping'[t]["main"] = mapping[t]["main"]
                         /\ opened'[t]["main"] = opened[t]["main"],
           t \in WithSide => /\ mapping'[t]["symbols"] = mapping[t]["symbols"]
                         /\ opened'[t]["symbols"] = opened[t]["symbols"],
           pc'[t] \in {"lookup", "unmap"} /\ ~hasSidecar'[t] =>
              mapping'[t]["symbols"] = mapping'[t]["main"]
    PROVE  Mappings'
<1>1. \A u \in Threads :
         /\ (u \in WithMain' <=> u \in WithMain) /\ (u \in WithSide' <=> u \in WithSide)
         /\ u \in WithMain => /\ mapping'[u]["main"] = mapping[u]["main"]
                          /\ opened'[u]["main"] = opened[u]["main"]
         /\ u \in WithSide => /\ mapping'[u]["symbols"] = mapping[u]["symbols"]
                          /\ opened'[u]["symbols"] = opened[u]["symbols"]
  BY OthersKeep
<1>2. \A u \in Threads : pc'[u] \in {"lookup", "unmap"} /\ ~hasSidecar'[u] =>
         mapping'[u]["symbols"] = mapping'[u]["main"]
  BY DEF Mappings, Others, Roles
<1>q. QED
  BY <1>1, <1>2, HoldersAreThreads DEF Mappings

\* A step that unmaps the address a, which t had and has no more.
LEMMA MappingsReleased ==
    ASSUME Types, Mappings, NEW t \in Threads, Others(t), NEW a \in Addresses,
           memory' = [memory EXCEPT ![a] = None], mapping' = mapping, opened' = opened,
           \/ /\ t \in WithMain /\ a = mapping[t]["main"] /\ t \notin WithMain'
              /\ t \notin WithSide /\ t \notin WithSide'
           \/ /\ t \in WithSide /\ a = mapping[t]["symbols"] /\ t \notin WithSide'
              /\ t \in WithMain /\ t \in WithMain',
           pc'[t] \notin {"lookup", "unmap"}
    PROVE  Mappings'
<1>1. \A u \in Threads \ {t} : /\ (u \in WithMain' <=> u \in WithMain) /\ (u \in WithSide' <=> u \in WithSide)
  BY OthersKeep
<1>2. \A u \in Threads : u \in WithMain' => u \in WithMain /\ mapping[u]["main"] # a
  BY <1>1 DEF Mappings
<1>3. \A u \in Threads : u \in WithSide' => u \in WithSide /\ mapping[u]["symbols"] # a
  BY <1>1 DEF Mappings
<1>4. \A u \in Threads : pc'[u] \in {"lookup", "unmap"} /\ ~hasSidecar'[u] =>
         mapping'[u]["symbols"] = mapping'[u]["main"]
  BY DEF Mappings, Others
<1>5. \A b \in Addresses : memory'[b] # None => b # a /\ memory[b] # None
  BY DEF Types
<1>6. ASSUME NEW b \in Addresses, memory'[b] # None
      PROVE  \E u \in Threads : \/ u \in WithMain' /\ mapping[u]["main"] = b
                                \/ u \in WithSide' /\ mapping[u]["symbols"] = b
  BY <1>1, <1>5, <1>6, HoldersAreThreads DEF Mappings
<1>7. \A b \in Addresses : b # a => memory'[b] = memory[b]
  BY DEF Types
<1>q. QED
  BY <1>2, <1>3, <1>4, <1>6, <1>7, HoldersAreThreads DEF Mappings

\* Where the paths through the block and RorkHookMapFile leave what t has.
LEMMA MappingsStep ==
    ASSUME Types, Descriptors, Roleplay, Mappings, NEW t \in Threads, Step(t)
    PROVE  Mappings'
<1> USE DEF kernel, location, locals, history
<1>0. CASE /\ UNCHANGED <<memory, mapping, opened, role, hasSidecar>>
           /\ \E to \in Phases : /\ pc' = [pc EXCEPT ![t] = to]
                                 /\ (t \in WithMain' <=> t \in WithMain) /\ (t \in WithSide' <=> t \in WithSide)
                                 /\ to \in {"lookup", "unmap"} => pc[t] \in {"lookup", "unmap"}
  <2>1. Others(t) /\ pc'[t] \in {"lookup", "unmap"} => pc[t] \in {"lookup", "unmap"}
    BY <1>0 DEF Others, Types
  <2>2. Others(t)
    BY <1>0 DEF Others, Types
  <2>3. pc'[t] \in {"lookup", "unmap"} /\ ~hasSidecar'[t] => mapping'[t]["symbols"] = mapping'[t]["main"]
    BY <1>0, <2>1, <2>2 DEF Mappings
  <2>q. QED
    BY <1>0, <2>2, <2>3, MappingsKept
<1>1. CASE Enter(t) \/ OnceEnter(t) \/ OncePass(t) \/ AskDyld(t) \/ PutSuffix(t)
  <2>1. /\ UNCHANGED <<memory, mapping, opened, role, hasSidecar>> /\ role[t] = "main"
        /\ pc[t] \in BeforeMap
        /\ \E to \in BeforeMap \union {"open", "returned"} : pc' = [pc EXCEPT ![t] = to]
    BY <1>1 DEF Enter, OnceEnter, OncePass, AskDyld, PutSuffix, GoTo, BeforeMap, Block, Roleplay
  <2>2. t \notin WithMain /\ t \notin WithSide /\ t \notin WithMain' /\ t \notin WithSide'
    BY <2>1 DEF WithMain, WithSide, BeforeMap, Block, HoldsFd, Types
  <2>q. QED
    BY <1>0, <2>1, <2>2 DEF BeforeMap, Block, Phases
<1>2. CASE CheckActive(t) \/ ChooseBase(t) \/ CheckSuffix(t) \/ NotLocated(t)
  <2>1. /\ UNCHANGED <<memory, mapping, opened, role, hasSidecar>> /\ role[t] = "main"
        /\ pc[t] \in BeforeMap
        /\ \E to \in BeforeMap : pc' = [pc EXCEPT ![t] = to]
    BY <1>2 DEF CheckActive, ChooseBase, CheckSuffix, NotLocated, LeaveBlock, GoTo,
                BeforeMap, Block, Roleplay
  <2>2. t \notin WithMain /\ t \notin WithSide /\ t \notin WithMain' /\ t \notin WithSide'
    BY <2>1 DEF WithMain, WithSide, BeforeMap, Block, HoldsFd, Types
  <2>q. QED
    BY <1>0, <2>1, <2>2 DEF BeforeMap, Block, Phases
<1>3. CASE Stat(t) \/ StatFails(t) \/ MmapFails(t) \/ Lookup(t)
  <2>1. /\ UNCHANGED <<memory, mapping, opened, role, hasSidecar>>
        /\ \/ pc[t] = "stat" /\ pc' = [pc EXCEPT ![t] = "map"]
           \/ pc[t] \in {"stat", "map"} /\ pc' = [pc EXCEPT ![t] = "reject"]
           \/ pc[t] = "lookup" /\ pc' = [pc EXCEPT ![t] = "unmap"]
    BY <1>3 DEF Stat, StatFails, MmapFails, Lookup, GoTo
  <2>2. (t \in WithMain' <=> t \in WithMain) /\ (t \in WithSide' <=> t \in WithSide)
    BY <2>1 DEF WithMain, WithSide, HoldsFd, Types
  <2>q. QED
    BY <1>0, <2>1, <2>2 DEF Phases
<1>4. CASE Open(t)
  <2>1. /\ UNCHANGED <<memory, mapping, role, hasSidecar>>
        /\ pc[t] = "open" /\ pc' = [pc EXCEPT ![t] = "stat"]
    BY <1>4 DEF Open, GoTo
  <2>2. /\ (t \in WithMain' <=> t \in WithMain) /\ t \notin WithSide /\ t \notin WithSide'
        /\ t \in WithMain => role[t] = "symbols"
    BY <2>1 DEF WithMain, WithSide, HoldsFd, Types
  <2>3. Others(t) /\ (t \in WithMain => opened'[t]["main"] = opened[t]["main"])
    BY <1>4, <2>1, <2>2, OpenEffect DEF Others, Types, Roles
  <2>4. pc'[t] = "stat"
    BY <2>1 DEF Types
  <2>q. QED
    BY <2>1, <2>2, <2>3, <2>4, MappingsKept
<1>5. CASE OpenFails(t) \/ Reject(t)
  <2>1. /\ MapFileReturns(t, pc[t], None) /\ pc[t] \in {"open", "reject"}
        /\ UNCHANGED <<memory, role, opened>>
    BY <1>5 DEF OpenFails, Reject, MapFileReturns, GoTo
  <2>2. None \in Addresses \union {None}
    OBVIOUS
  <2>3. CASE role[t] = "main"
    <3>1. /\ pc' = [pc EXCEPT ![t] = "returned"] /\ hasSidecar' = hasSidecar
          /\ \A u \in Threads, s \in Roles : mapping'[u][s] =
                IF u = t /\ s = "main" THEN None ELSE mapping[u][s]
      BY <2>1, <2>2, <2>3, ReturnsEffect
    <3>2. Others(t) /\ pc'[t] = "returned"
      BY <2>1, <3>1 DEF Others, Types
    <3>3. t \notin WithMain /\ t \notin WithSide /\ t \notin WithMain' /\ t \notin WithSide'
      BY <2>1, <2>3, <3>2 DEF WithMain, WithSide, HoldsFd
    <3>q. QED
      BY <2>1, <3>2, <3>3, MappingsKept
  <2>4. CASE role[t] = "symbols"
    <3>1. /\ pc' = [pc EXCEPT ![t] = "lookup"]
          /\ hasSidecar' = [hasSidecar EXCEPT ![t] = None # None]
          /\ \A u \in Threads, s \in Roles : mapping'[u][s] =
                IF u = t /\ s = "symbols" THEN mapping[t]["main"] ELSE mapping[u][s]
      BY <2>1, <2>2, <2>4, ReturnsEffect
    <3>2. Others(t) /\ pc'[t] = "lookup" /\ ~hasSidecar'[t]
      BY <2>1, <3>1 DEF Others, Types
    <3>3. t \in WithMain /\ t \notin WithSide /\ t \in WithMain' /\ t \notin WithSide'
      BY <2>1, <2>4, <3>2 DEF WithMain, WithSide, HoldsFd
    <3>4. /\ mapping'[t]["main"] = mapping[t]["main"]
          /\ mapping'[t]["symbols"] = mapping'[t]["main"]
      BY <3>1 DEF Roles
    <3>q. QED
      BY <2>1, <3>2, <3>3, <3>4, MappingsKept
  <2>q. QED
    BY <2>3, <2>4 DEF Types, Roles
<1>6. CASE Close(t)
  <2> DEFINE a == mapping[t][role[t]]
  <2>1. /\ MapFileReturns(t, "close", a) /\ pc[t] = "close" /\ UNCHANGED <<memory, role, opened>>
    BY <1>6 DEF Close, MapFileReturns, GoTo
  <2>2. a \in Addresses /\ a # None
    BY <2>1, KernelAssumption DEF Mappings, WithMain, WithSide, Types, Roles
  <2>3. CASE role[t] = "main"
    <3>1. /\ pc' = [pc EXCEPT ![t] = "sidecar"] /\ hasSidecar' = hasSidecar
          /\ \A u \in Threads, s \in Roles : mapping'[u][s] =
                IF u = t /\ s = "main" THEN a ELSE mapping[u][s]
      BY <2>1, <2>2, <2>3, ReturnsEffect
    <3>2. Others(t) /\ pc'[t] = "sidecar" /\ mapping'[t]["main"] = mapping[t]["main"]
      BY <2>1, <2>3, <3>1 DEF Others, Types, Roles
    <3>3. t \in WithMain /\ t \notin WithSide /\ t \in WithMain' /\ t \notin WithSide'
      BY <2>1, <2>3, <3>2 DEF WithMain, WithSide, HoldsFd
    <3>q. QED
      BY <2>1, <3>2, <3>3, MappingsKept
  <2>4. CASE role[t] = "symbols"
    <3>1. /\ pc' = [pc EXCEPT ![t] = "lookup"]
          /\ hasSidecar' = [hasSidecar EXCEPT ![t] = a # None]
          /\ \A u \in Threads, s \in Roles : mapping'[u][s] =
                IF u = t /\ s = "symbols" THEN a ELSE mapping[u][s]
      BY <2>1, <2>2, <2>4, ReturnsEffect
    <3>2. Others(t) /\ pc'[t] = "lookup" /\ hasSidecar'[t]
      BY <2>1, <2>2, <3>1 DEF Others, Types
    <3>3. t \in WithMain /\ t \in WithSide /\ t \in WithMain' /\ t \in WithSide'
      BY <2>1, <2>4, <3>2 DEF WithMain, WithSide, HoldsFd
    <3>4. /\ mapping'[t]["main"] = mapping[t]["main"]
          /\ mapping'[t]["symbols"] = mapping[t]["symbols"]
      BY <2>4, <3>1 DEF Roles
    <3>q. QED
      BY <2>1, <3>2, <3>3, <3>4, MappingsKept
  <2>q. QED
    BY <2>3, <2>4 DEF Types, Roles
<1>7. CASE Sidecar(t)
  <2>1. /\ pc[t] = "sidecar" /\ role[t] = "main" /\ ~hasSidecar[t]
        /\ role' = [role EXCEPT ![t] = "symbols"]
        /\ UNCHANGED <<memory, hasSidecar, opened>>
    BY <1>7 DEF Sidecar, GoTo, Roleplay
  <2>2. \/ pc'[t] = "open" /\ mapping'[t]["main"] = mapping[t]["main"]
        \/ /\ pc'[t] = "lookup" /\ mapping'[t]["main"] = mapping[t]["main"]
           /\ mapping'[t]["symbols"] = mapping'[t]["main"]
    BY <1>7, SidecarEffect DEF Types, Roles
  <2>3. Others(t)
    BY <1>7, <2>1, SidecarEffect DEF Others, Types
  <2>4. t \in WithMain /\ t \notin WithSide /\ t \in WithMain' /\ t \notin WithSide'
    BY <2>1, <2>2 DEF WithMain, WithSide, HoldsFd, Types
  <2>q. QED
    BY <2>1, <2>2, <2>3, <2>4, MappingsKept
<1>8. CASE UnmapMain(t)
  <2>1. /\ pc[t] = "unmapMain" /\ pc' = [pc EXCEPT ![t] = "returned"]
        /\ memory' = [memory EXCEPT ![mapping[t]["main"]] = None]
        /\ UNCHANGED <<mapping, opened, role, hasSidecar>>
    BY <1>8 DEF UnmapMain, GoTo
  <2>2. Others(t) /\ pc'[t] = "returned"
    BY <2>1 DEF Others, Types
  <2>3. t \in WithMain /\ t \notin WithSide /\ t \notin WithMain' /\ t \notin WithSide'
    BY <2>1, <2>2 DEF WithMain, WithSide, HoldsFd
  <2>4. mapping[t]["main"] \in Addresses /\ pc'[t] \notin {"lookup", "unmap"}
    BY <2>2, <2>3 DEF Mappings
  <2> DEFINE a == mapping[t]["main"]
  <2>5. a \in Addresses /\ a = mapping[t]["main"] /\ memory' = [memory EXCEPT ![a] = None]
    BY <2>1, <2>4
  <2> HIDE DEF a
  <2>q. QED
    BY <2>1, <2>2, <2>3, <2>4, <2>5, MappingsReleased
<1>9. CASE UnmapSidecar(t)
  <2>1. /\ pc[t] = "unmap" /\ pc' = [pc EXCEPT ![t] = "unmapMain"]
        /\ UNCHANGED <<mapping, opened, role, hasSidecar>>
    BY <1>9 DEF UnmapSidecar, GoTo
  <2>2. Others(t) /\ pc'[t] = "unmapMain"
    BY <2>1 DEF Others, Types
  <2>3. t \in WithMain /\ t \in WithMain' /\ t \notin WithSide'
    BY <2>1, <2>2 DEF WithMain, WithSide, HoldsFd
  <2>4. CASE hasSidecar[t]
    <3>1. t \in WithSide /\ memory' = [memory EXCEPT ![mapping[t]["symbols"]] = None]
      BY <1>9, <2>1, <2>4 DEF UnmapSidecar, WithSide
    <3>2. mapping[t]["symbols"] \in Addresses
      BY <3>1 DEF Mappings
    <3>q. QED
      BY <2>1, <2>2, <2>3, <3>1, <3>2, MappingsReleased
  <2>5. CASE ~hasSidecar[t]
    <3>1. t \notin WithSide /\ memory' = memory
      BY <1>9, <2>1, <2>5 DEF UnmapSidecar, WithSide
    <3>q. QED
      BY <2>1, <2>2, <2>3, <3>1, MappingsKept
  <2>q. QED
    BY <2>4, <2>5
<1>10. CASE Mmap(t)
  <2>1. PICK a \in Addresses :
          /\ memory[a] = None /\ memory' = [memory EXCEPT ![a] = open[fd[t]]]
          /\ \A u \in Threads, s \in Roles :
                mapping'[u][s] = IF u = t /\ s = role[t] THEN a ELSE mapping[u][s]
    BY <1>10, MmapEffect
  <2>2. /\ pc[t] = "map" /\ pc' = [pc EXCEPT ![t] = "close"]
        /\ UNCHANGED <<role, opened, hasSidecar>>
    BY <1>10 DEF Mmap, GoTo
  <2>3. /\ open[fd[t]] = opened[t][role[t]] /\ opened[t][role[t]] \in Files
        /\ memory'[a] = opened[t][role[t]] /\ mapping'[t][role[t]] = a
        /\ \A b \in Addresses : b # a => memory'[b] = memory[b]
    BY <2>1, <2>2 DEF Descriptors, HoldsFd, Types
  <2>4. Others(t) /\ pc'[t] = "close"
    BY <2>1, <2>2 DEF Others, Types
  <2>5. \A u \in Threads \ {t} :
           /\ (u \in WithMain' <=> u \in WithMain) /\ (u \in WithSide' <=> u \in WithSide)
           /\ mapping'[u]["main"] = mapping[u]["main"]
           /\ mapping'[u]["symbols"] = mapping[u]["symbols"]
    BY <2>4, OthersKeep
  <2>6. /\ t \in WithMain' /\ t \notin WithSide
        /\ role[t] = "main" => t \notin WithMain /\ t \notin WithSide' /\ mapping'[t]["main"] = a
        /\ role[t] = "symbols" => /\ t \in WithMain /\ t \in WithSide' /\ mapping'[t]["symbols"] = a
                                  /\ mapping'[t]["main"] = mapping[t]["main"]
    BY <2>1, <2>2, <2>4 DEF WithMain, WithSide, HoldsFd, Types, Roles
  <2>7. \A u \in Threads : /\ u \in WithMain => mapping[u]["main"] # a
                           /\ u \in WithSide => mapping[u]["symbols"] # a
    BY <2>1, KernelAssumption DEF Mappings
  <2>8. \A u \in Threads : pc'[u] \in {"lookup", "unmap"} /\ ~hasSidecar'[u] =>
           mapping'[u]["symbols"] = mapping'[u]["main"]
    BY <2>2, <2>4, <2>5 DEF Mappings, Types
  <2>9. role[t] = "main" \/ role[t] = "symbols"
    BY DEF Types, Roles
  <2>10. ASSUME NEW b \in Addresses, memory'[b] # None
         PROVE  \E u \in Threads : \/ u \in WithMain' /\ mapping'[u]["main"] = b
                                   \/ u \in WithSide' /\ mapping'[u]["symbols"] = b
    BY <2>3, <2>5, <2>6, <2>9, <2>10, HoldersAreThreads DEF Mappings
  <2>11. \A u \in Threads : u \in WithMain' =>
            /\ mapping'[u]["main"] \in Addresses /\ opened[u]["main"] \in Files
            /\ memory'[mapping'[u]["main"]] = opened[u]["main"]
    BY <2>3, <2>5, <2>6, <2>7, <2>9 DEF Mappings
  <2>12. \A u \in Threads : u \in WithSide' =>
            /\ mapping'[u]["symbols"] \in Addresses /\ opened[u]["symbols"] \in Files
            /\ memory'[mapping'[u]["symbols"]] = opened[u]["symbols"]
    BY <2>3, <2>5, <2>6, <2>7, <2>9 DEF Mappings
  <2>13. \A u, v \in Threads :
            /\ u \in WithMain' /\ v \in WithSide' => mapping'[u]["main"] # mapping'[v]["symbols"]
            /\ u \in WithMain' /\ v \in WithMain' /\ u # v => mapping'[u]["main"] # mapping'[v]["main"]
            /\ u \in WithSide' /\ v \in WithSide' /\ u # v => mapping'[u]["symbols"] # mapping'[v]["symbols"]
    BY <2>5, <2>6, <2>7, <2>9 DEF Mappings
  <2>q. QED
    BY <2>2, <2>8, <2>10, <2>11, <2>12, <2>13, HoldersAreThreads DEF Mappings
<1>q. QED
  BY <1>1, <1>2, <1>3, <1>4, <1>5, <1>6, <1>7, <1>8, <1>9, <1>10 DEF Step, Locate, MapFile

-----------------------------------------------------------------------------
LEMMA InitInv == Init => IInv
<1> SUFFICES ASSUME Init PROVE IInv
  OBVIOUS
<1>1. Types
  BY WorldsAssumption DEF Init, Types, FileOrNone, Phases, Roles
<1>2. Location
  BY SuffixesFact DEF Init, Location, Block
<1>3. Answers /\ Descriptors
  BY DEF Init, Answers, Descriptors, HoldsFd
<1>4. Roleplay
  BY DEF Init, Roleplay, HoldsFd
<1>5. WithMain = {} /\ WithSide = {}
  BY DEF Init, WithMain, WithSide, HoldsFd
<1>6. Mappings
  BY <1>5 DEF Init, Mappings
<1>q. QED
  BY <1>1, <1>2, <1>3, <1>4, <1>6 DEF IInv

\* A change of the file system leaves open files and mappings as they are.
LEMMA ReplaceInv ==
    ASSUME IInv, NEW path \in DOMAIN files, ReplaceFile(path)
    PROVE  IInv'
<1> USE DEF ReplaceFile, location, locals, history
<1>1. Types'
  <2>1. PICK f \in FileOrNone : files' = [files EXCEPT ![path] = f]
    BY WorldsAssumption DEF IInv, Types
  <2>2. files' \in [DOMAIN files' -> FileOrNone]
    BY <2>1 DEF IInv, Types
  <2>q. QED
    BY <2>2 DEF IInv, Types
<1>2. Location' /\ Answers' /\ Roleplay'
  BY DEF IInv, Location, Answers, Roleplay
<1>3. Descriptors'
  BY DEF IInv, Descriptors
<1>4. WithMain' = WithMain /\ WithSide' = WithSide
  BY DEF WithMain, WithSide
<1>5. Mappings'
  BY <1>4 DEF IInv, Mappings
<1>q. QED
  BY <1>1, <1>2, <1>3, <1>5 DEF IInv

LEMMA NextInv == IInv /\ [Next]_vars => IInv'
<1> SUFFICES ASSUME IInv, [Next]_vars PROVE IInv'
  OBVIOUS
<1>1. ASSUME NEW t \in Threads, Step(t) PROVE IInv'
  BY <1>1, TypesStep, LocationStep, AnswersStep, DescriptorsStep, RoleplayStep, MappingsStep
     DEF IInv
<1>2. ASSUME NEW path \in DOMAIN files, ReplaceFile(path) PROVE IInv'
  BY <1>2, ReplaceInv
<1>3. CASE UNCHANGED vars
  <2>1. UNCHANGED <<world, files, open, memory, once, cachePath, probe, pc, role, fd,
                    mapping, hasSidecar, seen, opened>>
    BY <1>3 DEF vars, kernel, location, locals, history
  <2>2. WithMain' = WithMain /\ WithSide' = WithSide
    BY <2>1 DEF WithMain, WithSide
  <2>3. Types' /\ Location' /\ Answers' /\ Roleplay' /\ Descriptors'
    BY <2>1 DEF IInv, Types, Location, Answers, Roleplay, Descriptors
  <2>4. Mappings'
    BY <2>1, <2>2 DEF IInv, Mappings
  <2>q. QED
    BY <2>3, <2>4 DEF IInv
<1>q. QED
  BY <1>1, <1>2, <1>3 DEF Next

LEMMA Invariance == Spec => []IInv
  BY InitInv, NextInv, PTL DEF Spec

-----------------------------------------------------------------------------
\* Every variable of the locating, mapping and searching threads keeps its
\* type, and a thread between open and close in RorkHookMapFile has a
\* descriptor, however many threads, descriptors and addresses there are.
THEOREM TypeCorrect == Spec => []TypeOK
<1>1. IInv => TypeOK
  BY DEF IInv, TypeOK, Types, Location, Descriptors, HoldsFd
<1>q. QED
  BY <1>1, Invariance, PTL

\* RorkHookFindSharedCacheSymbolAtPath searches in the files it opened, whatever
\* other threads open, map and unmap meanwhile and whatever becomes of the
\* files' names.
THEOREM ViewsAreKept == Spec => []ViewsStayMapped
<1>1. ASSUME IInv PROVE ViewsStayMapped
  <2> SUFFICES ASSUME NEW t \in Threads, pc[t] = "lookup"
               PROVE  /\ opened[t]["main"] # None
                      /\ memory[mapping[t]["main"]] = opened[t]["main"]
                      /\ memory[mapping[t]["symbols"]] =
                            IF hasSidecar[t] THEN opened[t]["symbols"] ELSE opened[t]["main"]
    BY DEF ViewsStayMapped
  <2>1. t \in WithMain /\ (hasSidecar[t] => t \in WithSide)
    BY DEF WithMain, WithSide
  <2>2. /\ opened[t]["main"] \in Files
        /\ memory[mapping[t]["main"]] = opened[t]["main"]
        /\ hasSidecar[t] => memory[mapping[t]["symbols"]] = opened[t]["symbols"]
        /\ ~hasSidecar[t] => mapping[t]["symbols"] = mapping[t]["main"]
    BY <1>1, <2>1 DEF IInv, Mappings
  <2>3. opened[t]["main"] # None
    BY <2>2, KernelAssumption
  <2>q. QED
    BY <2>2, <2>3
<1>q. QED
  BY <1>1, Invariance, PTL

\* When no call is under way, every descriptor that RorkHookMapFile opened is
\* closed and every mapping is unmapped, on the failure paths too.
THEOREM NoLeaks == Spec => []NothingLeaks
<1>1. ASSUME IInv PROVE NothingLeaks
  <2> SUFFICES ASSUME \A t \in Threads : pc[t] \in {"idle", "returned"}
               PROVE  /\ \A d \in Fds : open[d] = None
                      /\ \A a \in Addresses : memory[a] = None
    BY DEF NothingLeaks
  <2>1. WithMain = {} /\ WithSide = {}
    BY DEF WithMain, WithSide, HoldsFd
  <2>2. \A a \in Addresses : memory[a] = None
    BY <1>1, <2>1 DEF IInv, Mappings
  <2>3. \A t \in Threads : fd[t] = None
    BY <1>1 DEF IInv, Descriptors, HoldsFd
  <2>4. \A d \in Fds : open[d] = None
    BY <1>1, <2>3, KernelAssumption DEF IInv, Descriptors
  <2>q. QED
    BY <2>2, <2>4
<1>q. QED
  BY <1>1, Invariance, PTL

-----------------------------------------------------------------------------
(* RorkHookLocateSharedCache implements OnceCell.                          *)

LEMMA CellStep ==
    ASSUME IInv, IInv', NEW t \in Threads, Step(t)
    PROVE  Cell!Next \/ UNCHANGED <<IF once = "done" THEN cachePath ELSE None, seen>>
<1> USE DEF kernel, location, locals, history
<1>1. CASE OncePass(t)
  <2>1. /\ once = "done" /\ cachePath \in CachePaths /\ UNCHANGED <<once, cachePath>>
        /\ seen[t] = None /\ seen' = [seen EXCEPT ![t] = cachePath]
    BY <1>1 DEF OncePass, GoTo, IInv, Location, Answers, BeforeMap
  <2>2. cachePath # None
    BY <2>1, NoneAssumption
  <2>3. Cell!Answer(t)
    BY <2>1, <2>2 DEF Cell!Answer
  <2>q. QED
    BY <2>3 DEF Cell!Next
<1>2. CASE once = "running" /\ once' = "done" /\ seen' = seen
  <2>1. cachePath' \in CachePaths
    BY <1>2 DEF IInv, Location
  <2>2. Cell!Decide
    BY <1>2, <2>1 DEF Cell!Decide
  <2>q. QED
    BY <2>2 DEF Cell!Next
<1>3. CASE once # "done" /\ once' # "done" /\ seen' = seen
  BY <1>3
<1>4. CASE UNCHANGED <<once, cachePath, seen>>
  BY <1>4
<1>5. ASSUME pc[t] \in Block PROVE once = "running"
  BY <1>5 DEF IInv, Location
<1>6. CASE AskDyld(t) \/ PutSuffix(t)
  BY <1>3, <1>5, <1>6 DEF AskDyld, PutSuffix, GoTo, Block
<1>7. CASE CheckActive(t) \/ ChooseBase(t) \/ CheckSuffix(t) \/ NotLocated(t)
  BY <1>2, <1>3, <1>5, <1>7 DEF CheckActive, ChooseBase, CheckSuffix, NotLocated,
                                LeaveBlock, GoTo, Block
<1>8. CASE OnceEnter(t)
  BY <1>3, <1>8 DEF OnceEnter
<1>9. CASE Enter(t) \/ MapFile(t) \/ Sidecar(t) \/ Lookup(t) \/ UnmapSidecar(t) \/ UnmapMain(t)
  BY <1>4, <1>9 DEF Enter, MapFile, Open, OpenFails, Stat, StatFails, Reject, Mmap, MmapFails,
                    Close, Sidecar, Lookup, UnmapSidecar, UnmapMain
<1>q. QED
  BY <1>1, <1>6, <1>7, <1>8, <1>9 DEF Step, Locate

\* The static buffer of RorkHookLocateSharedCache, filled in several steps by
\* whichever thread dispatch_once lets in, is a cell that is decided once: every
\* thread gets the same whole path.
THEOREM LocationRefines == Spec => LocatesOnce
<1>1. Init => Cell!Init
  BY DEF Init, Cell!Init
<1>2. IInv /\ IInv' /\ [Next]_vars => [Cell!Next]_<<IF once = "done" THEN cachePath ELSE None, seen>>
  <2> SUFFICES ASSUME IInv, IInv', [Next]_vars
               PROVE  Cell!Next \/ UNCHANGED <<IF once = "done" THEN cachePath ELSE None, seen>>
    OBVIOUS
  <2>1. CASE UNCHANGED vars
    BY <2>1 DEF vars, location, history
  <2>2. CASE \E path \in DOMAIN files : ReplaceFile(path)
    BY <2>2 DEF ReplaceFile, location, history
  <2>q. QED
    BY <2>1, <2>2, CellStep DEF Next
<1>q. QED
  BY <1>1, <1>2, Invariance, PTL DEF Spec, LocatesOnce, Cell!Spec
=============================================================================
