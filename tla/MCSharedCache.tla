--------------------------- MODULE MCSharedCache ---------------------------
(***************************************************************************)
(* Instances of SharedCache.  A record or a string terminator takes a few  *)
(* units of a file; all paths and names have length 1.                     *)
(*                                                                         *)
(* The files are the good one and all that differ from it in two of its    *)
(* fields: a file is named by <<field, value, field, value>>.  The good    *)
(* file has its image table at 3 (images "a" and "b"), their paths at 7    *)
(* and 9, and its local symbols at 11: what they are, two entries, three   *)
(* symbols (the first two are those of "a") and the pool of names.         *)
(***************************************************************************)
EXTENDS SharedCache, TLC

Good == [size |-> 28, magic |-> TRUE, mappingOffset |-> 2,
         imagesOffset |-> 3, imagesCount |-> 2, imagesOffsetOld |-> 0, imagesCountOld |-> 0,
         path |-> 7, pathLength |-> 1,
         localOffset |-> 11, localSize |-> 17,
         entriesOffset |-> 2, entriesCount |-> 2, nlistOffset |-> 6, nlistCount |-> 3,
         stringsOffset |-> 12, stringsSize |-> 5,
         start |-> 0, count |-> 2, strx |-> 1, sect |-> TRUE, value |-> 20, nameLength |-> 1]

Name(n, l) == [name |-> n, length |-> l]
File(kind, readable, g) ==
    LET entries == g.localOffset + g.entriesOffset
        nlists == g.localOffset + g.nlistOffset
        pool == g.localOffset + g.stringsOffset
        symbol1 == [strx |-> 3, sect |-> TRUE, value |-> 10]
        symbol2 == [strx |-> g.strx, sect |-> g.sect, value |-> g.value]
        symbol3 == [strx |-> 1, sect |-> TRUE, value |-> 30]
        entry1 == [nlistStartIndex |-> g.start, nlistCount |-> g.count]
        entry2 == [nlistStartIndex |-> 2, nlistCount |-> 1]
        size == IF g.mappingOffset >= UUIDOffset THEN Entry64Size ELSE Entry32Size
        table == IF g.imagesOffset # 0 /\ g.imagesCount # 0
                 THEN g.imagesOffset ELSE g.imagesOffsetOld
        perImage == (entries :> entry1) @@ (entries + size :> entry2)
    IN  [kind |-> kind, readable |-> readable, size |-> g.size, magic |-> g.magic,
         mappingOffset |-> g.mappingOffset,
         imagesOffset |-> g.imagesOffset, imagesCount |-> g.imagesCount,
         imagesOffsetOld |-> g.imagesOffsetOld, imagesCountOld |-> g.imagesCountOld,
         localSymbolsOffset |-> g.localOffset, localSymbolsSize |-> g.localSize,
         images |-> (table :> [pathFileOffset |-> g.path])
                    @@ (table + ImageInfoSize :> [pathFileOffset |-> 9]),
         strings |-> (7 :> Name("a", g.pathLength)) @@ (9 :> Name("b", 1))
                     @@ (28 :> Name("a", 1)) @@ (27 :> Name("a", 1))
                     @@ (pool + 1 :> Name("s", g.nameLength)) @@ (pool + 3 :> Name("r", 1)),
         infos |-> (g.localOffset :>
                      [nlistOffset |-> g.nlistOffset, nlistCount |-> g.nlistCount,
                       stringsOffset |-> g.stringsOffset, stringsSize |-> g.stringsSize,
                       entriesOffset |-> g.entriesOffset, entriesCount |-> g.entriesCount]),
         entries64 |-> perImage, entries32 |-> perImage,
         nlists |-> (nlists :> symbol1) @@ (nlists + NListSize :> symbol2)
                    @@ (nlists + 2 * NListSize :> symbol3)]

\* What the fields of a file may be instead: around the good value, around the
\* sizes of the file and of the region, and at the end of the numbers.
Changes == <<
    <<"size", 1>>, <<"size", 2>>, <<"size", 3>>, <<"size", 6>>, <<"size", 10>>,
    <<"size", 12>>, <<"size", 22>>, <<"size", 27>>, <<"size", 29>>,
    <<"magic", FALSE>>, <<"mappingOffset", 1>>, <<"mappingOffset", 3>>,
    <<"imagesOffset", 0>>, <<"imagesOffset", 24>>, <<"imagesOffset", 25>>,
    <<"imagesOffset", 31>>, <<"imagesCount", 0>>, <<"imagesCount", 1>>,
    <<"imagesCount", 3>>, <<"imagesCount", 15>>, <<"imagesOffsetOld", 3>>,
    <<"imagesCountOld", 2>>, <<"imagesCountOld", 15>>,
    <<"path", 9>>, <<"path", 27>>, <<"path", 28>>, <<"path", 31>>,
    <<"pathLength", 0>>, <<"pathLength", 20>>, <<"pathLength", 21>>,
    <<"localOffset", 0>>, <<"localOffset", 12>>, <<"localOffset", 26>>,
    <<"localOffset", 28>>, <<"localOffset", 29>>, <<"localOffset", 63>>,
    <<"localSize", 0>>, <<"localSize", 1>>, <<"localSize", 2>>, <<"localSize", 16>>,
    <<"localSize", 18>>, <<"localSize", 63>>,
    <<"entriesOffset", 3>>, <<"entriesOffset", 15>>, <<"entriesOffset", 16>>,
    <<"entriesOffset", 31>>, <<"entriesCount", 0>>, <<"entriesCount", 1>>,
    <<"nlistOffset", 5>>, <<"nlistOffset", 11>>, <<"nlistOffset", 12>>,
    <<"nlistOffset", 31>>, <<"nlistCount", 0>>, <<"nlistCount", 1>>,
    <<"nlistCount", 2>>, <<"nlistCount", 15>>,
    <<"stringsOffset", 13>>, <<"stringsOffset", 17>>, <<"stringsOffset", 31>>,
    <<"stringsSize", 0>>, <<"stringsSize", 1>>, <<"stringsSize", 2>>,
    <<"stringsSize", 3>>, <<"stringsSize", 31>>,
    <<"start", 1>>, <<"start", 2>>, <<"start", 3>>, <<"start", 31>>,
    <<"count", 0>>, <<"count", 1>>, <<"count", 3>>, <<"count", 15>>,
    <<"strx", 0>>, <<"strx", 3>>, <<"strx", 4>>, <<"strx", 5>>, <<"strx", 31>>,
    <<"sect", FALSE>>, <<"value", 0>>, <<"value", 58>>, <<"value", 59>>, <<"value", 63>>,
    <<"nameLength", 0>>, <<"nameLength", 3>>, <<"nameLength", 4>> >>

\* File c * K + d differs from the good one by changes c + 1 and d + 1.
K == Len(Changes)
Varied == 0 .. K * K - 1
Single == {c * K + c : c \in 0 .. K - 1}
Double == {f \in Varied : (f \div K) <= (f % K)}
GoodFile == -1
LegacyFile == -2
FifoFile == -3
EmptyFile == -4
HiddenFile == -5
MCContents ==
    [f \in HiddenFile .. K * K - 1 |->
        CASE f = GoodFile -> File("regular", TRUE, Good)
          [] f = LegacyFile -> File("regular", TRUE,
                [Good EXCEPT !.imagesOffset = 0, !.imagesCount = 0, !.imagesOffsetOld = 3,
                             !.imagesCountOld = 2, !.mappingOffset = 1])
          [] f = FifoFile -> File("fifo", TRUE, [Good EXCEPT !.size = 0])
          [] f = EmptyFile -> File("regular", TRUE, [Good EXCEPT !.size = 0])
          [] f = HiddenFile -> File("regular", FALSE, Good)
          [] OTHER -> LET c == Changes[(f \div K) + 1]
                          d == Changes[(f % K) + 1]
                      IN  File("regular", TRUE, [Good EXCEPT ![c[1]] = c[2], ![d[1]] = d[2]])]
OtherFiles == HiddenFile .. GoodFile
MCExecutable == 20 .. 29
MCThreads == {1, 2}

P == <<"active">>
Side == <<"active", ".symbols">>
Task == [answers |-> TRUE, address |-> 1, readable |-> TRUE, version |-> 15, slide |-> 5]
NoTask == {[Task EXCEPT !.answers = FALSE], [Task EXCEPT !.address = 0],
           [Task EXCEPT !.readable = FALSE], [Task EXCEPT !.version = 11]}
Lengths == [active |-> 20, private |-> 20, cryptex |-> 83, system |-> 54]
World == [active |-> None, private |-> FALSE, directories |-> {}, length |-> Lengths,
          task |-> Task, files |-> <<>>, later |-> {}, calls |-> [t \in Threads |-> None],
          faults |-> FALSE]
Symbol1 == [op |-> "symbol", path |-> P, slide |-> 0, image |-> "a", name |-> "s"]
AtPath(p) == [Symbol1 EXCEPT !.op = "atPath", !.path = p, !.slide = 5]
First(c) == [t \in Threads |-> IF t = 1 THEN c ELSE None]

(***************************************************************************)
(* One thread, and every file as the only one or as the sidecar of a good  *)
(* one, of a legacy one or of one in which the paths differ.               *)
(***************************************************************************)
ContentWorlds ==
    {[World EXCEPT !.files = (P :> f), !.calls = First(AtPath(P))] :
        f \in OtherFiles \union Double}
    \union
    {[World EXCEPT !.files = (P :> f) @@ (Side :> g), !.calls = First(AtPath(P))] :
        f \in {GoodFile, LegacyFile}, g \in Single \union OtherFiles}
    \union
    {[World EXCEPT !.files = (P :> GoodFile), !.calls = First(c)] :
        c \in {[AtPath(P) EXCEPT !.image = i, !.name = n, !.slide = s] :
                 i \in {"a", "b", "c", None}, n \in {"s", "r", "x", None}, s \in {0, 43, 44, 63}}
              \union {AtPath(None)}}

(***************************************************************************)
(* One thread that locates the cache: what dyld says, the environment, the *)
(* directories and the files in every combination; base paths so long that *)
(* no suffix, or only a short one, or not even the base fits.              *)
(***************************************************************************)
Present(good, hidden) ==
    [p \in {<<b, Suffixes[k]>> : b \in Bases, k \in DOMAIN Suffixes} |->
        IF p[2] \in good THEN GoodFile ELSE IF p[2] \in hidden THEN HiddenFile ELSE None]
Only(bs, present) == [p \in DOMAIN present |-> IF p[1] \in bs THEN present[p] ELSE None]
Probed == {Only({"cryptex", "system"}, Present({"_arm64"}, {})),
           Only({"system"}, Present({"_arm64", "_armv7"}, {"_arm64e"})),
           Present({}, {}), Present({"_arm64e", "_arm64"}, {}), Present({"_arm64", "_armv7"}, {}),
           Present({"_armv7s", "_armv7"}, {"_arm64e"}), Present({"_armv7"}, {"_arm64"})}
LocationWorlds ==
    {[World EXCEPT !.active = a, !.private = b, !.directories = ds, !.length.private = n,
                   !.length.active = l, !.files = (P :> f) @@ fs, !.calls = First(c)] :
        a \in {None, "active"}, b \in BOOLEAN, ds \in SUBSET {"cryptex", "system"},
        n \in {20, 93, 94, 100}, l \in {20, 100}, f \in {None, GoodFile, HiddenFile, FifoFile},
        fs \in Probed, c \in {[Symbol1 EXCEPT !.op = "locate"]}}
    \union
    {[World EXCEPT !.active = "active", !.task = k, !.length.active = l,
                   !.files = (P :> GoodFile) @@ (Side :> LegacyFile), !.calls = First(c)] :
        k \in {Task} \union NoTask, l \in {20, 91, 92},
        c \in {Symbol1, [Symbol1 EXCEPT !.image = None], [Symbol1 EXCEPT !.name = None]}}

(***************************************************************************)
(* Two threads that look up symbols, in a process whose files come and go, *)
(* or whose system calls may fail.                                         *)
(***************************************************************************)
C == <<"cryptex", "_arm64">>
CSide == <<"cryptex", "_arm64", ".symbols">>
Sharing == [World EXCEPT !.directories = {"cryptex"}, !.calls = [t \in Threads |-> Symbol1]]
SharedWorlds ==
    {[Sharing EXCEPT !.files = (C :> GoodFile) @@ (CSide :> None), !.later = {LegacyFile}],
     [Sharing EXCEPT !.files = (C :> GoodFile) @@ (CSide :> LegacyFile), !.later = {None}],
     [Sharing EXCEPT !.files = (C :> GoodFile) @@ (CSide :> LegacyFile), !.faults = TRUE]}

MCWorlds == ContentWorlds \union LocationWorlds \union SharedWorlds
=============================================================================
