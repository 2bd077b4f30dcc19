---------------------------- MODULE CacheSymbols ----------------------------
(***************************************************************************)
(* RorkHookFindSharedCacheSymbolInData (RorkHookSharedCache.c) as a        *)
(* function of the bytes it is given: the search for a local symbol of an  *)
(* image in a dyld cache file and the file that holds its local symbols.   *)
(*                                                                         *)
(* All that a file says may be wrong.  A file is what would be read from   *)
(* it: its header fields and, by file offset, the records and strings that *)
(* start there (RorkHookDyldCache.h); bytes that are not described are 0.  *)
(***************************************************************************)
EXTENDS Integers, FiniteSetsExt

CONSTANTS
    Limit,          \* UINT64_MAX + 1, which is also SIZE_MAX + 1
    HeaderSize,     \* sizeof(RorkHookDyldCacheHeader)
    UUIDOffset,     \* offsetof(RorkHookDyldCacheHeader, symbolFileUUID)
    ImageInfoSize, InfoSize, Entry32Size, Entry64Size, NListSize,
    PtrAuth,        \* an arm64e process
    Executable      \* the executable addresses

ASSUME LayoutAssumption ==
    /\ Limit \in Nat \ {0} /\ HeaderSize \in Nat \ {0} /\ UUIDOffset \in Nat
    /\ {ImageInfoSize, InfoSize, Entry32Size, Entry64Size, NListSize} \subseteq Nat \ {0}
    /\ PtrAuth \in BOOLEAN /\ Executable \subseteq 1 .. Limit - 1

-----------------------------------------------------------------------------
(* The bytes of a file.                                                    *)

NoImage  == [pathFileOffset |-> 0]
NoInfo   == [nlistOffset |-> 0, nlistCount |-> 0, stringsOffset |-> 0,
             stringsSize |-> 0, entriesOffset |-> 0, entriesCount |-> 0]
NoEntry  == [nlistStartIndex |-> 0, nlistCount |-> 0]
NoSymbol == [strx |-> 0, sect |-> FALSE, value |-> 0]
NoString == [name |-> "", length |-> 0]

\* The fields of RorkHookDyldCacheHeader that the lookup reads; the others only
\* take up space.
IsHeader(f) ==
    /\ f.magic \in BOOLEAN
    /\ {f.mappingOffset, f.imagesOffsetOld, f.imagesCountOld, f.imagesOffset,
        f.imagesCount, f.localSymbolsOffset, f.localSymbolsSize} \subseteq 0 .. Limit - 1

\* Every field of a record is an unsigned integer.
IsFile(f) ==
    /\ IsHeader(f) /\ f.size \in 0 .. Limit - 1
    /\ \A o \in DOMAIN f.images : f.images[o].pathFileOffset \in Nat
    /\ \A o \in DOMAIN f.strings : f.strings[o].length \in Nat
    /\ \A o \in DOMAIN f.infos :
          {f.infos[o].nlistOffset, f.infos[o].nlistCount, f.infos[o].stringsOffset,
           f.infos[o].stringsSize, f.infos[o].entriesOffset, f.infos[o].entriesCount} \subseteq Nat
    /\ \A entries \in {f.entries64, f.entries32} : \A o \in DOMAIN entries :
          {entries[o].nlistStartIndex, entries[o].nlistCount} \subseteq Nat
    /\ \A o \in DOMAIN f.nlists : {f.nlists[o].strx, f.nlists[o].value} \subseteq Nat

At(records, offset, zero) ==
    IF offset \in DOMAIN records THEN records[offset] ELSE zero

\* RorkHookDataView: a range of a file.
Whole(f) == [base |-> 0, size |-> f.size]

\* Mutant: the end of the range is not looked at.
Mut_DataAt(view, offset, length) == offset <= view.size

\* RorkHookDataAt does not return NULL.
DataAt(view, offset, length) == offset <= view.size /\ length <= view.size - offset

\* RorkHookIndexedOffset and RorkHookReadRecord both succeed.
ReadsIndexed(view, base, index, stride) ==
    /\ index * stride < Limit /\ base + index * stride < Limit
    /\ DataAt(view, base + index * stride, stride)

\* RorkHookStringEquals: the terminator is looked for in the rest of the view.
StringEquals(strings, view, offset, expected) ==
    /\ offset < view.size
    /\ At(strings, view.base + offset, NoString).length < view.size - offset
    /\ At(strings, view.base + offset, NoString).name = expected

-----------------------------------------------------------------------------
(* The lookup q = [main, symbols, slide, image, name].                     *)

HeadersRead(q) == \A f \in {q.main, q.symbols} : DataAt(Whole(f), 0, HeaderSize) /\ f.magic

\* The image table of the main file, in its modern or in its legacy place.
HasModernTable(q) == q.main.imagesOffset # 0 /\ q.main.imagesCount # 0
imagesOffset(q) == IF HasModernTable(q) THEN q.main.imagesOffset ELSE q.main.imagesOffsetOld
imagesCount(q)  == IF HasModernTable(q) THEN q.main.imagesCount ELSE q.main.imagesCountOld

ImageTableFits(q) ==
    /\ imagesOffset(q) # 0 /\ imagesCount(q) # 0
    /\ imagesCount(q) * ImageInfoSize < Limit
    /\ DataAt(Whole(q.main), imagesOffset(q), imagesCount(q) * ImageInfoSize)

PathOffset(q, k) ==
    At(q.main.images, imagesOffset(q) + k * ImageInfoSize, NoImage).pathFileOffset
IsImage(q, k) == StringEquals(q.main.strings, Whole(q.main), PathOffset(q, k), q.image)
ImageMatches(q) == {k \in 0 .. imagesCount(q) - 1 : IsImage(q, k)}

\* Mutant: the last image of that path, as a loop without break finds.
Mut_FirstOf(S) == {k \in S : \A j \in S : k >= j}

\* Where a loop that stops at the first match stops.
FirstOf(S) == {k \in S : \A j \in S : k <= j}

\* The loop gets to image k.
ReachesImage(q, k) ==
    \A j \in 0 .. k : ReadsIndexed(Whole(q.main), imagesOffset(q), j, ImageInfoSize)

\* A size of 0 stands for the rest of the file.
localSize(q) == IF q.symbols.localSymbolsSize = 0
                THEN q.symbols.size - q.symbols.localSymbolsOffset
                ELSE q.symbols.localSymbolsSize
LocalFits(q) ==
    /\ q.symbols.localSymbolsOffset # 0
    /\ q.symbols.localSymbolsOffset <= q.symbols.size
    /\ localSize(q) <= q.symbols.size - q.symbols.localSymbolsOffset
localView(q) == [base |-> q.symbols.localSymbolsOffset, size |-> localSize(q)]

symbolsInfo(q) == At(q.symbols.infos, localView(q).base, NoInfo)
InfoRead(q) == DataAt(localView(q), 0, InfoSize)

\* The mapping table of the main file tells how large its header is, and that
\* which entries it uses.
uses64BitEntry(q) == q.main.mappingOffset >= UUIDOffset
entrySize(q) == IF uses64BitEntry(q) THEN Entry64Size ELSE Entry32Size
EntryRead(q, k) ==
    /\ k < symbolsInfo(q).entriesCount
    /\ ReadsIndexed(localView(q), symbolsInfo(q).entriesOffset, k, entrySize(q))
entry(q, k) ==
    At(IF uses64BitEntry(q) THEN q.symbols.entries64 ELSE q.symbols.entries32,
       localView(q).base + symbolsInfo(q).entriesOffset + k * entrySize(q), NoEntry)

RangeFits(q, e) == e.nlistStartIndex + e.nlistCount <= symbolsInfo(q).nlistCount

TablesFit(q) ==
    /\ symbolsInfo(q).nlistCount * NListSize < Limit
    /\ DataAt(localView(q), symbolsInfo(q).nlistOffset, symbolsInfo(q).nlistCount * NListSize)
    /\ DataAt(localView(q), symbolsInfo(q).stringsOffset, symbolsInfo(q).stringsSize)
stringsView(q) == [base |-> localView(q).base + symbolsInfo(q).stringsOffset,
                   size |-> symbolsInfo(q).stringsSize]

symbolOffset(q, j) == localView(q).base + symbolsInfo(q).nlistOffset + j * NListSize
Symbol(q, j) == At(q.symbols.nlists, symbolOffset(q, j), NoSymbol)
NameIsRead(q, j) == /\ ReadsIndexed(localView(q), symbolsInfo(q).nlistOffset, j, NListSize)
                    /\ Symbol(q, j).strx # 0 /\ Symbol(q, j).strx < stringsView(q).size
                    /\ Symbol(q, j).sect
IsSymbol(q, j) == /\ NameIsRead(q, j)
                  /\ StringEquals(q.symbols.strings, stringsView(q), Symbol(q, j).strx, q.name)

Indices(e) == e.nlistStartIndex .. e.nlistStartIndex + e.nlistCount - 1
SymbolMatches(q, e) == {j \in Indices(e) : IsSymbol(q, j)}

\* The search for symbols of image k begins.
SearchesSymbols(q, k) ==
    /\ ReachesImage(q, k) /\ LocalFits(q) /\ InfoRead(q) /\ EntryRead(q, k)
    /\ RangeFits(q, entry(q, k)) /\ TablesFit(q)
SearchesImages(q) == HeadersRead(q) /\ ImageTableFits(q)

Null == [addr |-> 0, signed |-> FALSE]
SignPointerIfExecutable(a) == [addr |-> a, signed |-> PtrAuth /\ a \in Executable]

\* Mutant: the sum is left to wrap.
Mut_Slid(q, value) == SignPointerIfExecutable((q.slide + value) % Limit)

Slid(q, value) == IF value > Limit - 1 - q.slide THEN Null
                  ELSE SignPointerIfExecutable(q.slide + value)

\* The image and the symbol that the two loops find, if any.
FoundImage(q) == IF SearchesImages(q) THEN FirstOf(ImageMatches(q)) ELSE {}
FoundSymbol(q) == UNION {FirstOf(SymbolMatches(q, e)) :
    e \in {entry(q, k) : k \in {k \in FoundImage(q) : SearchesSymbols(q, k)}}}
Pointers(q) == {Slid(q, v) : v \in {Symbol(q, j).value : j \in FoundSymbol(q)}}

FindSharedCacheSymbolInData(q) ==
    IF Pointers(q) = {} THEN Null ELSE CHOOSE p \in Pointers(q) : TRUE

-----------------------------------------------------------------------------
(* The ranges <<offset, length>> of either file that the lookup reads.     *)

\* memchr stops at the terminator or at the end of the view.
StringRead(strings, view, offset) ==
    <<view.base + offset,
      Min({At(strings, view.base + offset, NoString).length + 1, view.size - offset})>>

\* The turns of a loop up to the first match.
Turns(all, matches) == {k \in all : \A j \in matches : k <= j}

MainReads(q) ==
    LET turns == Turns(0 .. imagesCount(q) - 1, ImageMatches(q))
    IN  {<<0, n>> : n \in {n \in {HeaderSize} : DataAt(Whole(q.main), 0, n)}} \union
        IF ~SearchesImages(q) THEN {}
        ELSE {<<imagesOffset(q) + k * ImageInfoSize, ImageInfoSize>> : k \in turns} \union
             {StringRead(q.main.strings, Whole(q.main), PathOffset(q, k)) :
                 k \in {j \in turns : PathOffset(q, j) < q.main.size}}

\* The reads of names, and all reads of local symbols, for image k.
NameReads(q, k) ==
    LET turns == Turns(Indices(entry(q, k)), SymbolMatches(q, entry(q, k)))
    IN  IF SearchesSymbols(q, k)
        THEN {StringRead(q.symbols.strings, stringsView(q), Symbol(q, j).strx) :
                 j \in {i \in turns : NameIsRead(q, i)}}
        ELSE {}
LocalReads(q, k) ==
    LET turns == Turns(Indices(entry(q, k)), SymbolMatches(q, entry(q, k)))
    IN  IF ~(LocalFits(q) /\ InfoRead(q)) THEN {}
        ELSE {<<localView(q).base, InfoSize>>} \union
             {<<localView(q).base + symbolsInfo(q).entriesOffset + i * entrySize(q), entrySize(q)>> :
                 i \in {i \in {k} : EntryRead(q, i)}} \union
             {<<symbolOffset(q, j), NListSize>> : j \in {i \in turns : SearchesSymbols(q, k)}}
             \union NameReads(q, k)
=============================================================================
