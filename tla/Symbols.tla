------------------------------ MODULE Symbols ------------------------------
(***************************************************************************)
(* RorkHookFindSymbol, RorkHookFindSymbolInFileImage and                   *)
(* RorkHookFindSymbolInFileImageWithSize (RorkHookSymbols.c): the search   *)
(* of the symbol table of an image that dyld has loaded, and of one whose  *)
(* file is mapped as it is.                                                *)
(*                                                                         *)
(* All that an image says about itself may be wrong.  What it holds is     *)
(* given by address: the nlist entry that would be read there and the      *)
(* string that starts there.  Addresses, sizes and 64-bit fields wrap at   *)
(* Limit.  That the load-command table validates is taken from MachOWalk.  *)
(***************************************************************************)
EXTENDS Integers, Sequences, FiniteSetsExt

CONSTANTS
    Limit,        \* UINTPTR_MAX + 1
    HeaderSize,   \* sizeof(RorkHookMachHeader)
    EntrySize,    \* sizeof(RorkHookNList)
    PtrAuth,      \* an arm64e process
    Names,
    NoName,       \* a NULL name
    Contents,     \* content -> what memory holds: [entries, strings]
    Calls         \* the calls to look at

Addresses == 0 .. Limit - 1
Half == Limit \div 2          \* INTPTR_MAX + 1

Symtabs == [cmd : {"symtab"}, fits : BOOLEAN, symoff : Addresses,
            nsyms : Addresses, stroff : Addresses, strsize : Addresses]
Segments == [cmd : {"segment"}, fits : BOOLEAN, linkedit : BOOLEAN,
             vmaddr : Addresses, vmsize : Addresses, fileoff : Addresses,
             filesize : Addresses]
Regions == [start : Addresses, size : Addresses, prot : SUBSET {"R", "W", "X"}]
Entries == [strx : Addresses, sect : BOOLEAN, value : Addresses]
Strings == [name : Names, length : Nat]

ASSUME SizesAssumption ==
    /\ Limit \in Nat \ {0} /\ HeaderSize \in Nat \ {0} /\ EntrySize \in Nat \ {0}
    /\ PtrAuth \in BOOLEAN /\ NoName \notin Names

ASSUME CallsAssumption ==
    \A c \in Calls :
        /\ c.op \in {"live", "file", "sized"} /\ c.size \in Addresses
        /\ c.name \in Names \union {NoName}
        /\ c.image.header \in Addresses
        /\ c.image.valid \in BOOLEAN /\ c.image.tableSize \in Nat
        /\ c.image.commands \in Seq(Symtabs \union Segments)
        /\ c.image.regions \subseteq Regions
        /\ \A r, g \in c.image.regions :       \* no two regions share an address
              r # g => r.start + r.size <= g.start \/ g.start + g.size <= r.start
        /\ c.image.content \in DOMAIN Contents

ASSUME ContentsAssumption ==
    \A m \in DOMAIN Contents : /\ Contents[m].entries \in [Addresses -> Entries]
                               /\ Contents[m].strings \in [Addresses -> Strings]

VARIABLES
    call,      \* the call: which function, with which arguments, on which image
    pc,
    table,     \* the tables that were found: [symbols, strings, nsyms, strsize]
    index,     \* the loop variable of RorkHookFindSymbolEntry
    value,     \* n_value of the entry that was found
    result,    \* the pointer that is returned
    reads      \* history: the <<address, length>> read from the tables

vars == <<call, pc, table, index, value, result, reads>>

image == call.image
commands == image.commands
header == image.header
EntryAt(a) == Contents[image.content].entries[a]
StringAt(a) == Contents[image.content].strings[a]

-----------------------------------------------------------------------------
(* Memory (RorkHookInternal.c).                                            *)

RegionEnd(r) == (r.start + r.size) % Limit

\* RorkHookQueryRegion: the region of a, if it grants the right.
RegionsWith(a, right) ==
    {r \in image.regions : a # 0 /\ r.start <= a /\ a < RegionEnd(r) /\ right \in r.prot}

ReadableMemoryLength(a) ==
    IF RegionsWith(a, "R") = {} THEN 0
    ELSE RegionEnd(CHOOSE r \in RegionsWith(a, "R") : TRUE) - a

MemoryIsReadable(a, n) == n # 0 /\ ReadableMemoryLength(a) >= n

Null == [addr |-> 0, signed |-> FALSE]
SignPointerIfExecutable(a) ==
    [addr |-> a, signed |-> PtrAuth /\ RegionsWith(a, "X") # {}]

-----------------------------------------------------------------------------
(* What the load commands say.                                             *)

\* The table is walked at all when it validates in n bytes.
ForEachLoadCommand(n) == header # 0 /\ image.valid /\ image.tableSize <= n

IsSegment(k) == commands[k].cmd = "segment" /\ commands[k].fits

\* RorkHookFindSymtab: of several commands the last is kept.
SymtabCommands   == {k \in DOMAIN commands : commands[k].cmd = "symtab" /\ commands[k].fits}
LinkeditCommands == {k \in DOMAIN commands : IsSegment(k) /\ commands[k].linkedit}
symtab   == commands[Max(SymtabCommands)]
linkedit == commands[Max(LinkeditCommands)]

\* RorkHookImageSlide: the first segment that maps the header decides.
HeaderSegments == {k \in DOMAIN commands : /\ IsSegment(k) /\ commands[k].fileoff = 0
                                           /\ commands[k].filesize # 0}
slide == header - commands[Min(HeaderSegments)].vmaddr
SlideResolved == HeaderSegments # {} /\ -Half <= slide /\ slide < Half

symbolBytes == symtab.nsyms * EntrySize
SymbolTableSize == symbolBytes < Limit

\* Mutant: looks at the start of the range only.
Mut_RangeIsValid(offset, length, total) == offset <= total

RangeIsValid(offset, length, total) == offset <= total /\ length <= total - offset

\* Mutant: a table may not end where the segment ends.
Mut_FileRangeInSegment(offset, length, s) ==
    /\ offset >= s.fileoff
    /\ offset - s.fileoff <= s.filesize
    /\ length < s.filesize - (offset - s.fileoff)

FileRangeInSegment(offset, length, s) ==
    /\ offset >= s.fileoff
    /\ offset - s.fileoff <= s.filesize
    /\ length <= s.filesize - (offset - s.fileoff)

Plus(a, n) == (a + n) % Limit

\* Mutant: a slide downwards is not checked.
Mut_ApplySlide(a, by) == IF by < 0 THEN TRUE ELSE a <= Limit - 1 - by

\* RorkHookApplySlide succeeds; its result is then Plus(a, by).
ApplySlide(a, by) == IF by < 0 THEN a >= -by ELSE a <= Limit - 1 - by

-----------------------------------------------------------------------------
Init ==
    /\ call \in Calls
    /\ pc = "call"
    /\ table = [symbols |-> 0, strings |-> 0, nsyms |-> 0, strsize |-> 0]
    /\ index = 0 /\ value = 0
    /\ result = Null
    /\ reads = {}

Return(from, pointer) ==
    /\ pc = from /\ pc' = "returned"
    /\ result' = pointer
    /\ UNCHANGED <<call, table, index, value, reads>>

\* RorkHookFindSymbolEntry is called with the tables at these addresses.
Search(symbols, strings) ==
    /\ pc = "call" /\ pc' = "search"
    /\ table' = [symbols |-> symbols, strings |-> strings,
                 nsyms |-> symtab.nsyms, strsize |-> symtab.strsize]
    /\ UNCHANGED <<call, index, value, result, reads>>

\* What RorkHookFindSymbol asks of the image before it reads its tables.
linkeditAddress == Plus(linkedit.vmaddr, slide)
symbolRelativeOffset == symtab.symoff - linkedit.fileoff
stringRelativeOffset == symtab.stroff - linkedit.fileoff
LiveTablesFit ==
    /\ header # 0 /\ call.name # NoName
    /\ ForEachLoadCommand(ReadableMemoryLength(header))
    /\ SymtabCommands # {} /\ LinkeditCommands # {} /\ SymbolTableSize
    /\ SlideResolved /\ ApplySlide(linkedit.vmaddr, slide)
    /\ FileRangeInSegment(symtab.symoff, symbolBytes, linkedit)
    /\ FileRangeInSegment(symtab.stroff, symtab.strsize, linkedit)
    /\ linkeditAddress <= Limit - 1 - symbolRelativeOffset
    /\ linkeditAddress <= Limit - 1 - stringRelativeOffset
    /\ MemoryIsReadable(Plus(linkeditAddress, symbolRelativeOffset), symbolBytes)
    /\ MemoryIsReadable(Plus(linkeditAddress, stringRelativeOffset), symtab.strsize)

FindSymbol ==
    /\ call.op = "live"
    /\ \/ /\ LiveTablesFit
          /\ Search(Plus(linkeditAddress, symbolRelativeOffset),
                    Plus(linkeditAddress, stringRelativeOffset))
       \/ ~LiveTablesFit /\ Return("call", Null)

\* Without a size, the readable rest of the header's region is taken for it.
mappedSize == IF call.op = "sized" THEN call.size ELSE ReadableMemoryLength(header)
FileTablesFit ==
    /\ header # 0 /\ call.name # NoName
    /\ mappedSize >= HeaderSize /\ MemoryIsReadable(header, mappedSize)
    /\ ForEachLoadCommand(mappedSize)
    /\ SymtabCommands # {} /\ SymbolTableSize
    /\ symbolBytes # 0 /\ RangeIsValid(symtab.symoff, symbolBytes, mappedSize)
    /\ symtab.strsize # 0 /\ RangeIsValid(symtab.stroff, symtab.strsize, mappedSize)

FindSymbolInFileImage ==
    /\ call.op \in {"file", "sized"}
    /\ \/ FileTablesFit /\ Search(Plus(header, symtab.symoff), Plus(header, symtab.stroff))
       \/ ~FileTablesFit /\ Return("call", Null)

-----------------------------------------------------------------------------
(* RorkHookFindSymbolEntry.                                                *)

EntryAddress == Plus(table.symbols, index * EntrySize)
entry == EntryAt(EntryAddress)
candidate == Plus(table.strings, entry.strx)
remaining == table.strsize - entry.strx

\* The entry's name is looked at.
Eligible == entry.strx # 0 /\ entry.strx < table.strsize /\ entry.sect

\* memchr finds the end of the name inside of the string table, and it is the
\* wanted name.
Wanted ==
    /\ Eligible
    /\ StringAt(candidate).length < remaining
    /\ StringAt(candidate).name = call.name

\* Mutant: the loop goes on to the entry behind the last.
Mut_MoreEntries == index <= table.nsyms

MoreEntries == index < table.nsyms

SearchEntry ==
    /\ pc = "search" /\ MoreEntries
    /\ reads' = reads \union {<<EntryAddress, EntrySize>>} \union
          (IF Eligible
           THEN {<<candidate, Min({StringAt(candidate).length + 1, remaining})>>}
           ELSE {})
    /\ \/ ~Wanted /\ index' = index + 1 /\ UNCHANGED <<pc, value>>
       \/ Wanted /\ pc' = "translate" /\ value' = entry.value /\ UNCHANGED index
    /\ UNCHANGED <<call, table, result>>

EndSearch ==
    /\ ~MoreEntries
    /\ Return("search", Null)

-----------------------------------------------------------------------------
(* From the value of the entry to an address.                              *)

TranslateLive ==
    /\ call.op = "live"
    /\ Return("translate", IF ApplySlide(value, slide)
                           THEN SignPointerIfExecutable(Plus(value, slide)) ELSE Null)

\* RorkHookFindFileAddressLoadCommand: the segment has file content for the value.
FileBacked(s) ==
    /\ value >= s.vmaddr
    /\ value - s.vmaddr < s.vmsize /\ value - s.vmaddr < s.filesize
    /\ value - s.vmaddr <= Limit - 1 - s.fileoff

Owners == {k \in DOMAIN commands : IsSegment(k) /\ FileBacked(commands[k])}
fileOffset == commands[Min(Owners)].fileoff + (value - commands[Min(Owners)].vmaddr)

TranslateFile ==
    /\ call.op \in {"file", "sized"}
    /\ Return("translate", IF Owners # {} /\ RangeIsValid(fileOffset, 1, mappedSize)
                           THEN SignPointerIfExecutable(Plus(header, fileOffset)) ELSE Null)

Next ==
    \/ FindSymbol \/ FindSymbolInFileImage
    \/ SearchEntry \/ EndSearch
    \/ TranslateLive \/ TranslateFile

Spec == Init /\ [][Next]_vars

-----------------------------------------------------------------------------
(* Properties.                                                             *)

\* Type correctness; the search stays within the count of LC_SYMTAB.
TypeOK ==
    /\ pc \in {"call", "search", "translate", "returned"}
    /\ table \in [symbols : Addresses, strings : Addresses, nsyms : Addresses,
                  strsize : Addresses]
    /\ index \in 0 .. table.nsyms
    /\ value \in Addresses
    /\ result \in [addr : Addresses, signed : BOOLEAN]

(***************************************************************************)
(* Whatever LC_SYMTAB and the entries say, the search reads only readable  *)
(* memory, one region at a time, and of a mapped file only the mapped      *)
(* bytes ("every table read" of RorkHookFindSymbolEntry is validated).     *)
(***************************************************************************)
ReadsStayInside ==
    \A r \in reads :
        /\ \E g \in image.regions : /\ "R" \in g.prot /\ g.start <= r[1]
                                    /\ r[1] + r[2] <= g.start + g.size
        /\ call.op = "live" \/ (header <= r[1] /\ r[1] + r[2] <= header + mappedSize)

(***************************************************************************)
(* The meaning of a symbol table, in unbounded integers: where the byte at *)
(* a file offset is in memory, which entries have the wanted name, and     *)
(* where what they stand for is.                                           *)
(***************************************************************************)
Place(offset) == IF call.op = "live"
                 THEN linkedit.vmaddr + slide + (offset - linkedit.fileoff)
                 ELSE header + offset
HasName(k) ==
    LET a == Place(symtab.symoff + k * EntrySize)
    IN  /\ a \in Addresses /\ EntryAt(a).sect
        /\ LET x == EntryAt(a).strx
               b == Place(symtab.stroff + x)
           IN  /\ x \in 1 .. symtab.strsize - 1 /\ b \in Addresses
               /\ StringAt(b).name = call.name
               /\ x + StringAt(b).length < symtab.strsize
IsFirst(k) == /\ k \in 0 .. symtab.nsyms - 1 /\ HasName(k)
              /\ \A j \in 0 .. k - 1 : ~HasName(j)
ValueOf(k) == EntryAt(Place(symtab.symoff + k * EntrySize)).value
Holds(s, v) == v \in s.vmaddr .. s.vmaddr + Min({s.vmsize, s.filesize}) - 1
StandsFor(v, a) ==
    IF call.op = "live"
    THEN a = v + slide
    ELSE /\ a \in header .. header + mappedSize - 1
         /\ \E k \in DOMAIN commands :
               /\ IsSegment(k) /\ Holds(commands[k], v)
               /\ a = header + commands[k].fileoff + (v - commands[k].vmaddr)

\* A pointer that a lookup returns is the address that the first entry of the
\* wanted name stands for: no overflow or slide makes it anything else.
FoundIsRight ==
    pc = "returned" /\ result # Null =>
        \E k \in 0 .. symtab.nsyms - 1 : IsFirst(k) /\ StandsFor(ValueOf(k), result.addr)

(***************************************************************************)
(* An image as a linker makes it and dyld or mmap maps it: every command   *)
(* occurs once, the tables are where they are said to be, and nothing is   *)
(* mapped at address 0.                                                    *)
(***************************************************************************)
Readable(a, n) ==
    \E g \in image.regions : /\ "R" \in g.prot /\ g.start # 0 /\ g.start + g.size < Limit
                             /\ g.start <= a /\ a + n <= g.start + g.size
WellMade ==
    /\ header # 0 /\ image.valid /\ Readable(header, image.tableSize)
    /\ image.tableSize >= HeaderSize
    /\ \E k \in DOMAIN commands : SymtabCommands = {k}
    /\ symtab.nsyms # 0 /\ symtab.strsize # 0
    /\ IF call.op = "live"
       THEN /\ \E k \in DOMAIN commands : LinkeditCommands = {k}
            /\ \E k \in DOMAIN commands : HeaderSegments = {k}
            /\ slide \in -Half .. Half - 1
            /\ linkedit.vmaddr + slide \in Addresses
            /\ Readable(linkedit.vmaddr + slide, linkedit.filesize)
            /\ linkedit.fileoff <= Min({symtab.symoff, symtab.stroff})
            /\ Max({symtab.symoff + symbolBytes, symtab.stroff + symtab.strsize})
                  <= linkedit.fileoff + linkedit.filesize
       ELSE /\ Readable(header, mappedSize)
            /\ image.tableSize <= mappedSize
            /\ symtab.symoff + symbolBytes <= mappedSize
            /\ symtab.stroff + symtab.strsize <= mappedSize
            /\ \A v \in Addresses, j, k \in DOMAIN commands :
                  (IsSegment(j) /\ IsSegment(k) /\ Holds(commands[j], v)
                      /\ Holds(commands[k], v)) => j = k

\* In an image that is as it should be, a name that is there is found, down to a
\* table that ends on the last byte of its segment or file.
FindsWhatIsThere ==
    pc = "returned" /\ call.name # NoName /\ WellMade =>
        \A k \in 0 .. symtab.nsyms - 1 :
            IsFirst(k) /\ (\E a \in Addresses \ {0} : StandsFor(ValueOf(k), a)) => result # Null
=============================================================================
