--------------------------- MODULE SymbolsProofs ---------------------------
(***************************************************************************)
(* Proofs about Symbols, for any image, any memory and any width.          *)
(*                                                                         *)
(* The reads and the result are computed modulo Limit; the properties are  *)
(* stated in unbounded integers.  The invariant says that, once the checks *)
(* of RorkHookFindSymbol or of the file lookups have passed, the tables    *)
(* are where the image says in unbounded integers, and which entries the   *)
(* search has left behind.                                                 *)
(***************************************************************************)
EXTENDS Symbols, WellFoundedInduction, TLAPS

\* The checks that come before the search.
TablesFit == IF call.op = "live" THEN LiveTablesFit ELSE FileTablesFit

\* The n bytes from a on are in one readable region and, of a mapped file, mapped.
Inside(a, n) ==
    /\ \E g \in image.regions : /\ "R" \in g.prot /\ g.start <= a
                                /\ a + n <= g.start + g.size
    /\ call.op = "live" \/ (header <= a /\ a + n <= header + mappedSize)

\* What the value that was found is translated to.
Pointer ==
    IF call.op = "live"
    THEN IF ApplySlide(value, slide) THEN SignPointerIfExecutable(Plus(value, slide)) ELSE Null
    ELSE IF Owners # {} /\ RangeIsValid(fileOffset, 1, mappedSize)
         THEN SignPointerIfExecutable(Plus(header, fileOffset)) ELSE Null

CallOK == call \in Calls /\ (pc = "call" => index = 0)

\* The search is in the tables of the image, and no entry before index has the name.
SearchOK ==
    pc \in {"search", "translate"} =>
        /\ TablesFit
        /\ table.symbols = Place(symtab.symoff) /\ table.strings = Place(symtab.stroff)
        /\ table.nsyms = symtab.nsyms /\ table.strsize = symtab.strsize
        /\ \A j \in 0 .. index - 1 : ~HasName(j)

TranslateOK ==
    pc = "translate" => index < table.nsyms /\ HasName(index) /\ value = ValueOf(index)

\* Why the lookup returned what it did.
ReturnedOK ==
    pc = "returned" =>
        \/ result = Null /\ ~TablesFit
        \/ result = Null /\ \A j \in 0 .. symtab.nsyms - 1 : ~HasName(j)
        \/ /\ TablesFit /\ result = Pointer
           /\ \E k \in 0 .. symtab.nsyms - 1 : IsFirst(k) /\ value = ValueOf(k)

IInv == CallOK /\ TypeOK /\ SearchOK /\ TranslateOK /\ ReturnedOK /\ ReadsStayInside

-----------------------------------------------------------------------------
(* Numbers, minima and maxima.                                             *)

LEMMA Mod == ASSUME NEW W \in Nat \ {0}, NEW a \in 0 .. W - 1 PROVE a % W = a
OBVIOUS

LEMMA ModType == ASSUME NEW W \in Nat \ {0}, NEW a \in Int PROVE a % W \in 0 .. W - 1
OBVIOUS

LEMMA ModNoMore == ASSUME NEW W \in Nat \ {0}, NEW a \in Nat PROVE a % W <= a
OBVIOUS

\* Entry k ends inside of a table of n entries.
LEMMA EntryInTable ==
    ASSUME NEW k \in Nat, NEW n \in Nat, k < n, NEW E \in Nat \ {0}
    PROVE  /\ k * E \in Nat /\ n * E \in Nat
           /\ k * E + E <= n * E
<1>1. k + 1 <= n
  OBVIOUS
<1>2. (k + 1) * E <= n * E
  BY <1>1
<1>3. (k + 1) * E = k * E + E
  OBVIOUS
<1> QED
  BY <1>2, <1>3

LEMMA NatMin ==
    ASSUME NEW T, T \subseteq Nat, T # {}
    PROVE  \E x \in T : \A y \in T : x <= y
<1>1. IsWellFoundedOn(OpToRel(<, Nat), Nat)
  BY NatLessThanWellFounded
<1>2. \A x, y \in Nat : x < y => <<x, y>> \in OpToRel(<, Nat)
  BY DEF OpToRel
<1>3. PICK x \in T : \A y \in T : ~(<<y, x>> \in OpToRel(<, Nat))
  BY <1>1, WFMin
<1>4. \A y \in T : ~(y < x)
  BY <1>2, <1>3
<1> QED
  BY <1>4

LEMMA MinIsLeast ==
    ASSUME NEW T, T \subseteq Nat, T # {}
    PROVE  Min(T) \in T /\ \A y \in T : Min(T) <= y
BY NatMin DEF Min

LEMMA MaxIsGreatest ==
    ASSUME NEW T, NEW n \in Nat, T \subseteq 0 .. n, T # {}
    PROVE  Max(T) \in T /\ \A y \in T : y <= Max(T)
<1> DEFINE U == {n - x : x \in T}
<1>1. \A x \in T : x \in Int /\ n - x \in Nat
  OBVIOUS
<1>2. U \subseteq Nat /\ U # {}
  BY <1>1
<1>3. PICK u \in U : \A v \in U : u <= v
  BY <1>2, NatMin
<1>4. PICK x \in T : u = n - x
  OBVIOUS
<1>5. ASSUME NEW y \in T PROVE x >= y
  <2>1. n - y \in U
    OBVIOUS
  <2>2. n - x <= n - y
    BY <1>3, <1>4, <2>1
  <2> QED
    BY <1>1, <2>2
<1>6. \E z \in T : \A y \in T : z >= y
  BY <1>5
<1>7. Max(T) \in T /\ \A y \in T : Max(T) >= y
  BY <1>6 DEF Max
<1> QED
  BY <1>1, <1>7

LEMMA MinOfTwo ==
    ASSUME NEW a \in Nat, NEW b \in Nat
    PROVE  Min({a, b}) = IF a <= b THEN a ELSE b
<1>1. Min({a, b}) \in {a, b} /\ \A y \in {a, b} : Min({a, b}) <= y
  BY MinIsLeast
<1> QED
  BY <1>1

LEMMA MaxOfTwo ==
    ASSUME NEW a \in Nat, NEW b \in Nat
    PROVE  Max({a, b}) = IF a >= b THEN a ELSE b
<1>1. PICK n : n = IF a >= b THEN a ELSE b
  OBVIOUS
<1>2. n \in Nat /\ {a, b} \subseteq 0 .. n /\ {a, b} # {}
  BY <1>1
<1>3. Max({a, b}) \in {a, b} /\ \A y \in {a, b} : y <= Max({a, b})
  BY <1>2, MaxIsGreatest
<1> QED
  BY <1>3

-----------------------------------------------------------------------------
(* The image.                                                              *)

LEMMA CallFacts ==
    ASSUME call \in Calls
    PROVE  /\ call.op \in {"live", "file", "sized"} /\ call.size \in Nat /\ call.size < Limit
           /\ call.name \in Names \union {NoName}
           /\ header \in Nat /\ header < Limit /\ image.tableSize \in Nat /\ image.valid \in BOOLEAN
           /\ commands \in Seq(Symtabs \union Segments)
           /\ image.regions \subseteq Regions
           /\ image.content \in DOMAIN Contents
           /\ Limit \in Nat \ {0} /\ EntrySize \in Nat \ {0} /\ HeaderSize \in Nat \ {0}
<1>1. /\ call.op \in {"live", "file", "sized"} /\ call.size \in Addresses
      /\ call.name \in Names \union {NoName} /\ image.header \in Addresses
      /\ image.tableSize \in Nat /\ image.valid \in BOOLEAN
      /\ commands \in Seq(Symtabs \union Segments)
      /\ image.regions \subseteq Regions /\ image.content \in DOMAIN Contents
  BY CallsAssumption DEF image, commands
<1> QED
  BY <1>1, SizesAssumption DEF Addresses, header

LEMMA CommandFacts ==
    ASSUME call \in Calls, NEW k \in DOMAIN commands
    PROVE  /\ DOMAIN commands = 1 .. Len(commands) /\ Len(commands) \in Nat
           /\ commands[k] \in Symtabs \/ commands[k] \in Segments
           /\ commands[k].cmd = "symtab" => commands[k] \in Symtabs
           /\ commands[k].cmd = "segment" => commands[k] \in Segments
<1>1. commands \in Seq(Symtabs \union Segments)
  BY CallFacts
<1>2. /\ DOMAIN commands = 1 .. Len(commands) /\ Len(commands) \in Nat
      /\ commands[k] \in Symtabs \union Segments
  BY <1>1
<1>3. \A c \in Symtabs : c.cmd = "symtab"
  BY DEF Symtabs
<1>4. \A c \in Segments : c.cmd = "segment"
  BY DEF Segments
<1>5. "symtab" # "segment"
  OBVIOUS
<1> QED
  BY <1>2, <1>3, <1>4, <1>5

LEMMA SymtabFacts ==
    ASSUME call \in Calls, SymtabCommands # {}
    PROVE  /\ symtab \in Symtabs
           /\ symtab.symoff \in Nat /\ symtab.nsyms \in Nat /\ symtab.stroff \in Nat
           /\ symtab.strsize \in Nat
           /\ symtab.symoff < Limit /\ symtab.nsyms < Limit /\ symtab.stroff < Limit
           /\ symtab.strsize < Limit /\ symbolBytes \in Nat
<1>1. PICK n \in Nat : SymtabCommands \subseteq 0 .. n
  <2>1. Len(commands) \in Nat /\ SymtabCommands \subseteq 1 .. Len(commands)
    BY CommandFacts DEF SymtabCommands
  <2>2. SymtabCommands \subseteq 0 .. Len(commands)
    BY <2>1
  <2> QED
    BY <2>1, <2>2
<1>2. Max(SymtabCommands) \in SymtabCommands
  BY <1>1, MaxIsGreatest
<1>3. symtab \in Symtabs
  BY <1>2, CommandFacts DEF SymtabCommands, symtab
<1>4. symtab.symoff \in Addresses /\ symtab.nsyms \in Addresses /\ symtab.stroff \in Addresses
      /\ symtab.strsize \in Addresses
  BY <1>3 DEF Symtabs
<1>5. \A a \in Addresses : a \in Nat /\ a < Limit
  BY SizesAssumption DEF Addresses
<1>6. symbolBytes \in Nat
  BY <1>4, <1>5, SizesAssumption DEF symbolBytes
<1> QED
  BY <1>3, <1>4, <1>5, <1>6

LEMMA SegmentFacts ==
    ASSUME NEW s \in Segments
    PROVE  /\ s.vmaddr \in Nat /\ s.vmsize \in Nat /\ s.fileoff \in Nat /\ s.filesize \in Nat
           /\ s.vmaddr < Limit /\ s.vmsize < Limit /\ s.fileoff < Limit /\ s.filesize < Limit
<1>1. s.vmaddr \in Addresses /\ s.vmsize \in Addresses /\ s.fileoff \in Addresses
      /\ s.filesize \in Addresses
  BY DEF Segments
<1> QED
  BY <1>1, SizesAssumption DEF Addresses

LEMMA LinkeditFacts ==
    ASSUME call \in Calls, LinkeditCommands # {} PROVE linkedit \in Segments
<1>1. PICK n \in Nat : LinkeditCommands \subseteq 0 .. n
  <2>1. Len(commands) \in Nat /\ LinkeditCommands \subseteq 1 .. Len(commands)
    BY CommandFacts DEF LinkeditCommands
  <2>2. LinkeditCommands \subseteq 0 .. Len(commands)
    BY <2>1
  <2> QED
    BY <2>1, <2>2
<1>2. Max(LinkeditCommands) \in LinkeditCommands
  BY <1>1, MaxIsGreatest
<1> QED
  BY <1>2, CommandFacts DEF LinkeditCommands, linkedit, IsSegment

LEMMA SlideFacts == ASSUME call \in Calls, HeaderSegments # {} PROVE slide \in Int
<1>1. HeaderSegments \subseteq Nat
  BY CommandFacts DEF HeaderSegments
<1>2. Min(HeaderSegments) \in HeaderSegments
  BY <1>1, MinIsLeast
<1>3. commands[Min(HeaderSegments)] \in Segments
  BY <1>2, CommandFacts DEF HeaderSegments, IsSegment
<1> QED
  BY <1>3, SegmentFacts, CallFacts DEF slide

-----------------------------------------------------------------------------
(* Readable memory.                                                        *)

LEMMA RegionFacts ==
    ASSUME call \in Calls, NEW g \in image.regions
    PROVE  /\ g.start \in Nat /\ g.size \in Nat
           /\ RegionEnd(g) \in Nat /\ RegionEnd(g) < Limit /\ RegionEnd(g) <= g.start + g.size
           /\ g.start + g.size < Limit => RegionEnd(g) = g.start + g.size
<1>1. Limit \in Nat \ {0} /\ g \in Regions
  BY CallFacts
<1>2. g.start \in Nat /\ g.size \in Nat
  BY <1>1 DEF Regions, Addresses
<1>3. PICK e \in Nat : e = g.start + g.size
  BY <1>2
<1>4. RegionEnd(g) = e % Limit
  BY <1>3 DEF RegionEnd
<1>5. e % Limit \in 0 .. Limit - 1
  BY <1>1, ModType
<1>6. e % Limit <= e
  BY <1>1, ModNoMore
<1>7. e < Limit => e % Limit = e
  BY <1>1, Mod
<1>8. RegionEnd(g) \in Nat /\ RegionEnd(g) < Limit /\ RegionEnd(g) <= e
  BY <1>1, <1>4, <1>5, <1>6
<1> QED
  BY <1>2, <1>3, <1>4, <1>7, <1>8

\* What a region that RorkHookReadableMemoryLength reports gives.
LEMMA ReadableFacts ==
    ASSUME call \in Calls, NEW a \in Nat
    PROVE  /\ ReadableMemoryLength(a) \in Nat
           /\ ReadableMemoryLength(a) # 0 =>
                 \E g \in image.regions : /\ "R" \in g.prot /\ g.start <= a
                                          /\ a + ReadableMemoryLength(a) = RegionEnd(g)
<1>1. CASE RegionsWith(a, "R") = {}
  BY <1>1 DEF ReadableMemoryLength
<1>2. CASE RegionsWith(a, "R") # {}
  <2>1. PICK g : g = CHOOSE r \in RegionsWith(a, "R") : TRUE
    OBVIOUS
  <2>2. g \in RegionsWith(a, "R")
    BY <1>2, <2>1
  <2>3. g \in image.regions /\ g.start <= a /\ a < RegionEnd(g) /\ "R" \in g.prot
    BY <2>2 DEF RegionsWith
  <2>4. ReadableMemoryLength(a) = RegionEnd(g) - a
    BY <1>2, <2>1 DEF ReadableMemoryLength
  <2>5. RegionEnd(g) \in Nat
    BY <2>3, RegionFacts
  <2>6. RegionEnd(g) - a \in Nat /\ a + (RegionEnd(g) - a) = RegionEnd(g)
    BY <2>3, <2>5
  <2> QED
    BY <2>3, <2>4, <2>6
<1> QED
  BY <1>1, <1>2

LEMMA MemoryIsReadableFacts ==
    ASSUME call \in Calls, NEW a \in Nat, NEW n \in Nat, MemoryIsReadable(a, n)
    PROVE  /\ n # 0 /\ a + n < Limit
           /\ \E g \in image.regions : /\ "R" \in g.prot /\ g.start <= a
                                       /\ a + n <= g.start + g.size
<1>1. n # 0 /\ ReadableMemoryLength(a) >= n
  BY DEF MemoryIsReadable
<1>2. ReadableMemoryLength(a) \in Nat
  BY ReadableFacts
<1>3. PICK g \in image.regions : /\ "R" \in g.prot /\ g.start <= a
                                 /\ a + ReadableMemoryLength(a) = RegionEnd(g)
  BY <1>1, <1>2, ReadableFacts
<1>4. RegionEnd(g) \in Nat /\ RegionEnd(g) < Limit /\ RegionEnd(g) <= g.start + g.size
      /\ g.start \in Nat /\ g.size \in Nat
  BY RegionFacts
<1>5. a + n <= RegionEnd(g)
  BY <1>1, <1>2, <1>3
<1>6. a + n < Limit /\ a + n <= g.start + g.size
  BY <1>4, <1>5, CallFacts
<1> QED
  BY <1>1, <1>3, <1>6

\* A part of what is inside is inside.
LEMMA PartIsInside ==
    ASSUME call \in Calls, NEW a \in Nat, NEW n \in Nat, Inside(a, n), mappedSize \in Nat,
           NEW b \in Nat, NEW m \in Nat, a <= b, b + m <= a + n
    PROVE  Inside(b, m)
<1>1. PICK g \in image.regions : /\ "R" \in g.prot /\ g.start <= a
                                 /\ a + n <= g.start + g.size
  BY DEF Inside
<1>2. g.start \in Nat /\ g.size \in Nat /\ header \in Nat
  BY RegionFacts, CallFacts
<1>3. g.start <= b /\ b + m <= g.start + g.size
  BY <1>1, <1>2
<1>4. (header <= a /\ a + n <= header + mappedSize) => (header <= b /\ b + m <= header + mappedSize)
  BY <1>2
<1> QED
  BY <1>1, <1>3, <1>4 DEF Inside

LEMMA MappedSizeType == ASSUME call \in Calls PROVE mappedSize \in Nat
BY CallFacts, ReadableFacts DEF mappedSize

-----------------------------------------------------------------------------
(* The checks before the search put the tables where the image says, and   *)
(* into readable memory.                                                   *)

TablesPlaced ==
    /\ SymtabCommands # {}
    /\ symbolBytes # 0 /\ symtab.strsize # 0
    /\ Place(symtab.symoff) \in Nat /\ Place(symtab.stroff) \in Nat
    /\ Inside(Place(symtab.symoff), symbolBytes)
    /\ Inside(Place(symtab.stroff), symtab.strsize)
    /\ Place(symtab.symoff) + symbolBytes < Limit
    /\ Place(symtab.stroff) + symtab.strsize < Limit

LEMMA PlusExact ==
    ASSUME NEW a \in Int, NEW n \in Int, a + n \in Nat, a + n < Limit
    PROVE  Plus(a, n) = a + n
<1>1. PICK b \in Nat : b = a + n
  OBVIOUS
<1>2. Limit \in Nat \ {0} /\ b \in 0 .. Limit - 1
  BY <1>1, SizesAssumption
<1>3. b % Limit = b
  BY <1>2, Mod
<1> QED
  BY <1>1, <1>3 DEF Plus

LEMMA PlusType ==
    ASSUME NEW a \in Int, NEW n \in Int
    PROVE  Plus(a, n) \in Addresses
<1>1. PICK b \in Int : b = a + n
  OBVIOUS
<1>2. b % Limit \in 0 .. Limit - 1
  BY SizesAssumption, ModType
<1> QED
  BY <1>1, <1>2 DEF Plus, Addresses

\* RorkHookApplySlide is exact where it succeeds.
LEMMA ApplySlideExact ==
    ASSUME NEW a \in Nat, a < Limit, NEW by \in Int, ApplySlide(a, by)
    PROVE  a + by \in Nat /\ a + by < Limit /\ Plus(a, by) = a + by
<1>1. Limit \in Nat \ {0}
  BY SizesAssumption
<1>2. a + by \in Nat /\ a + by < Limit
  BY <1>1 DEF ApplySlide
<1> QED
  BY <1>2, PlusExact

LEMMA FilePlaced ==
    ASSUME call \in Calls, call.op # "live", FileTablesFit
    PROVE  /\ TablesPlaced
           /\ Plus(header, symtab.symoff) = Place(symtab.symoff)
           /\ Plus(header, symtab.stroff) = Place(symtab.stroff)
<1>1. /\ mappedSize \in Nat /\ header \in Nat /\ Limit \in Nat
  BY MappedSizeType, CallFacts
<1>2. /\ MemoryIsReadable(header, mappedSize) /\ SymtabCommands # {}
      /\ symbolBytes # 0 /\ RangeIsValid(symtab.symoff, symbolBytes, mappedSize)
      /\ symtab.strsize # 0 /\ RangeIsValid(symtab.stroff, symtab.strsize, mappedSize)
  BY DEF FileTablesFit
<1>3. header + mappedSize < Limit
  BY <1>1, <1>2, MemoryIsReadableFacts
<1>4. Inside(header, mappedSize)
  BY <1>1, <1>2, MemoryIsReadableFacts DEF Inside
<1>5. /\ symtab.symoff \in Nat /\ symtab.stroff \in Nat /\ symtab.strsize \in Nat /\ symbolBytes \in Nat
  BY <1>2, SymtabFacts
<1>6. ASSUME NEW offset \in Nat, NEW n \in Nat, RangeIsValid(offset, n, mappedSize)
      PROVE  /\ Place(offset) = header + offset /\ Place(offset) \in Nat
             /\ Place(offset) + n < Limit /\ Inside(Place(offset), n)
             /\ Plus(header, offset) = Place(offset)
  <2>1. offset + n <= mappedSize
    BY <1>1, <1>6 DEF RangeIsValid
  <2>2. Place(offset) = header + offset
    BY DEF Place
  <2>3. /\ header + offset \in Nat /\ header <= header + offset
        /\ (header + offset) + n <= header + mappedSize
        /\ (header + offset) + n < Limit /\ header + offset < Limit
    BY <1>1, <1>3, <2>1
  <2>4. Inside(header + offset, n)
    BY <1>1, <1>4, <2>3, PartIsInside
  <2>5. Plus(header, offset) = header + offset
    BY <1>1, <2>3, PlusExact
  <2> QED
    BY <2>2, <2>3, <2>4, <2>5
<1> QED
  BY <1>2, <1>5, <1>6 DEF TablesPlaced

LEMMA LivePlaced ==
    ASSUME call \in Calls, call.op = "live", LiveTablesFit
    PROVE  /\ TablesPlaced
           /\ Plus(linkeditAddress, symbolRelativeOffset) = Place(symtab.symoff)
           /\ Plus(linkeditAddress, stringRelativeOffset) = Place(symtab.stroff)
           /\ HeaderSegments # {}
<1>1. /\ SymtabCommands # {} /\ LinkeditCommands # {} /\ HeaderSegments # {}
      /\ ApplySlide(linkedit.vmaddr, slide)
      /\ FileRangeInSegment(symtab.symoff, symbolBytes, linkedit)
      /\ FileRangeInSegment(symtab.stroff, symtab.strsize, linkedit)
      /\ linkeditAddress <= Limit - 1 - symbolRelativeOffset
      /\ linkeditAddress <= Limit - 1 - stringRelativeOffset
      /\ MemoryIsReadable(Plus(linkeditAddress, symbolRelativeOffset), symbolBytes)
      /\ MemoryIsReadable(Plus(linkeditAddress, stringRelativeOffset), symtab.strsize)
  BY DEF LiveTablesFit, SlideResolved
<1>2. /\ slide \in Int /\ linkedit.vmaddr \in Nat /\ linkedit.vmaddr < Limit /\ linkedit.fileoff \in Nat
      /\ linkedit.filesize \in Nat /\ Limit \in Nat
  BY <1>1, SlideFacts, LinkeditFacts, SegmentFacts, CallFacts
<1>3. /\ symtab.symoff \in Nat /\ symtab.stroff \in Nat /\ symtab.strsize \in Nat /\ symbolBytes \in Nat
  BY <1>1, SymtabFacts
<1>4. /\ linkeditAddress = linkedit.vmaddr + slide /\ linkeditAddress \in Nat
  BY <1>1, <1>2, ApplySlideExact DEF linkeditAddress
<1>5. ASSUME NEW offset \in Nat, NEW n \in Nat, FileRangeInSegment(offset, n, linkedit),
             linkeditAddress <= Limit - 1 - (offset - linkedit.fileoff),
             MemoryIsReadable(Plus(linkeditAddress, offset - linkedit.fileoff), n)
      PROVE  /\ n # 0 /\ Place(offset) \in Nat
             /\ Place(offset) + n < Limit /\ Inside(Place(offset), n)
             /\ Plus(linkeditAddress, offset - linkedit.fileoff) = Place(offset)
  <2>1. PICK d \in Nat : d = offset - linkedit.fileoff
    BY <1>2, <1>5 DEF FileRangeInSegment
  <2>2. Place(offset) = linkeditAddress + d
    BY <1>4, <2>1 DEF Place
  <2>3. linkeditAddress + d \in Nat /\ linkeditAddress + d < Limit
    BY <1>2, <1>4, <1>5, <2>1
  <2>4. Plus(linkeditAddress, d) = Place(offset) /\ Place(offset) \in Nat
    BY <1>4, <2>2, <2>3, PlusExact
  <2>5. MemoryIsReadable(Place(offset), n)
    BY <1>5, <2>1, <2>4
  <2>6. n # 0 /\ Place(offset) + n < Limit /\ Inside(Place(offset), n)
    BY <2>4, <2>5, MemoryIsReadableFacts DEF Inside
  <2> QED
    BY <2>1, <2>4, <2>6
<1>6. /\ symbolBytes # 0 /\ Place(symtab.symoff) \in Nat
      /\ Place(symtab.symoff) + symbolBytes < Limit /\ Inside(Place(symtab.symoff), symbolBytes)
      /\ Plus(linkeditAddress, symbolRelativeOffset) = Place(symtab.symoff)
  BY <1>1, <1>3, <1>5 DEF symbolRelativeOffset
<1>7. /\ symtab.strsize # 0 /\ Place(symtab.stroff) \in Nat
      /\ Place(symtab.stroff) + symtab.strsize < Limit /\ Inside(Place(symtab.stroff), symtab.strsize)
      /\ Plus(linkeditAddress, stringRelativeOffset) = Place(symtab.stroff)
  BY <1>1, <1>3, <1>5 DEF stringRelativeOffset
<1> QED
  BY <1>1, <1>6, <1>7 DEF TablesPlaced

LEMMA Placed == ASSUME call \in Calls, TablesFit PROVE TablesPlaced
BY FilePlaced, LivePlaced DEF TablesFit

-----------------------------------------------------------------------------
(* The search.                                                             *)

LEMMA PlaceMoves ==
    ASSUME call \in Calls, TablesFit, NEW o \in Nat, NEW d \in Nat
    PROVE  Place(o + d) = Place(o) + d
<1>1. CASE call.op = "live"
  <2>1. LinkeditCommands # {} /\ HeaderSegments # {}
    BY <1>1 DEF TablesFit, LiveTablesFit, SlideResolved
  <2>2. slide \in Int /\ linkedit.vmaddr \in Nat /\ linkedit.fileoff \in Nat
    BY <2>1, SlideFacts, LinkeditFacts, SegmentFacts
  <2> QED
    BY <1>1, <2>2 DEF Place
<1>2. CASE call.op # "live"
  BY <1>2, CallFacts DEF Place
<1> QED
  BY <1>1, <1>2

LEMMA ContentFacts ==
    ASSUME call \in Calls, NEW a \in Addresses
    PROVE  /\ EntryAt(a).strx \in Nat /\ EntryAt(a).sect \in BOOLEAN /\ EntryAt(a).value \in Addresses
           /\ StringAt(a).length \in Nat
<1>1. /\ Contents[image.content].entries \in [Addresses -> Entries]
      /\ Contents[image.content].strings \in [Addresses -> Strings]
  BY CallFacts, ContentsAssumption
<1>2. EntryAt(a) \in Entries /\ StringAt(a) \in Strings
  BY <1>1 DEF EntryAt, StringAt
<1>3. EntryAt(a).strx \in Addresses /\ EntryAt(a).sect \in BOOLEAN /\ EntryAt(a).value \in Addresses
  BY <1>2 DEF Entries
<1>4. StringAt(a).length \in Nat
  BY <1>2 DEF Strings
<1>5. Addresses \subseteq Nat
  BY SizesAssumption DEF Addresses
<1> QED
  BY <1>3, <1>4, <1>5

LEMMA Searching ==
    ASSUME CallOK, TypeOK, SearchOK, pc = "search", index < table.nsyms
    PROVE  /\ index \in Nat /\ symtab.nsyms \in Nat /\ index < symtab.nsyms
           /\ EntryAddress = Place(symtab.symoff + index * EntrySize) /\ EntryAddress \in Addresses
           /\ EntryAddress \in Nat /\ Inside(EntryAddress, EntrySize)
           /\ entry.strx \in Nat /\ entry.value \in Addresses
           /\ symtab.strsize \in Nat /\ table.strsize = symtab.strsize
           /\ entry.strx < symtab.strsize =>
                 /\ candidate = Place(symtab.stroff + entry.strx)
                 /\ candidate = Place(symtab.stroff) + entry.strx
                 /\ candidate \in Addresses /\ candidate \in Nat
<1>1. /\ call \in Calls /\ TablesFit
      /\ table.symbols = Place(symtab.symoff) /\ table.strings = Place(symtab.stroff)
      /\ table.nsyms = symtab.nsyms /\ table.strsize = symtab.strsize
  BY DEF CallOK, SearchOK
<1>2. TablesPlaced
  BY <1>1, Placed
<1>3. /\ symtab.symoff \in Nat /\ symtab.nsyms \in Nat /\ symtab.stroff \in Nat
      /\ symtab.strsize \in Nat /\ symbolBytes \in Nat
  BY <1>1, <1>2, SymtabFacts DEF TablesPlaced
<1>4. index \in Nat /\ index < symtab.nsyms /\ Limit \in Nat \ {0} /\ EntrySize \in Nat \ {0}
      /\ mappedSize \in Nat
  BY <1>1, <1>3, CallFacts, MappedSizeType DEF TypeOK
<1>5. PICK d : d = index * EntrySize
  OBVIOUS
<1>6. d \in Nat /\ d + EntrySize <= symbolBytes
  BY <1>3, <1>4, <1>5, EntryInTable DEF symbolBytes
<1>7. /\ Place(symtab.symoff) \in Nat /\ Place(symtab.stroff) \in Nat
      /\ Inside(Place(symtab.symoff), symbolBytes)
      /\ Place(symtab.symoff) + symbolBytes < Limit
      /\ Place(symtab.stroff) + symtab.strsize < Limit
  BY <1>2 DEF TablesPlaced
<1>8. PICK a \in Nat : a = Place(symtab.symoff)
  BY <1>7
<1>9. EntryAddress = a + d /\ a + d \in Nat /\ a + d < Limit /\ a + d \in Addresses
  <2>1. a + d \in Nat /\ a + d < Limit
    BY <1>3, <1>4, <1>6, <1>7, <1>8
  <2>2. EntryAddress = Plus(a, d)
    BY <1>1, <1>5, <1>8 DEF EntryAddress
  <2> QED
    BY <1>4, <1>6, <2>1, <2>2, PlusExact DEF Addresses
<1>10. Place(symtab.symoff + index * EntrySize) = a + d
  BY <1>1, <1>3, <1>5, <1>6, <1>8, PlaceMoves
<1>11. Inside(a + d, EntrySize)
  <2>1. a <= a + d /\ (a + d) + EntrySize <= a + symbolBytes
    BY <1>3, <1>4, <1>6
  <2> QED
    BY <1>1, <1>3, <1>4, <1>7, <1>8, <1>9, <2>1, PartIsInside
<1>12. entry.strx \in Nat /\ entry.value \in Addresses
  BY <1>1, <1>9, ContentFacts DEF entry
<1>13. ASSUME entry.strx < symtab.strsize
       PROVE  /\ candidate = Place(symtab.stroff + entry.strx)
              /\ candidate = Place(symtab.stroff) + entry.strx
              /\ candidate \in Addresses /\ candidate \in Nat
  <2>1. PICK b \in Nat : b = Place(symtab.stroff)
    BY <1>7
  <2>2. PICK x \in Nat : x = entry.strx
    BY <1>12
  <2>3. b + x \in Nat /\ b + x < Limit
    BY <1>3, <1>4, <1>7, <1>13, <2>1, <2>2
  <2>4. candidate = Plus(b, x)
    BY <1>1, <2>1, <2>2 DEF candidate
  <2>5. candidate = b + x
    BY <2>3, <2>4, PlusExact
  <2>6. Place(symtab.stroff + x) = b + x
    BY <1>1, <1>3, <2>1, PlaceMoves
  <2> QED
    BY <1>4, <2>1, <2>2, <2>3, <2>5, <2>6 DEF Addresses
<1> QED
  BY <1>1, <1>3, <1>4, <1>9, <1>10, <1>11, <1>12, <1>13

\* The search recognises exactly the entries that have the name.
LEMMA WantedIsNamed ==
    ASSUME CallOK, TypeOK, SearchOK, pc = "search", index < table.nsyms
    PROVE  /\ Wanted <=> HasName(index)
           /\ entry.value = ValueOf(index)
<1> DEFINE x == entry.strx
<1>1. call \in Calls
  BY DEF CallOK
<1>2. /\ EntryAddress = Place(symtab.symoff + index * EntrySize) /\ EntryAddress \in Addresses
      /\ x \in Nat
      /\ symtab.strsize \in Nat /\ table.strsize = symtab.strsize
      /\ x < symtab.strsize =>
            candidate = Place(symtab.stroff + x) /\ candidate \in Addresses
  BY Searching
<1>3. EntryAt(Place(symtab.symoff + index * EntrySize)) = entry
  BY <1>2 DEF entry
<1>4. entry.value = ValueOf(index)
  BY <1>3 DEF ValueOf
<1>5. HasName(index) <=>
         /\ entry.sect /\ x \in 1 .. symtab.strsize - 1
         /\ Place(symtab.stroff + x) \in Addresses
         /\ StringAt(Place(symtab.stroff + x)).name = call.name
         /\ x + StringAt(Place(symtab.stroff + x)).length < symtab.strsize
  BY <1>2, <1>3 DEF HasName
<1>6. Wanted <=>
         /\ x # 0 /\ x < symtab.strsize /\ entry.sect
         /\ StringAt(candidate).length < symtab.strsize - x
         /\ StringAt(candidate).name = call.name
  BY <1>2 DEF Wanted, Eligible, remaining
<1> HIDE DEF x
<1>7. x \in 1 .. symtab.strsize - 1 <=> (x # 0 /\ x < symtab.strsize)
  BY <1>2
<1>8. CASE x < symtab.strsize
  <2>1. PICK n \in Nat : n = StringAt(candidate).length
    BY <1>1, <1>2, <1>8, ContentFacts
  <2>2. x + n < symtab.strsize <=> n < symtab.strsize - x
    BY <1>2
  <2> QED
    BY <1>2, <1>4, <1>5, <1>6, <1>7, <1>8, <2>1, <2>2
<1>9. CASE ~(x < symtab.strsize)
  BY <1>4, <1>5, <1>6, <1>7, <1>9
<1> QED
  BY <1>8, <1>9

-----------------------------------------------------------------------------
(* Every step keeps the invariant.                                         *)

\* The image does not change, and what is said of it stays.
LEMMA KeptImage ==
    ASSUME call' = call
    PROVE  /\ image' = image /\ commands' = commands /\ header' = header
           /\ SymtabCommands' = SymtabCommands /\ LinkeditCommands' = LinkeditCommands
           /\ HeaderSegments' = HeaderSegments
           /\ symtab' = symtab /\ linkedit' = linkedit /\ slide' = slide
           /\ mappedSize' = mappedSize
<1>1. image' = image /\ commands' = commands /\ header' = header
  BY DEF image, commands, header
<1>2. /\ SymtabCommands' = SymtabCommands /\ LinkeditCommands' = LinkeditCommands
      /\ HeaderSegments' = HeaderSegments
  BY <1>1 DEF SymtabCommands, LinkeditCommands, HeaderSegments, IsSegment
<1>3. symtab' = symtab /\ linkedit' = linkedit /\ slide' = slide
  BY <1>1, <1>2 DEF symtab, linkedit, slide
<1>4. mappedSize' = mappedSize
  BY <1>1 DEF mappedSize, ReadableMemoryLength, RegionsWith
<1> QED
  BY <1>1, <1>2, <1>3, <1>4

LEMMA KeptRegions ==
    ASSUME call' = call, NEW a, NEW n
    PROVE  /\ ReadableMemoryLength(a)' = ReadableMemoryLength(a)
           /\ MemoryIsReadable(a, n)' <=> MemoryIsReadable(a, n)
           /\ Inside(a, n)' <=> Inside(a, n)
           /\ SignPointerIfExecutable(a)' = SignPointerIfExecutable(a)
BY KeptImage DEF ReadableMemoryLength, RegionsWith, MemoryIsReadable, Inside, SignPointerIfExecutable

LEMMA KeptTables ==
    ASSUME call' = call PROVE TablesFit' <=> TablesFit
<1>1. /\ symbolBytes' = symbolBytes /\ linkeditAddress' = linkeditAddress
      /\ symbolRelativeOffset' = symbolRelativeOffset
      /\ stringRelativeOffset' = stringRelativeOffset
      /\ SymbolTableSize' <=> SymbolTableSize
      /\ SlideResolved' <=> SlideResolved
  BY KeptImage DEF symbolBytes, linkeditAddress, symbolRelativeOffset, stringRelativeOffset,
                   SymbolTableSize, SlideResolved
<1>2. ForEachLoadCommand(ReadableMemoryLength(header))' <=>
         ForEachLoadCommand(ReadableMemoryLength(header))
  BY KeptImage, KeptRegions DEF ForEachLoadCommand
<1>3. ForEachLoadCommand(mappedSize)' <=> ForEachLoadCommand(mappedSize)
  BY KeptImage DEF ForEachLoadCommand
<1>4. LiveTablesFit' <=> LiveTablesFit
  BY <1>1, <1>2, KeptImage, KeptRegions DEF LiveTablesFit
<1>5. FileTablesFit' <=> FileTablesFit
  BY <1>1, <1>3, KeptImage, KeptRegions DEF FileTablesFit
<1> QED
  BY <1>4, <1>5 DEF TablesFit

LEMMA KeptNames ==
    ASSUME call' = call, NEW k
    PROVE  /\ Place(k)' = Place(k)
           /\ HasName(k)' <=> HasName(k)
           /\ IsFirst(k)' <=> IsFirst(k)
           /\ ValueOf(k)' = ValueOf(k)
<1>1. ASSUME NEW o PROVE Place(o)' = Place(o)
  BY KeptImage DEF Place
<1>2. ASSUME NEW j PROVE HasName(j)' <=> HasName(j)
  BY <1>1, KeptImage DEF HasName, EntryAt, StringAt
<1>3. IsFirst(k)' <=> IsFirst(k)
  BY <1>2, KeptImage DEF IsFirst
<1>4. ValueOf(k)' = ValueOf(k)
  BY <1>1, KeptImage DEF ValueOf, EntryAt
<1> QED
  BY <1>1, <1>2, <1>3, <1>4

LEMMA KeptPointer ==
    ASSUME call' = call, value' = value PROVE Pointer' = Pointer
<1>1. Owners' = Owners
  BY KeptImage DEF Owners, IsSegment, FileBacked
<1>2. fileOffset' = fileOffset
  BY <1>1, KeptImage DEF fileOffset
<1> QED
  BY <1>1, <1>2, KeptImage, KeptRegions DEF Pointer

LEMMA KeptReads ==
    ASSUME call' = call, reads' = reads, ReadsStayInside PROVE ReadsStayInside'
BY KeptImage DEF ReadsStayInside

LEMMA InitIInv == Init => IInv
<1> SUFFICES ASSUME Init PROVE IInv
  OBVIOUS
<1>1. 0 \in Addresses
  BY SizesAssumption DEF Addresses
<1>2. TypeOK
  BY <1>1 DEF Init, TypeOK, Null
<1>3. CallOK /\ SearchOK /\ TranslateOK /\ ReturnedOK /\ ReadsStayInside
  BY DEF Init, CallOK, SearchOK, TranslateOK, ReturnedOK, ReadsStayInside
<1> QED
  BY <1>2, <1>3 DEF IInv

LEMMA NullType == Null \in [addr : Addresses, signed : BOOLEAN]
<1>1. 0 \in Addresses
  BY SizesAssumption DEF Addresses
<1> QED
  BY <1>1 DEF Null

\* The checks have passed.
LEMMA StartSearchIInv ==
    ASSUME IInv, TablesFit, pc = "call", Search(Place(symtab.symoff), Place(symtab.stroff))
    PROVE  IInv'
<1>1. /\ pc' = "search" /\ UNCHANGED <<call, index, value, result, reads>>
      /\ table' = [symbols |-> Place(symtab.symoff), strings |-> Place(symtab.stroff),
                   nsyms |-> symtab.nsyms, strsize |-> symtab.strsize]
  BY DEF Search
<1>2. call \in Calls /\ index = 0 /\ TypeOK /\ ReadsStayInside
  BY DEF IInv, CallOK
<1>3. TablesPlaced
  BY <1>2, Placed
<1>4. /\ symtab.nsyms \in Nat /\ symtab.strsize \in Nat /\ symtab.nsyms < Limit
      /\ symtab.strsize < Limit /\ symbolBytes \in Nat /\ Limit \in Nat
  BY <1>2, <1>3, SymtabFacts, CallFacts DEF TablesPlaced
<1>5. Place(symtab.symoff) \in Addresses /\ Place(symtab.stroff) \in Addresses
  <2>1. /\ Place(symtab.symoff) \in Nat /\ Place(symtab.stroff) \in Nat
        /\ Place(symtab.symoff) + symbolBytes < Limit
        /\ Place(symtab.stroff) + symtab.strsize < Limit
    BY <1>3 DEF TablesPlaced
  <2> QED
    BY <1>4, <2>1 DEF Addresses
<1>6. TypeOK'
  <2>1. symtab.nsyms \in Addresses /\ symtab.strsize \in Addresses /\ 0 \in 0 .. symtab.nsyms
    BY <1>4 DEF Addresses
  <2>2. table' \in [symbols : Addresses, strings : Addresses, nsyms : Addresses, strsize : Addresses]
    BY <1>1, <1>5, <2>1
  <2> QED
    BY <1>1, <1>2, <2>1, <2>2 DEF TypeOK
<1>7. SearchOK'
  <2>1. TablesFit'
    BY <1>1, KeptTables
  <2>2. /\ table'.symbols = Place(symtab.symoff)' /\ table'.strings = Place(symtab.stroff)'
        /\ table'.nsyms = symtab'.nsyms /\ table'.strsize = symtab'.strsize
    BY <1>1, KeptImage, KeptNames
  <2>3. 0 .. index' - 1 = {}
    BY <1>1, <1>2
  <2> QED
    BY <2>1, <2>2, <2>3 DEF SearchOK
<1>8. CallOK' /\ TranslateOK' /\ ReturnedOK'
  BY <1>1, <1>2 DEF CallOK, TranslateOK, ReturnedOK
<1>9. ReadsStayInside'
  BY <1>1, <1>2, KeptReads
<1> QED
  BY <1>6, <1>7, <1>8, <1>9 DEF IInv

\* Whatever the reason for the return.
LEMMA ReturnIInv ==
    ASSUME IInv, NEW from, NEW p \in [addr : Addresses, signed : BOOLEAN], Return(from, p), ReturnedOK'
    PROVE  IInv'
<1>1. /\ pc' = "returned" /\ result' = p
      /\ UNCHANGED <<call, table, index, value, reads>>
  BY DEF Return
<1>2. TypeOK'
  BY <1>1 DEF IInv, TypeOK
<1>3. CallOK' /\ SearchOK' /\ TranslateOK'
  BY <1>1 DEF IInv, CallOK, SearchOK, TranslateOK
<1>4. ReadsStayInside'
  BY <1>1, KeptReads DEF IInv
<1> QED
  BY <1>2, <1>3, <1>4 DEF IInv

LEMMA RejectIInv ==
    ASSUME IInv, ~TablesFit, Return("call", Null) PROVE IInv'
<1>1. call' = call /\ result' = Null
  BY DEF Return
<1>2. Null' = Null
  BY DEF Null
<1>3. ReturnedOK'
  BY <1>1, <1>2, KeptTables DEF ReturnedOK
<1> QED
  BY <1>3, NullType, ReturnIInv

LEMMA FindSymbolIInv == ASSUME IInv, FindSymbol PROVE IInv'
<1>1. call.op = "live" /\ call \in Calls
  BY DEF IInv, CallOK, FindSymbol
<1>2. TablesFit <=> LiveTablesFit
  BY <1>1 DEF TablesFit
<1>3. CASE LiveTablesFit /\ Search(Plus(linkeditAddress, symbolRelativeOffset),
                                   Plus(linkeditAddress, stringRelativeOffset))
  <2>1. /\ Plus(linkeditAddress, symbolRelativeOffset) = Place(symtab.symoff)
        /\ Plus(linkeditAddress, stringRelativeOffset) = Place(symtab.stroff)
    BY <1>1, <1>3, LivePlaced
  <2>2. Search(Place(symtab.symoff), Place(symtab.stroff)) /\ pc = "call"
    BY <1>3, <2>1 DEF Search
  <2> QED
    BY <1>2, <1>3, <2>2, StartSearchIInv
<1>4. CASE ~LiveTablesFit /\ Return("call", Null)
  BY <1>2, <1>4, RejectIInv
<1> QED
  BY <1>3, <1>4 DEF FindSymbol

LEMMA FindSymbolInFileImageIInv == ASSUME IInv, FindSymbolInFileImage PROVE IInv'
<1>1. call.op # "live" /\ call \in Calls
  BY DEF IInv, CallOK, FindSymbolInFileImage
<1>2. TablesFit <=> FileTablesFit
  BY <1>1 DEF TablesFit
<1>3. CASE FileTablesFit /\ Search(Plus(header, symtab.symoff), Plus(header, symtab.stroff))
  <2>1. /\ Plus(header, symtab.symoff) = Place(symtab.symoff)
        /\ Plus(header, symtab.stroff) = Place(symtab.stroff)
    BY <1>1, <1>3, FilePlaced
  <2>2. Search(Place(symtab.symoff), Place(symtab.stroff)) /\ pc = "call"
    BY <1>3, <2>1 DEF Search
  <2> QED
    BY <1>2, <1>3, <2>2, StartSearchIInv
<1>4. CASE ~FileTablesFit /\ Return("call", Null)
  BY <1>2, <1>4, RejectIInv
<1> QED
  BY <1>3, <1>4 DEF FindSymbolInFileImage

LEMMA SearchEntryReads ==
    ASSUME IInv, SearchEntry PROVE ReadsStayInside'
<1>1. /\ pc = "search" /\ index < table.nsyms /\ call' = call
      /\ reads' = reads \union {<<EntryAddress, EntrySize>>} \union
            (IF Eligible
             THEN {<<candidate, Min({StringAt(candidate).length + 1, remaining})>>}
             ELSE {})
  BY DEF SearchEntry, MoreEntries
<1>2. CallOK /\ TypeOK /\ SearchOK /\ ReadsStayInside /\ call \in Calls
  BY DEF IInv, CallOK
<1>3. /\ Inside(EntryAddress, EntrySize) /\ entry.strx \in Nat
      /\ symtab.strsize \in Nat /\ table.strsize = symtab.strsize
      /\ entry.strx < symtab.strsize =>
            /\ candidate = Place(symtab.stroff) + entry.strx
            /\ candidate \in Addresses /\ candidate \in Nat
  BY <1>1, <1>2, Searching
<1>4. ASSUME Eligible
      PROVE  Inside(candidate, Min({StringAt(candidate).length + 1, remaining}))
  <2>1. entry.strx < symtab.strsize
    BY <1>3, <1>4 DEF Eligible
  <2>2. PICK n \in Nat : n = StringAt(candidate).length + 1
    BY <1>2, <1>3, <2>1, ContentFacts
  <2>3. remaining = symtab.strsize - entry.strx /\ remaining \in Nat
    BY <1>3, <2>1 DEF remaining
  <2>4. PICK m : m = Min({n, remaining})
    OBVIOUS
  <2>5. m \in Nat /\ m <= remaining
    BY <2>3, <2>4, MinOfTwo
  <2>6. TablesFit /\ TablesPlaced /\ mappedSize \in Nat
    BY <1>1, <1>2, Placed, MappedSizeType DEF SearchOK
  <2>7. Place(symtab.stroff) \in Nat /\ Inside(Place(symtab.stroff), symtab.strsize)
    BY <2>6 DEF TablesPlaced
  <2>8. Place(symtab.stroff) <= candidate /\ candidate + m <= Place(symtab.stroff) + symtab.strsize
    BY <1>3, <2>1, <2>3, <2>5, <2>7
  <2>9. Inside(candidate, m)
    BY <1>2, <1>3, <2>1, <2>5, <2>6, <2>7, <2>8, PartIsInside
  <2> QED
    BY <2>2, <2>4, <2>9
<1>5. ASSUME NEW r \in reads' PROVE /\ \E g \in image.regions :
                                          /\ "R" \in g.prot /\ g.start <= r[1]
                                          /\ r[1] + r[2] <= g.start + g.size
                                    /\ call.op = "live" \/ (header <= r[1] /\ r[1] + r[2] <= header + mappedSize)
  <2>1. CASE r \in reads
    BY <1>2, <2>1 DEF ReadsStayInside
  <2>2. CASE r = <<EntryAddress, EntrySize>>
    BY <1>3, <2>2 DEF Inside
  <2>3. CASE Eligible /\ r = <<candidate, Min({StringAt(candidate).length + 1, remaining})>>
    BY <1>4, <2>3 DEF Inside
  <2> QED
    BY <1>1, <2>1, <2>2, <2>3
<1> QED
  BY <1>1, <1>5, KeptImage DEF ReadsStayInside

LEMMA SearchEntryIInv == ASSUME IInv, SearchEntry PROVE IInv'
<1>1. /\ pc = "search" /\ index < table.nsyms /\ UNCHANGED <<call, table, result>>
  BY DEF SearchEntry, MoreEntries
<1>2. CallOK /\ TypeOK /\ SearchOK /\ call \in Calls
  BY DEF IInv, CallOK
<1>3. /\ Wanted <=> HasName(index)
      /\ entry.value = ValueOf(index) /\ entry.value \in Addresses
      /\ index \in Nat /\ symtab.nsyms \in Nat /\ table.nsyms = symtab.nsyms
  BY <1>1, <1>2, WantedIsNamed, Searching DEF SearchOK
<1>4. ReadsStayInside'
  BY SearchEntryReads
<1>5. /\ TablesFit'
      /\ table'.symbols = Place(symtab.symoff)' /\ table'.strings = Place(symtab.stroff)'
      /\ table'.nsyms = symtab'.nsyms /\ table'.strsize = symtab'.strsize
      /\ \A j \in 0 .. index - 1 : ~HasName(j)
  BY <1>1, <1>2, KeptTables, KeptImage, KeptNames DEF SearchOK
<1>6. CASE ~Wanted /\ index' = index + 1 /\ UNCHANGED <<pc, value>>
  <2>1. index' \in 0 .. table'.nsyms
    BY <1>1, <1>3, <1>6
  <2>2. TypeOK'
    BY <1>1, <1>2, <1>6, <2>1 DEF TypeOK
  <2>3. ASSUME NEW j \in 0 .. index' - 1 PROVE ~HasName(j)'
    <3>1. j \in 0 .. index - 1 \/ j = index
      BY <1>3, <1>6
    <3>2. ~HasName(j)
      BY <1>3, <1>5, <1>6, <3>1
    <3> QED
      BY <1>1, <3>2, KeptNames
  <2>4. SearchOK'
    BY <1>5, <2>3 DEF SearchOK
  <2>5. CallOK' /\ TranslateOK' /\ ReturnedOK'
    BY <1>1, <1>2, <1>6 DEF CallOK, TranslateOK, ReturnedOK
  <2> QED
    BY <1>4, <2>2, <2>4, <2>5 DEF IInv
<1>7. CASE Wanted /\ pc' = "translate" /\ value' = entry.value /\ UNCHANGED index
  <2>1. TypeOK'
    BY <1>1, <1>2, <1>3, <1>7 DEF TypeOK
  <2>2. SearchOK'
    BY <1>1, <1>5, <1>7, KeptNames DEF SearchOK
  <2>3. TranslateOK'
    <3>1. PICK k : k = index
      OBVIOUS
    <3>2. HasName(k)' /\ ValueOf(k)' = value'
      BY <1>1, <1>3, <1>7, <3>1, KeptNames
    <3> QED
      BY <1>1, <1>7, <3>1, <3>2 DEF TranslateOK
  <2>4. CallOK' /\ ReturnedOK'
    BY <1>1, <1>2, <1>7 DEF CallOK, ReturnedOK
  <2> QED
    BY <1>4, <2>1, <2>2, <2>3, <2>4 DEF IInv
<1> QED
  BY <1>6, <1>7 DEF SearchEntry

LEMMA EndSearchIInv == ASSUME IInv, EndSearch PROVE IInv'
<1>1. pc = "search" /\ ~(index < table.nsyms) /\ Return("search", Null) /\ call' = call
      /\ result' = Null
  BY DEF EndSearch, MoreEntries, Return
<1>2. TypeOK /\ SearchOK /\ call \in Calls
  BY DEF IInv, CallOK
<1>3. table.nsyms = symtab.nsyms /\ symtab.nsyms \in Nat
  BY <1>1, <1>2, Placed, SymtabFacts DEF SearchOK, TablesPlaced
<1>4. index = symtab.nsyms
  BY <1>1, <1>2, <1>3 DEF TypeOK
<1>5. \A j \in 0 .. symtab.nsyms - 1 : ~HasName(j)
  BY <1>1, <1>2, <1>4 DEF SearchOK
<1>6. \A j \in 0 .. symtab'.nsyms - 1 : ~HasName(j)'
  BY <1>1, <1>5, KeptImage, KeptNames
<1>7. ReturnedOK'
  BY <1>1, <1>6 DEF ReturnedOK, Null
<1> QED
  BY <1>1, <1>7, NullType, ReturnIInv

-----------------------------------------------------------------------------
(* The translation.                                                        *)

LEMMA Signed == ASSUME NEW a PROVE SignPointerIfExecutable(a).addr = a
BY DEF SignPointerIfExecutable

\* The segment that RorkHookFindFileAddress takes.
LEMMA OwnerFacts ==
    ASSUME call \in Calls, Owners # {}
    PROVE  /\ Min(Owners) \in Owners
           /\ commands[Min(Owners)] \in Segments /\ IsSegment(Min(Owners))
           /\ FileBacked(commands[Min(Owners)]) /\ Min(Owners) \in DOMAIN commands
<1>1. Owners \subseteq Nat
  BY CommandFacts DEF Owners
<1>2. Min(Owners) \in Owners
  BY <1>1, MinIsLeast
<1> QED
  BY <1>2, CommandFacts DEF Owners, IsSegment

LEMMA FileOffsetType ==
    ASSUME call \in Calls, Owners # {}, value \in Nat
    PROVE  fileOffset \in Nat
<1>1. PICK s \in Segments : s = commands[Min(Owners)] /\ FileBacked(s)
  BY OwnerFacts
<1>2. s.vmaddr \in Nat /\ s.fileoff \in Nat /\ value >= s.vmaddr
  BY <1>1, SegmentFacts DEF FileBacked
<1>3. fileOffset = s.fileoff + (value - s.vmaddr)
  BY <1>1 DEF fileOffset
<1> QED
  BY <1>2, <1>3

LEMMA PointerType ==
    ASSUME call \in Calls, TypeOK, TablesFit
    PROVE  Pointer \in [addr : Addresses, signed : BOOLEAN]
<1>1. value \in Nat /\ value < Limit /\ header \in Nat
  BY CallFacts DEF TypeOK, Addresses
<1>2. ASSUME NEW a \in Addresses
      PROVE  SignPointerIfExecutable(a) \in [addr : Addresses, signed : BOOLEAN]
  BY SizesAssumption DEF SignPointerIfExecutable
<1>3. CASE call.op = "live"
  <2>1. slide \in Int
    BY <1>3, LivePlaced, SlideFacts DEF TablesFit
  <2>2. Plus(value, slide) \in Addresses
    BY <1>1, <2>1, PlusType
  <2> QED
    BY <1>2, <1>3, <2>2, NullType DEF Pointer
<1>4. CASE call.op # "live"
  <2>1. ASSUME Owners # {} PROVE Plus(header, fileOffset) \in Addresses
    BY <1>1, <2>1, FileOffsetType, PlusType
  <2> QED
    BY <1>2, <1>4, <2>1, NullType DEF Pointer
<1> QED
  BY <1>3, <1>4

LEMMA TranslateIInv ==
    ASSUME IInv, Return("translate", Pointer) PROVE IInv'
<1>1. /\ pc = "translate" /\ pc' = "returned" /\ result' = Pointer
      /\ UNCHANGED <<call, value, index, table>>
  BY DEF Return
<1>2. /\ TypeOK /\ call \in Calls /\ TablesFit /\ table.nsyms = symtab.nsyms
      /\ \A j \in 0 .. index - 1 : ~HasName(j)
      /\ index < table.nsyms /\ HasName(index) /\ value = ValueOf(index)
  BY <1>1 DEF IInv, CallOK, SearchOK, TranslateOK
<1>3. PICK k : k = index
  OBVIOUS
<1>4. k \in 0 .. symtab.nsyms - 1 /\ IsFirst(k) /\ value = ValueOf(k)
  <2>1. symtab.nsyms \in Nat
    BY <1>2, Placed, SymtabFacts DEF TablesPlaced
  <2>2. k \in 0 .. symtab.nsyms - 1
    BY <1>2, <1>3, <2>1 DEF TypeOK
  <2> QED
    BY <1>2, <1>3, <2>2 DEF IsFirst
<1>5. ReturnedOK'
  <2>1. TablesFit' /\ Pointer' = Pointer
    BY <1>1, <1>2, KeptTables, KeptPointer
  <2>2. k \in 0 .. symtab'.nsyms - 1 /\ IsFirst(k)' /\ value' = ValueOf(k)'
    BY <1>1, <1>4, KeptImage, KeptNames
  <2> QED
    BY <1>1, <2>1, <2>2 DEF ReturnedOK
<1>6. Pointer \in [addr : Addresses, signed : BOOLEAN]
  BY <1>2, PointerType
<1>7. PICK p \in [addr : Addresses, signed : BOOLEAN] : p = Pointer
  BY <1>6
<1>8. Return("translate", p)
  BY <1>7 DEF Return
<1> QED
  BY <1>5, <1>8, ReturnIInv

LEMMA NextIInv == IInv /\ [Next]_vars => IInv'
<1> SUFFICES ASSUME IInv, [Next]_vars PROVE IInv'
  OBVIOUS
<1>1. ASSUME TranslateLive \/ TranslateFile PROVE Return("translate", Pointer)
  BY <1>1 DEF TranslateLive, TranslateFile, Pointer, Return
<1>2. CASE Next
  BY <1>1, <1>2, FindSymbolIInv, FindSymbolInFileImageIInv, SearchEntryIInv, EndSearchIInv,
     TranslateIInv DEF Next
<1>3. CASE UNCHANGED vars
  <2>1. UNCHANGED <<call, pc, table, index, value, result, reads>>
    BY <1>3 DEF vars
  <2>2. CallOK' /\ TypeOK'
    BY <2>1 DEF IInv, CallOK, TypeOK
  <2>3. SearchOK'
    BY <2>1, KeptImage, KeptTables, KeptNames DEF IInv, SearchOK
  <2>4. TranslateOK'
    <3>1. PICK k : k = index
      OBVIOUS
    <3>2. (HasName(k)' <=> HasName(k)) /\ ValueOf(k)' = ValueOf(k)
      BY <2>1, KeptNames
    <3> QED
      BY <2>1, <3>1, <3>2 DEF IInv, TranslateOK
  <2>5. ReturnedOK'
    BY <2>1, KeptImage, KeptTables, KeptNames, KeptPointer DEF IInv, ReturnedOK, Null
  <2>6. ReadsStayInside'
    BY <2>1, KeptReads DEF IInv
  <2> QED
    BY <2>2, <2>3, <2>4, <2>5, <2>6 DEF IInv
<1> QED
  BY <1>2, <1>3

LEMMA Invariant == Spec => []IInv
BY InitIInv, NextIInv, PTL DEF Spec

-----------------------------------------------------------------------------
(* What follows from the invariant.                                        *)

\* The segment has file content for v.
LEMMA HoldsFacts ==
    ASSUME NEW s \in Segments, NEW v \in Nat
    PROVE  Holds(s, v) <=> (v >= s.vmaddr /\ v - s.vmaddr < s.vmsize /\ v - s.vmaddr < s.filesize)
<1>1. s.vmaddr \in Nat /\ s.vmsize \in Nat /\ s.filesize \in Nat
  BY SegmentFacts
<1>2. PICK m : m = Min({s.vmsize, s.filesize})
  OBVIOUS
<1>3. m = IF s.vmsize <= s.filesize THEN s.vmsize ELSE s.filesize
  BY <1>1, <1>2, MinOfTwo
<1>4. m \in Nat
  BY <1>1, <1>3
<1>5. Holds(s, v) <=> (v >= s.vmaddr /\ v - s.vmaddr < m)
  BY <1>1, <1>2, <1>4 DEF Holds
<1>6. v - s.vmaddr < m <=> (v - s.vmaddr < s.vmsize /\ v - s.vmaddr < s.filesize)
  BY <1>1, <1>3
<1> QED
  BY <1>5, <1>6

\* What Pointer is when it is not Null.
LEMMA PointerIsRight ==
    ASSUME call \in Calls, TypeOK, TablesFit, Pointer # Null
    PROVE  StandsFor(value, Pointer.addr)
<1>1. value \in Nat /\ value < Limit /\ header \in Nat /\ mappedSize \in Nat
  BY CallFacts, MappedSizeType DEF TypeOK, Addresses
<1>2. CASE call.op = "live"
  <2>1. slide \in Int
    BY <1>2, LivePlaced, SlideFacts DEF TablesFit
  <2>2. ApplySlide(value, slide) /\ Pointer = SignPointerIfExecutable(Plus(value, slide))
    BY <1>2 DEF Pointer
  <2>3. Pointer.addr = value + slide
    BY <1>1, <2>1, <2>2, ApplySlideExact, Signed
  <2> QED
    BY <1>2, <2>3 DEF StandsFor
<1>3. CASE call.op # "live"
  <2>1. /\ Owners # {} /\ RangeIsValid(fileOffset, 1, mappedSize)
        /\ Pointer = SignPointerIfExecutable(Plus(header, fileOffset))
    BY <1>3 DEF Pointer
  <2>2. fileOffset \in Nat /\ fileOffset + 1 <= mappedSize
    BY <1>1, <2>1, FileOffsetType DEF RangeIsValid
  <2>3. header + mappedSize < Limit
    BY <1>1, <1>3, MemoryIsReadableFacts DEF TablesFit, FileTablesFit
  <2>4. header + fileOffset \in Nat /\ header + fileOffset < Limit
    BY <1>1, <2>2, <2>3, SizesAssumption
  <2>5. Pointer.addr = header + fileOffset
    BY <1>1, <2>1, <2>2, <2>4, PlusExact, Signed
  <2>6. PICK m \in DOMAIN commands : /\ m = Min(Owners) /\ IsSegment(m)
                                     /\ commands[m] \in Segments /\ FileBacked(commands[m])
    BY <2>1, OwnerFacts
  <2>7. Holds(commands[m], value)
    BY <1>1, <2>6, HoldsFacts DEF FileBacked
  <2>8. commands[m].fileoff \in Nat /\ commands[m].vmaddr \in Nat
    BY <2>6, SegmentFacts
  <2>9. header + fileOffset = header + commands[m].fileoff + (value - commands[m].vmaddr)
    BY <1>1, <2>6, <2>8 DEF fileOffset
  <2>10. header + fileOffset \in header .. header + mappedSize - 1
    BY <1>1, <2>2
  <2> QED
    BY <1>3, <2>5, <2>6, <2>7, <2>9, <2>10 DEF StandsFor
<1> QED
  BY <1>2, <1>3

LEMMA IInvFoundIsRight == IInv => FoundIsRight
<1> SUFFICES ASSUME IInv, pc = "returned", result # Null
             PROVE  \E k \in 0 .. symtab.nsyms - 1 : IsFirst(k) /\ StandsFor(ValueOf(k), result.addr)
  BY DEF FoundIsRight
<1>1. /\ TablesFit /\ result = Pointer
      /\ \E k \in 0 .. symtab.nsyms - 1 : IsFirst(k) /\ value = ValueOf(k)
  BY DEF IInv, ReturnedOK
<1>2. StandsFor(value, result.addr)
  BY <1>1, PointerIsRight DEF IInv, CallOK
<1> QED
  BY <1>1, <1>2

\* RorkHookQueryRegion reports the one region that an address is in.
LEMMA ReadableIsReadable ==
    ASSUME call \in Calls, NEW a \in Nat, NEW n \in Nat \ {0}, Readable(a, n)
    PROVE  MemoryIsReadable(a, n) /\ ReadableMemoryLength(a) >= n /\ a + n < Limit
<1>1. PICK g \in image.regions : /\ "R" \in g.prot /\ g.start # 0 /\ g.start + g.size < Limit
                                 /\ g.start <= a /\ a + n <= g.start + g.size
  BY DEF Readable
<1>2. g.start \in Nat /\ g.size \in Nat /\ RegionEnd(g) = g.start + g.size /\ Limit \in Nat
  BY <1>1, RegionFacts, CallFacts
<1>3. a # 0 /\ a < RegionEnd(g) /\ a + n < Limit
  BY <1>1, <1>2
<1>4. g \in RegionsWith(a, "R")
  BY <1>1, <1>3 DEF RegionsWith
<1>5. ASSUME NEW r \in RegionsWith(a, "R") PROVE r = g
  <2>1. r \in image.regions /\ r.start <= a /\ a < RegionEnd(r)
    BY DEF RegionsWith
  <2>2. r.start \in Nat /\ r.size \in Nat /\ RegionEnd(r) \in Nat /\ RegionEnd(r) <= r.start + r.size
    BY <2>1, RegionFacts
  <2>3. ~(r.start + r.size <= g.start \/ g.start + g.size <= r.start)
    BY <1>1, <1>2, <1>3, <2>1, <2>2
  <2>4. r # g => r.start + r.size <= g.start \/ g.start + g.size <= r.start
    BY <2>1, CallsAssumption DEF image
  <2> QED
    BY <2>3, <2>4
<1>6. (CHOOSE r \in RegionsWith(a, "R") : TRUE) = g
  BY <1>4, <1>5
<1>7. ReadableMemoryLength(a) = RegionEnd(g) - a
  BY <1>4, <1>6 DEF ReadableMemoryLength
<1>8. ReadableMemoryLength(a) >= n
  BY <1>1, <1>2, <1>7
<1> QED
  BY <1>3, <1>8 DEF MemoryIsReadable

LEMMA BytesNotZero ==
    ASSUME NEW n \in Nat \ {0}, NEW E \in Nat \ {0} PROVE n * E # 0
OBVIOUS

LEMMA PartIsReadable ==
    ASSUME call \in Calls, NEW a \in Nat, NEW n \in Nat, Readable(a, n),
           NEW b \in Nat, NEW m \in Nat, a <= b, b + m <= a + n
    PROVE  Readable(b, m)
<1>1. PICK g \in image.regions : /\ "R" \in g.prot /\ g.start # 0 /\ g.start + g.size < Limit
                                 /\ g.start <= a /\ a + n <= g.start + g.size
  BY DEF Readable
<1>2. g.start \in Nat /\ g.size \in Nat
  BY RegionFacts
<1>3. g.start <= b /\ b + m <= g.start + g.size
  BY <1>1, <1>2
<1> QED
  BY <1>1, <1>3 DEF Readable

\* The checks pass for an image that is as it should be.
LEMMA WellMadeFits ==
    ASSUME call \in Calls, call.name # NoName, WellMade
    PROVE  TablesFit
<1>1. /\ header # 0 /\ image.valid /\ Readable(header, image.tableSize)
      /\ image.tableSize >= HeaderSize /\ SymtabCommands # {}
      /\ symtab.nsyms # 0 /\ symtab.strsize # 0
  BY DEF WellMade
<1>2. /\ header \in Nat /\ image.tableSize \in Nat /\ HeaderSize \in Nat \ {0}
      /\ EntrySize \in Nat \ {0} /\ Limit \in Nat \ {0}
      /\ symtab.symoff \in Nat /\ symtab.nsyms \in Nat /\ symtab.stroff \in Nat
      /\ symtab.strsize \in Nat /\ symbolBytes \in Nat
      /\ mappedSize \in Nat
  BY <1>1, CallFacts, SymtabFacts, MappedSizeType
<1>3. symbolBytes # 0
  BY <1>1, <1>2, BytesNotZero DEF symbolBytes
<1>4. CASE call.op = "live"
  <2> DEFINE a == linkedit.vmaddr + slide
             fs == linkedit.filesize
             fo == linkedit.fileoff
  <2>1. /\ LinkeditCommands # {} /\ HeaderSegments # {}
        /\ slide \in -Half .. Half - 1 /\ a \in Addresses /\ Readable(a, fs)
        /\ fo <= Min({symtab.symoff, symtab.stroff})
        /\ Max({symtab.symoff + symbolBytes, symtab.stroff + symtab.strsize}) <= fo + fs
    BY <1>4 DEF WellMade
  <2>2. /\ linkedit.vmaddr \in Nat /\ fs \in Nat /\ fo \in Nat /\ fs < Limit
        /\ slide \in Int /\ Half \in Int
    BY <2>1, LinkeditFacts, SegmentFacts, SlideFacts, SizesAssumption DEF Half
  <2>3. a \in Nat /\ a < Limit
    BY <1>2, <2>1 DEF Addresses
  <2>4. fo <= symtab.symoff /\ fo <= symtab.stroff
    BY <1>2, <2>1, <2>2, MinOfTwo
  <2>5. symtab.symoff + symbolBytes <= fo + fs /\ symtab.stroff + symtab.strsize <= fo + fs
    <3>1. symtab.symoff + symbolBytes \in Nat /\ symtab.stroff + symtab.strsize \in Nat
      BY <1>2
    <3> QED
      BY <2>1, <2>2, <3>1, MaxOfTwo
  <2>6. SymbolTableSize
    BY <1>2, <2>2, <2>4, <2>5 DEF SymbolTableSize
  <2>7. SlideResolved
    BY <2>1, <2>2 DEF SlideResolved
  <2>8. ApplySlide(linkedit.vmaddr, slide) /\ linkeditAddress = a
    <3>1. ApplySlide(linkedit.vmaddr, slide)
      BY <1>2, <2>2, <2>3 DEF ApplySlide
    <3> QED
      BY <2>2, <2>3, <3>1, PlusExact DEF linkeditAddress
  <2>9. ForEachLoadCommand(ReadableMemoryLength(header))
    <3>1. image.tableSize \in Nat \ {0} /\ ReadableMemoryLength(header) \in Nat
      BY <1>1, <1>2, ReadableFacts
    <3>2. ReadableMemoryLength(header) >= image.tableSize
      BY <1>1, <1>2, <3>1, ReadableIsReadable
    <3> QED
      BY <1>1, <1>2, <3>1, <3>2 DEF ForEachLoadCommand
  <2> HIDE DEF a, fs, fo
  <2>10. ASSUME NEW o \in Nat, NEW n \in Nat \ {0}, fo <= o, o + n <= fo + fs
         PROVE  /\ FileRangeInSegment(o, n, linkedit)
                /\ a <= Limit - 1 - (o - fo)
                /\ MemoryIsReadable(Plus(a, o - fo), n)
    <3>1. PICK d \in Nat : d = o - fo
      BY <2>2, <2>10
    <3>2. d + n <= fs
      BY <2>2, <2>10, <3>1
    <3>3. FileRangeInSegment(o, n, linkedit)
      BY <2>2, <2>10, <3>1, <3>2 DEF FileRangeInSegment, fo, fs
    <3>4. Readable(a + d, n)
      <4>1. a + d \in Nat /\ a <= a + d /\ (a + d) + n <= a + fs
        BY <2>2, <2>3, <3>2
      <4> QED
        BY <2>1, <2>2, <2>3, <4>1, PartIsReadable
    <3>5. MemoryIsReadable(a + d, n) /\ (a + d) + n < Limit
      BY <2>3, <3>4, ReadableIsReadable
    <3>6. a + d < Limit /\ a + d \in Nat /\ a <= Limit - 1 - d
      BY <1>2, <2>3, <3>5
    <3>7. Plus(a, d) = a + d
      BY <2>3, <3>6, PlusExact
    <3> QED
      BY <3>1, <3>3, <3>5, <3>6, <3>7
  <2>11. /\ FileRangeInSegment(symtab.symoff, symbolBytes, linkedit)
         /\ a <= Limit - 1 - symbolRelativeOffset
         /\ MemoryIsReadable(Plus(a, symbolRelativeOffset), symbolBytes)
    BY <1>2, <1>3, <2>4, <2>5, <2>10 DEF symbolRelativeOffset, fo
  <2>12. /\ FileRangeInSegment(symtab.stroff, symtab.strsize, linkedit)
         /\ a <= Limit - 1 - stringRelativeOffset
         /\ MemoryIsReadable(Plus(a, stringRelativeOffset), symtab.strsize)
    BY <1>1, <1>2, <2>4, <2>5, <2>10 DEF stringRelativeOffset, fo
  <2> QED
    BY <1>1, <1>4, <2>1, <2>6, <2>7, <2>8, <2>9, <2>11, <2>12 DEF TablesFit, LiveTablesFit
<1>5. CASE call.op # "live"
  <2>1. /\ Readable(header, mappedSize) /\ image.tableSize <= mappedSize
        /\ symtab.symoff + symbolBytes <= mappedSize
        /\ symtab.stroff + symtab.strsize <= mappedSize
    BY <1>5 DEF WellMade
  <2>2. mappedSize >= HeaderSize /\ mappedSize \in Nat \ {0}
    BY <1>1, <1>2, <2>1
  <2>3. MemoryIsReadable(header, mappedSize) /\ header + mappedSize < Limit
    BY <1>2, <2>1, <2>2, ReadableIsReadable
  <2>4. /\ SymbolTableSize /\ RangeIsValid(symtab.symoff, symbolBytes, mappedSize)
        /\ RangeIsValid(symtab.stroff, symtab.strsize, mappedSize)
    BY <1>2, <2>1, <2>3 DEF SymbolTableSize, RangeIsValid
  <2>5. ForEachLoadCommand(mappedSize)
    BY <1>1, <2>1 DEF ForEachLoadCommand
  <2> QED
    BY <1>1, <1>3, <1>5, <2>2, <2>3, <2>4, <2>5 DEF TablesFit, FileTablesFit
<1> QED
  BY <1>4, <1>5

\* A value that stands for an address is translated to it.
LEMMA PointerIsThere ==
    ASSUME call \in Calls, TypeOK, TablesFit, WellMade,
           NEW a \in Addresses, StandsFor(value, a)
    PROVE  Pointer.addr = a
<1>1. /\ value \in Nat /\ value < Limit /\ header \in Nat /\ mappedSize \in Nat /\ a \in Nat
      /\ a < Limit /\ value \in Addresses /\ Limit \in Nat
  <2>1. value \in Addresses
    BY DEF TypeOK
  <2>2. Limit \in Nat /\ \A x \in Addresses : x \in Nat /\ x < Limit
    BY SizesAssumption DEF Addresses
  <2>3. header \in Nat /\ mappedSize \in Nat
    BY CallFacts, MappedSizeType
  <2> QED
    BY <2>1, <2>2, <2>3
<1>2. CASE call.op = "live"
  <2>1. slide \in Int /\ a = value + slide
    BY <1>2, LivePlaced, SlideFacts DEF TablesFit, StandsFor
  <2>2. ApplySlide(value, slide)
    BY <1>1, <2>1 DEF ApplySlide
  <2>3. Pointer = SignPointerIfExecutable(Plus(value, slide))
    BY <1>2, <2>2 DEF Pointer
  <2> QED
    BY <1>1, <2>1, <2>2, <2>3, ApplySlideExact, Signed
<1>3. CASE call.op # "live"
  <2>1. PICK k \in DOMAIN commands :
           /\ IsSegment(k) /\ Holds(commands[k], value)
           /\ a = header + commands[k].fileoff + (value - commands[k].vmaddr)
    BY <1>3 DEF StandsFor
  <2>2. a \in header .. header + mappedSize - 1
    BY <1>3 DEF StandsFor
  <2>3. commands[k] \in Segments
    BY <2>1, CommandFacts DEF IsSegment
  <2>4. commands[k].fileoff \in Nat /\ commands[k].vmaddr \in Nat
    BY <2>3, SegmentFacts
  <2>5. /\ value >= commands[k].vmaddr /\ value - commands[k].vmaddr < commands[k].vmsize
        /\ value - commands[k].vmaddr < commands[k].filesize
    BY <1>1, <2>1, <2>3, HoldsFacts
  <2>6. FileBacked(commands[k])
    <3>1. value - commands[k].vmaddr <= Limit - 1 - commands[k].fileoff
      BY <1>1, <2>1, <2>4
    <3> QED
      BY <2>5, <3>1 DEF FileBacked
  <2>7. k \in Owners
    BY <2>1, <2>6 DEF Owners
  <2>8. Min(Owners) = k
    <3>1. PICK m \in DOMAIN commands : /\ m = Min(Owners) /\ IsSegment(m)
                                       /\ commands[m] \in Segments /\ FileBacked(commands[m])
      BY <2>7, OwnerFacts
    <3>2. Holds(commands[m], value)
      BY <1>1, <3>1, HoldsFacts DEF FileBacked
    <3>3. \A v \in Addresses, i, j \in DOMAIN commands :
             (IsSegment(i) /\ IsSegment(j) /\ Holds(commands[i], v) /\ Holds(commands[j], v)) => i = j
      BY <1>3 DEF WellMade
    <3> QED
      BY <1>1, <2>1, <3>1, <3>2, <3>3
  <2>9. fileOffset = commands[k].fileoff + (value - commands[k].vmaddr)
    BY <2>8 DEF fileOffset
  <2>10. fileOffset \in Nat /\ header + fileOffset = a
    BY <1>1, <2>1, <2>4, <2>5, <2>9
  <2>11. RangeIsValid(fileOffset, 1, mappedSize)
    BY <1>1, <2>2, <2>10 DEF RangeIsValid
  <2>12. Plus(header, fileOffset) = a
    BY <1>1, <2>10, PlusExact
  <2>13. Pointer = SignPointerIfExecutable(Plus(header, fileOffset))
    BY <1>3, <2>7, <2>11 DEF Pointer
  <2> QED
    BY <2>12, <2>13, Signed
<1> QED
  BY <1>2, <1>3

LEMMA IInvFindsWhatIsThere == IInv => FindsWhatIsThere
<1> SUFFICES ASSUME IInv, pc = "returned", call.name # NoName, WellMade,
                    NEW k \in 0 .. symtab.nsyms - 1, IsFirst(k),
                    NEW a \in Addresses \ {0}, StandsFor(ValueOf(k), a)
             PROVE  result # Null
  BY DEF FindsWhatIsThere
<1>1. call \in Calls /\ TypeOK
  BY DEF IInv, CallOK
<1>2. TablesFit
  BY <1>1, WellMadeFits
<1>3. HasName(k)
  BY DEF IsFirst
<1>4. PICK i \in 0 .. symtab.nsyms - 1 : IsFirst(i) /\ value = ValueOf(i)
  BY <1>2, <1>3 DEF IInv, ReturnedOK
<1>5. result = Pointer
  BY <1>2, <1>3 DEF IInv, ReturnedOK
<1>6. i = k
  <2>1. symtab.nsyms \in Nat
    BY <1>1, <1>2, Placed, SymtabFacts DEF TablesPlaced
  <2>2. i \in Nat /\ k \in Nat
    BY <2>1
  <2>3. ~(i < k) /\ ~(k < i)
    BY <1>4, <2>2 DEF IsFirst
  <2> QED
    BY <2>2, <2>3
<1>7. Pointer.addr = a
  BY <1>1, <1>2, <1>4, <1>6, PointerIsThere
<1>8. Null.addr = 0
  BY DEF Null
<1> QED
  BY <1>5, <1>7, <1>8

\* A symbol lookup keeps its index within the count of LC_SYMTAB and its
\* addresses within the address space, whatever the image says.
THEOREM TypeCorrect == Spec => []TypeOK
<1>1. IInv => TypeOK
  BY DEF IInv
<1> QED
  BY Invariant, <1>1, PTL

\* RorkHookFindSymbolEntry reads nothing outside of one readable region, nor
\* outside of a mapped file, whatever LC_SYMTAB and the entries say.
THEOREM ReadsAreInside == Spec => []ReadsStayInside
<1>1. IInv => ReadsStayInside
  BY DEF IInv
<1> QED
  BY Invariant, <1>1, PTL

\* What RorkHookFindSymbol and the file lookups return is the address that the
\* first entry of the wanted name stands for, computed without a wrap.
THEOREM LookupIsSound == Spec => []FoundIsRight
BY Invariant, IInvFoundIsRight, PTL

\* In an image that is as it should be, the lookups find every name that the
\* symbol table has.
THEOREM LookupIsComplete == Spec => []FindsWhatIsThere
BY Invariant, IInvFindsWhatIsThere, PTL
=============================================================================
