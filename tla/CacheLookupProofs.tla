------------------------- MODULE CacheLookupProofs -------------------------
(***************************************************************************)
(* Theorems about what the threads of SharedCache look up: the cache that  *)
(* they locate is the first choice, the search reads only what is mapped,  *)
(* and what it finds is right, for any content of the files.               *)
(***************************************************************************)
EXTENDS SharedCacheProofs, FiniteSetTheorems

-----------------------------------------------------------------------------
(* Numbers.                                                                *)

LEMMA NatMin ==
    ASSUME NEW T, T \subseteq Nat, T # {}
    PROVE  \E x \in T : \A y \in T : x <= y
<1>1. IsWellFoundedOn(OpToRel(<, Nat), Nat)
  BY NatLessThanWellFounded
<1>2. \A x, y \in Nat : x < y => <<x, y>> \in OpToRel(<, Nat)
  BY DEF OpToRel
<1>3. PICK x \in T : \A y \in T : ~(<<y, x>> \in OpToRel(<, Nat))
  BY <1>1, WFMin
<1>4. \A y \in T : ~(y < x)
  BY <1>2, <1>3
<1> QED
  BY <1>4

LEMMA MinIsLeast ==
    ASSUME NEW T, T \subseteq Nat, T # {}
    PROVE  Min(T) \in T /\ \A y \in T : Min(T) <= y
BY NatMin DEF Min

LEMMA MinOfTwo ==
    ASSUME NEW a \in Nat, NEW b \in Nat
    PROVE  Min({a, b}) \in Nat /\ Min({a, b}) <= a /\ Min({a, b}) <= b
<1>1. Min({a, b}) \in {a, b} /\ \A y \in {a, b} : Min({a, b}) <= y
  BY MinIsLeast
<1> QED
  BY <1>1

\* Record k ends inside of a table of n records.
LEMMA RecordInTable ==
    ASSUME NEW k \in Nat, NEW n \in Nat, k < n, NEW S \in Nat
    PROVE  /\ k * S \in Nat /\ n * S \in Nat
           /\ k * S + S <= n * S
<1>1. k + 1 <= n
  OBVIOUS
<1>2. (k + 1) * S <= n * S
  BY <1>1
<1>3. (k + 1) * S = k * S + S
  OBVIOUS
<1> QED
  BY <1>2, <1>3

-----------------------------------------------------------------------------
(* The lookup q.                                                           *)

IsQuery(q) == IsFile(q.main) /\ IsFile(q.symbols)

LEMMA HeaderFacts ==
    ASSUME NEW f, IsFile(f)
    PROVE  /\ f.size \in Nat /\ f.size < Limit
           /\ f.imagesOffset \in Nat /\ f.imagesCount \in Nat
           /\ f.imagesOffsetOld \in Nat /\ f.imagesCountOld \in Nat
           /\ f.localSymbolsOffset \in Nat /\ f.localSymbolsSize \in Nat
           /\ f.mappingOffset \in Nat
<1>1. {f.mappingOffset, f.imagesOffsetOld, f.imagesCountOld, f.imagesOffset,
       f.imagesCount, f.localSymbolsOffset, f.localSymbolsSize} \subseteq 0 .. Limit - 1
  BY DEF IsFile, IsHeader
<1>2. f.size \in 0 .. Limit - 1 /\ Limit \in Nat
  BY LayoutAssumption DEF IsFile
<1> QED
  BY <1>1, <1>2

LEMMA StringFacts ==
    ASSUME NEW f, IsFile(f), NEW o
    PROVE  At(f.strings, o, NoString).length \in Nat
BY DEF IsFile, At, NoString

LEMMA PathOffsetFacts ==
    ASSUME NEW q, IsQuery(q), NEW k
    PROVE  PathOffset(q, k) \in Nat
<1>1. \A o \in DOMAIN q.main.images : q.main.images[o].pathFileOffset \in Nat
  BY DEF IsQuery, IsFile
<1>2. PICK o : o = imagesOffset(q) + k * ImageInfoSize
  OBVIOUS
<1>3. PathOffset(q, k) =
         (IF o \in DOMAIN q.main.images THEN q.main.images[o] ELSE NoImage).pathFileOffset
  BY <1>2 DEF PathOffset, At
<1>4. CASE o \in DOMAIN q.main.images
  BY <1>1, <1>3, <1>4
<1>5. CASE o \notin DOMAIN q.main.images
  BY <1>3, <1>5 DEF NoImage
<1> QED
  BY <1>4, <1>5

LEMMA InfoFacts ==
    ASSUME NEW q, IsQuery(q)
    PROVE  /\ symbolsInfo(q).nlistOffset \in Nat /\ symbolsInfo(q).nlistCount \in Nat
           /\ symbolsInfo(q).stringsOffset \in Nat /\ symbolsInfo(q).stringsSize \in Nat
           /\ symbolsInfo(q).entriesOffset \in Nat /\ symbolsInfo(q).entriesCount \in Nat
<1>1. ASSUME NEW o \in DOMAIN q.symbols.infos
      PROVE  {q.symbols.infos[o].nlistOffset, q.symbols.infos[o].nlistCount,
              q.symbols.infos[o].stringsOffset, q.symbols.infos[o].stringsSize,
              q.symbols.infos[o].entriesOffset, q.symbols.infos[o].entriesCount} \subseteq Nat
  BY DEF IsQuery, IsFile
<1>2. PICK o : o = localView(q).base
  OBVIOUS
<1>3. symbolsInfo(q) = IF o \in DOMAIN q.symbols.infos THEN q.symbols.infos[o] ELSE NoInfo
  BY <1>2 DEF symbolsInfo, At
<1>4. CASE o \in DOMAIN q.symbols.infos
  BY <1>1, <1>3, <1>4
<1>5. CASE o \notin DOMAIN q.symbols.infos
  BY <1>3, <1>5 DEF NoInfo
<1> QED
  BY <1>4, <1>5

LEMMA EntryFacts ==
    ASSUME NEW q, IsQuery(q), NEW k
    PROVE  entry(q, k).nlistStartIndex \in Nat /\ entry(q, k).nlistCount \in Nat
<1>1. PICK entries \in {q.symbols.entries64, q.symbols.entries32} :
         entries = IF uses64BitEntry(q) THEN q.symbols.entries64 ELSE q.symbols.entries32
  OBVIOUS
<1>2. ASSUME NEW o \in DOMAIN entries
      PROVE  entries[o].nlistStartIndex \in Nat /\ entries[o].nlistCount \in Nat
  BY DEF IsQuery, IsFile
<1>3. PICK o : o = localView(q).base + symbolsInfo(q).entriesOffset + k * entrySize(q)
  OBVIOUS
<1>4. entry(q, k) = IF o \in DOMAIN entries THEN entries[o] ELSE NoEntry
  BY <1>1, <1>3 DEF entry, At
<1>5. CASE o \in DOMAIN entries
  BY <1>2, <1>4, <1>5
<1>6. CASE o \notin DOMAIN entries
  BY <1>4, <1>6 DEF NoEntry
<1> QED
  BY <1>5, <1>6

LEMMA SymbolFacts ==
    ASSUME NEW q, IsQuery(q), NEW j
    PROVE  Symbol(q, j).strx \in Nat /\ Symbol(q, j).value \in Nat
<1>1. ASSUME NEW o \in DOMAIN q.symbols.nlists
      PROVE  q.symbols.nlists[o].strx \in Nat /\ q.symbols.nlists[o].value \in Nat
  BY DEF IsQuery, IsFile
<1>2. PICK o : o = symbolOffset(q, j)
  OBVIOUS
<1>3. Symbol(q, j) = IF o \in DOMAIN q.symbols.nlists THEN q.symbols.nlists[o] ELSE NoSymbol
  BY <1>2 DEF Symbol, At
<1>4. CASE o \in DOMAIN q.symbols.nlists
  BY <1>1, <1>3, <1>4
<1>5. CASE o \notin DOMAIN q.symbols.nlists
  BY <1>3, <1>5 DEF NoSymbol
<1> QED
  BY <1>4, <1>5

\* Where the tables of a lookup are.
LEMMA QueryFacts ==
    ASSUME NEW q, IsQuery(q)
    PROVE  /\ imagesOffset(q) \in Nat /\ imagesCount(q) \in Nat /\ entrySize(q) \in Nat \ {0}
           /\ q.main.size \in Nat /\ q.symbols.size \in Nat
           /\ q.main.size < Limit /\ q.symbols.size < Limit
           /\ q.symbols.localSymbolsOffset \in Nat
           /\ localView(q).base = q.symbols.localSymbolsOffset
           /\ localView(q).size = localSize(q)
           /\ Whole(q.main).base = 0 /\ Whole(q.main).size = q.main.size
           /\ stringsView(q).base = q.symbols.localSymbolsOffset + symbolsInfo(q).stringsOffset
           /\ stringsView(q).size = symbolsInfo(q).stringsSize
           /\ Limit \in Nat \ {0} /\ ImageInfoSize \in Nat \ {0} /\ InfoSize \in Nat \ {0}
           /\ NListSize \in Nat \ {0} /\ HeaderSize \in Nat \ {0}
<1>1. IsFile(q.main) /\ IsFile(q.symbols)
  BY DEF IsQuery
<1>2. imagesOffset(q) \in Nat /\ imagesCount(q) \in Nat
  BY <1>1, HeaderFacts DEF imagesOffset, imagesCount
<1>3. /\ q.main.size \in Nat /\ q.symbols.size \in Nat
      /\ q.main.size < Limit /\ q.symbols.size < Limit
      /\ q.symbols.localSymbolsOffset \in Nat
  BY <1>1, HeaderFacts
<1>4. entrySize(q) \in Nat \ {0}
  BY LayoutAssumption DEF entrySize
<1>5. /\ localView(q).base = q.symbols.localSymbolsOffset
      /\ localView(q).size = localSize(q)
      /\ Whole(q.main).base = 0 /\ Whole(q.main).size = q.main.size
  BY DEF localView, Whole
<1>6. /\ stringsView(q).base = q.symbols.localSymbolsOffset + symbolsInfo(q).stringsOffset
      /\ stringsView(q).size = symbolsInfo(q).stringsSize
  BY <1>5 DEF stringsView
<1> QED
  BY <1>2, <1>3, <1>4, <1>5, <1>6, LayoutAssumption

LEMMA LocalFacts ==
    ASSUME NEW q, IsQuery(q), LocalFits(q)
    PROVE  /\ localSize(q) \in Nat
           /\ q.symbols.localSymbolsOffset + localSize(q) <= q.symbols.size
           /\ localSize(q) < Limit
           /\ q.symbols.localSymbolsOffset + localSize(q) <=
                 IF q.symbols.localSymbolsSize = 0 THEN q.symbols.size
                 ELSE q.symbols.localSymbolsOffset + q.symbols.localSymbolsSize
<1>1. /\ q.symbols.size \in Nat /\ q.symbols.localSymbolsOffset \in Nat
      /\ q.symbols.localSymbolsSize \in Nat /\ q.symbols.size < Limit /\ Limit \in Nat
  BY QueryFacts, HeaderFacts DEF IsQuery
<1>2. /\ q.symbols.localSymbolsOffset <= q.symbols.size
      /\ localSize(q) <= q.symbols.size - q.symbols.localSymbolsOffset
  BY DEF LocalFits
<1>3. localSize(q) = IF q.symbols.localSymbolsSize = 0
                     THEN q.symbols.size - q.symbols.localSymbolsOffset
                     ELSE q.symbols.localSymbolsSize
  BY DEF localSize
<1> QED
  BY <1>1, <1>2, <1>3

-----------------------------------------------------------------------------
(* The reads.                                                              *)

LEMMA StringReadFacts ==
    ASSUME NEW f, IsFile(f), NEW view, view.base \in Nat, view.size \in Nat,
           NEW o \in Nat, o < view.size, NEW r, r = StringRead(f.strings, view, o)
    PROVE  /\ r[1] \in Nat /\ r[2] \in Nat /\ view.base <= r[1]
           /\ r[1] + r[2] <= view.base + view.size
<1>1. PICK n \in Nat : n = At(f.strings, view.base + o, NoString).length + 1
  BY StringFacts
<1>2. PICK m \in Nat : m = view.size - o
  OBVIOUS
<1>3. PICK x : x = Min({n, m})
  OBVIOUS
<1>4. x \in Nat /\ x <= m
  BY <1>3, MinOfTwo
<1>5. r[1] = view.base + o /\ r[2] = x
  BY <1>1, <1>2, <1>3 DEF StringRead
<1> QED
  BY <1>2, <1>4, <1>5

LEMMA MainReadsBounded ==
    ASSUME NEW q, IsQuery(q), NEW r \in MainReads(q)
    PROVE  r[1] + r[2] <= q.main.size
<1>1. PICK turns : turns = Turns(0 .. imagesCount(q) - 1, ImageMatches(q))
  OBVIOUS
<1>2. /\ imagesOffset(q) \in Nat /\ imagesCount(q) \in Nat /\ ImageInfoSize \in Nat
      /\ q.main.size \in Nat /\ HeaderSize \in Nat
      /\ Whole(q.main).base = 0 /\ Whole(q.main).size = q.main.size
  BY QueryFacts
<1>3. CASE r = <<0, HeaderSize>> /\ DataAt(Whole(q.main), 0, HeaderSize)
  BY <1>2, <1>3 DEF DataAt
<1>4. CASE SearchesImages(q) /\ \E k \in turns :
             r = <<imagesOffset(q) + k * ImageInfoSize, ImageInfoSize>>
  <2>1. PICK k \in turns : r = <<imagesOffset(q) + k * ImageInfoSize, ImageInfoSize>>
    BY <1>4
  <2>2. k \in Nat /\ k < imagesCount(q)
    BY <1>1, <1>2 DEF Turns
  <2>3. PICK d : d = k * ImageInfoSize
    OBVIOUS
  <2>4. PICK n : n = imagesCount(q) * ImageInfoSize
    OBVIOUS
  <2>5. d \in Nat /\ n \in Nat /\ d + ImageInfoSize <= n
    BY <1>2, <2>2, <2>3, <2>4, RecordInTable
  <2>6. imagesOffset(q) + n <= q.main.size
    BY <1>2, <1>4, <2>4, <2>5 DEF SearchesImages, ImageTableFits, DataAt
  <2> QED
    BY <1>2, <2>1, <2>3, <2>5, <2>6
<1>5. CASE \E k \in turns : /\ PathOffset(q, k) < q.main.size
                            /\ r = StringRead(q.main.strings, Whole(q.main), PathOffset(q, k))
  <2>1. PICK k \in turns : /\ PathOffset(q, k) < q.main.size
                           /\ r = StringRead(q.main.strings, Whole(q.main), PathOffset(q, k))
    BY <1>5
  <2>2. PathOffset(q, k) \in Nat /\ IsFile(q.main)
    BY PathOffsetFacts DEF IsQuery
  <2> QED
    BY <1>2, <2>1, <2>2, StringReadFacts
<1>6. MainReads(q) =
        {<<0, n>> : n \in {n \in {HeaderSize} : DataAt(Whole(q.main), 0, n)}} \union
        IF ~SearchesImages(q) THEN {}
        ELSE {<<imagesOffset(q) + k * ImageInfoSize, ImageInfoSize>> : k \in turns} \union
             {StringRead(q.main.strings, Whole(q.main), PathOffset(q, k)) :
                 k \in {j \in turns : PathOffset(q, j) < q.main.size}}
  BY <1>1 DEF MainReads
<1> QED
  BY <1>3, <1>4, <1>5, <1>6

\* The search for the symbols of image k has begun.
LEMMA SearchFacts ==
    ASSUME NEW q, IsQuery(q), NEW k, SearchesSymbols(q, k)
    PROVE  LET info == symbolsInfo(q)
           IN  /\ info.nlistOffset + info.nlistCount * NListSize <= localSize(q)
               /\ info.nlistCount * NListSize \in Nat
               /\ info.stringsOffset + info.stringsSize <= localSize(q)
               /\ \A j \in Indices(entry(q, k)) : j \in Nat /\ j < info.nlistCount
               /\ LocalFits(q) /\ InfoRead(q) /\ EntryRead(q, k)
<1> DEFINE info == symbolsInfo(q)
<1>1. /\ LocalFits(q) /\ InfoRead(q) /\ EntryRead(q, k)
      /\ entry(q, k).nlistStartIndex + entry(q, k).nlistCount <= info.nlistCount
      /\ DataAt(localView(q), info.nlistOffset, info.nlistCount * NListSize)
      /\ DataAt(localView(q), info.stringsOffset, info.stringsSize)
  BY DEF SearchesSymbols, RangeFits, TablesFit
<1>2. /\ info.nlistOffset \in Nat /\ info.nlistCount \in Nat /\ info.stringsOffset \in Nat
      /\ info.stringsSize \in Nat /\ NListSize \in Nat
      /\ entry(q, k).nlistStartIndex \in Nat /\ entry(q, k).nlistCount \in Nat
      /\ localView(q).size = localSize(q)
  BY InfoFacts, EntryFacts, QueryFacts
<1>3. localSize(q) \in Nat
  BY <1>1, LocalFacts
<1>4. PICK n \in Nat : n = info.nlistCount * NListSize
  BY <1>2
<1>5. info.nlistOffset + n <= localSize(q) /\ info.stringsOffset + info.stringsSize <= localSize(q)
  BY <1>1, <1>2, <1>3, <1>4 DEF DataAt
<1>6. \A j \in Indices(entry(q, k)) : j \in Nat /\ j < info.nlistCount
  BY <1>1, <1>2 DEF Indices
<1> QED
  BY <1>1, <1>4, <1>5, <1>6

\* Reads of the local symbols at the offset o of their region.
LEMMA InRegion ==
    ASSUME NEW q, IsQuery(q), LocalFits(q), NEW o \in Nat, NEW n \in Nat, o + n <= localSize(q),
           NEW r, r[1] = q.symbols.localSymbolsOffset + o, r[2] = n
    PROVE  /\ q.symbols.localSymbolsOffset <= r[1] /\ r[1] + r[2] <= q.symbols.size
           /\ r[1] + r[2] <= IF q.symbols.localSymbolsSize = 0 THEN q.symbols.size
                             ELSE q.symbols.localSymbolsOffset + q.symbols.localSymbolsSize
<1>1. /\ localSize(q) \in Nat
      /\ q.symbols.localSymbolsOffset + localSize(q) <= q.symbols.size
      /\ q.symbols.localSymbolsOffset + localSize(q) <=
            IF q.symbols.localSymbolsSize = 0 THEN q.symbols.size
            ELSE q.symbols.localSymbolsOffset + q.symbols.localSymbolsSize
  BY LocalFacts
<1>2. /\ q.symbols.localSymbolsOffset \in Nat /\ q.symbols.size \in Nat
      /\ q.symbols.localSymbolsSize \in Nat
  BY QueryFacts, HeaderFacts DEF IsQuery
<1>3. PICK e \in Nat : e = IF q.symbols.localSymbolsSize = 0 THEN q.symbols.size
                           ELSE q.symbols.localSymbolsOffset + q.symbols.localSymbolsSize
  BY <1>2
<1>4. /\ q.symbols.localSymbolsOffset <= r[1] /\ r[1] + r[2] <= q.symbols.size
      /\ r[1] + r[2] <= e
  BY <1>1, <1>2, <1>3
<1> QED
  BY <1>3, <1>4

LEMMA NameReadsBounded ==
    ASSUME NEW q, IsQuery(q), NEW k, NEW r \in NameReads(q, k)
    PROVE  LET info == symbolsInfo(q)
               pool == q.symbols.localSymbolsOffset + info.stringsOffset
           IN  /\ SearchesSymbols(q, k) /\ r[1] \in Nat /\ r[2] \in Nat
               /\ pool <= r[1] /\ r[1] + r[2] <= pool + info.stringsSize
<1> DEFINE turns == Turns(Indices(entry(q, k)), SymbolMatches(q, entry(q, k)))
           pool == q.symbols.localSymbolsOffset + symbolsInfo(q).stringsOffset
<1>1. /\ SearchesSymbols(q, k)
      /\ \E j \in turns : /\ NameIsRead(q, j)
                          /\ r = StringRead(q.symbols.strings, stringsView(q), Symbol(q, j).strx)
  BY DEF NameReads
<1>2. PICK j \in turns : /\ NameIsRead(q, j)
                         /\ r = StringRead(q.symbols.strings, stringsView(q), Symbol(q, j).strx)
  BY <1>1
<1>3. /\ stringsView(q).base = pool /\ stringsView(q).size = symbolsInfo(q).stringsSize
      /\ pool \in Nat /\ symbolsInfo(q).stringsSize \in Nat
  BY QueryFacts, InfoFacts
<1>4. Symbol(q, j).strx \in Nat /\ Symbol(q, j).strx < stringsView(q).size
  BY <1>2, SymbolFacts DEF NameIsRead
<1>5. IsFile(q.symbols)
  BY DEF IsQuery
<1> HIDE DEF turns, pool
<1>6. r[1] \in Nat /\ r[2] \in Nat /\ pool <= r[1] /\ r[1] + r[2] <= pool + symbolsInfo(q).stringsSize
  BY <1>2, <1>3, <1>4, <1>5, StringReadFacts
<1> QED
  BY <1>1, <1>6 DEF pool

LEMMA LocalReadsBounded ==
    ASSUME NEW q, IsQuery(q), NEW k \in Nat
    PROVE  LocalReadsAreBounded(q, k)
<1> DEFINE base == q.symbols.localSymbolsOffset
           info == symbolsInfo(q)
           turns == Turns(Indices(entry(q, k)), SymbolMatches(q, entry(q, k)))
           inside(r) == /\ base <= r[1] /\ r[1] + r[2] <= q.symbols.size
                        /\ r[1] + r[2] <= IF q.symbols.localSymbolsSize = 0 THEN q.symbols.size
                                          ELSE base + q.symbols.localSymbolsSize
<1>1. /\ localView(q).base = base /\ localView(q).size = localSize(q) /\ base \in Nat
      /\ InfoSize \in Nat /\ NListSize \in Nat /\ entrySize(q) \in Nat
      /\ info.nlistOffset \in Nat /\ info.nlistCount \in Nat /\ info.stringsOffset \in Nat
      /\ info.stringsSize \in Nat /\ info.entriesOffset \in Nat
  BY QueryFacts, InfoFacts
<1>2. LocalFits(q) => localSize(q) \in Nat
  BY LocalFacts
<1>3. ASSUME LocalFits(q), InfoRead(q), NEW r, r = <<localView(q).base, InfoSize>>
      PROVE  inside(r)
  <2>1. 0 + InfoSize <= localSize(q)
    BY <1>1, <1>2, <1>3 DEF InfoRead, DataAt
  <2>2. r[1] = base + 0 /\ r[2] = InfoSize /\ 0 \in Nat
    BY <1>1, <1>3
  <2> QED
    BY <1>1, <1>3, <2>1, <2>2, InRegion
<1>4. ASSUME LocalFits(q), EntryRead(q, k), NEW r,
             r = <<localView(q).base + info.entriesOffset + k * entrySize(q), entrySize(q)>>
      PROVE  inside(r)
  <2>1. PICK d : d = k * entrySize(q)
    OBVIOUS
  <2>2. d \in Nat
    BY <1>1, <2>1
  <2>3. info.entriesOffset + d <= localSize(q) /\ entrySize(q) <= localSize(q) - (info.entriesOffset + d)
    BY <1>1, <1>4, <2>1 DEF EntryRead, ReadsIndexed, DataAt
  <2>4. PICK o \in Nat : o = info.entriesOffset + d
    BY <1>1, <2>2
  <2>5. r[1] = base + o /\ r[2] = entrySize(q)
    BY <1>1, <1>4, <2>1, <2>2, <2>4
  <2>6. o + entrySize(q) <= localSize(q)
    BY <1>1, <1>2, <1>4, <2>3, <2>4
  <2> QED
    BY <1>1, <1>4, <2>5, <2>6, InRegion
<1>5. ASSUME SearchesSymbols(q, k), NEW j \in turns, NEW r, r = <<symbolOffset(q, j), NListSize>>
      PROVE  inside(r)
  <2>1. j \in Nat /\ j < info.nlistCount /\ LocalFits(q)
    BY <1>5, SearchFacts DEF Turns
  <2>2. PICK d : d = j * NListSize
    OBVIOUS
  <2>3. PICK n : n = info.nlistCount * NListSize
    OBVIOUS
  <2>4. d \in Nat /\ n \in Nat /\ d + NListSize <= n
    BY <1>1, <2>1, <2>2, <2>3, RecordInTable
  <2>5. info.nlistOffset + n <= localSize(q)
    BY <1>5, <2>3, SearchFacts
  <2>6. PICK o \in Nat : o = info.nlistOffset + d
    BY <1>1, <2>4
  <2>7. r[1] = base + o /\ r[2] = NListSize
    BY <1>1, <1>5, <2>2, <2>4, <2>6 DEF symbolOffset
  <2>8. o + NListSize <= localSize(q)
    BY <1>1, <1>2, <2>1, <2>4, <2>5, <2>6
  <2> QED
    BY <1>1, <2>1, <2>7, <2>8, InRegion
<1>6. ASSUME NEW r \in NameReads(q, k)
      PROVE  inside(r)
  <2>1. /\ SearchesSymbols(q, k) /\ r[1] \in Nat /\ r[2] \in Nat
        /\ base + info.stringsOffset <= r[1]
        /\ r[1] + r[2] <= base + info.stringsOffset + info.stringsSize
    BY NameReadsBounded
  <2>2. info.stringsOffset + info.stringsSize <= localSize(q) /\ LocalFits(q)
    BY <2>1, SearchFacts
  <2>3. localSize(q) \in Nat
    BY <1>2, <2>2
  <2>4. PICK o \in Nat : o = r[1] - base
    BY <1>1, <2>1
  <2>5. r[1] = base + o /\ o + r[2] <= localSize(q)
    BY <1>1, <2>1, <2>2, <2>3, <2>4
  <2>6. PICK n \in Nat : n = r[2]
    BY <2>1
  <2> QED
    BY <2>2, <2>5, <2>6, InRegion
<1>7. ASSUME NEW r \in LocalReads(q, k)
      PROVE  inside(r)
  <2> HIDE DEF turns, inside
  <2>1. /\ LocalFits(q) /\ InfoRead(q)
        /\ \/ r = <<localView(q).base, InfoSize>>
           \/ /\ r = <<localView(q).base + info.entriesOffset + k * entrySize(q), entrySize(q)>>
              /\ EntryRead(q, k)
           \/ \E j \in turns : SearchesSymbols(q, k) /\ r = <<symbolOffset(q, j), NListSize>>
           \/ r \in NameReads(q, k)
    BY DEF LocalReads, turns
  <2> HIDE DEF info
  <2> QED
    BY <1>3, <1>4, <1>5, <1>6, <2>1 DEF info
<1>8. ASSUME NEW r \in NameReads(q, k)
      PROVE  /\ base + info.stringsOffset <= r[1]
             /\ r[1] + r[2] <= base + info.stringsOffset + info.stringsSize
  BY NameReadsBounded
<1> QED
  BY <1>7, <1>8 DEF LocalReadsAreBounded

-----------------------------------------------------------------------------
(* The searching threads.                                                  *)

LEMMA QueriesAreFiles ==
    ASSUME NEW t, NEW f \in Files, NEW g \in Files
    PROVE  IsQuery(Query(t, f, g))
BY ContentsAssumption DEF IsQuery, Query

LEMMA LookupFacts ==
    ASSUME IInv, NEW t \in Threads, pc[t] = "lookup"
    PROVE  QueryOf(t) = Asked(t) /\ IsQuery(QueryOf(t))
<1>1. t \in WithMain /\ (hasSidecar[t] => t \in WithSide)
  BY DEF WithMain, WithSide
<1>2. /\ opened[t]["main"] \in Files
      /\ memory[mapping[t]["main"]] = opened[t]["main"]
      /\ hasSidecar[t] => /\ opened[t]["symbols"] \in Files
                          /\ memory[mapping[t]["symbols"]] = opened[t]["symbols"]
      /\ ~hasSidecar[t] => mapping[t]["symbols"] = mapping[t]["main"]
  BY <1>1 DEF IInv, Mappings
<1>3. PICK g \in Files :
         g = IF hasSidecar[t] THEN opened[t]["symbols"] ELSE opened[t]["main"]
  BY <1>2
<1>4. memory[mapping[t]["symbols"]] = g
  BY <1>2, <1>3
<1>5. QueryOf(t) = Query(t, opened[t]["main"], g) /\ Asked(t) = Query(t, opened[t]["main"], g)
  BY <1>2, <1>3, <1>4 DEF QueryOf, Asked
<1> QED
  BY <1>2, <1>5, QueriesAreFiles

LEMMA FoundImageFacts ==
    ASSUME NEW q, IsQuery(q), NEW k \in FoundImage(q)
    PROVE  /\ k \in Nat /\ k \in 0 .. imagesCount(q) - 1 /\ IsImage(q, k)
           /\ \A j \in 0 .. imagesCount(q) - 1 : IsImage(q, j) => k <= j
<1>1. imagesCount(q) \in Nat
  BY QueryFacts
<1>2. k \in FirstOf(ImageMatches(q))
  BY DEF FoundImage
<1> QED
  BY <1>1, <1>2 DEF FirstOf, ImageMatches

\* Whatever the cache and its sidecar say, RorkHookFindSharedCacheSymbolInData
\* reads of the main file only the file, of local symbols only their region,
\* and of names only the pool.
THEOREM SearchStaysInBounds == Spec => []ReadsAreBounded
<1>1. ASSUME IInv PROVE ReadsAreBounded
  <2> SUFFICES ASSUME NEW t \in Threads, pc[t] = "lookup", NEW q, q = QueryOf(t)
               PROVE  /\ \A r \in MainReads(q) : r[1] + r[2] <= q.main.size
                      /\ \A k \in FoundImage(q) : LocalReadsAreBounded(q, k)
    BY DEF ReadsAreBounded
  <2>1. IsQuery(q)
    BY <1>1, LookupFacts
  <2>2. \A r \in MainReads(q) : r[1] + r[2] <= q.main.size
    BY <2>1, MainReadsBounded
  <2>3. \A k \in FoundImage(q) : k \in Nat
    BY <2>1, FoundImageFacts
  <2>4. \A k \in FoundImage(q) : LocalReadsAreBounded(q, k)
    BY <2>1, <2>3, LocalReadsBounded
  <2> QED
    BY <2>2, <2>4
<1> QED
  BY <1>1, Invariance, PTL

-----------------------------------------------------------------------------
(* What the search finds is what the format says.                          *)

LEMMA IsImageMeans ==
    ASSUME NEW q, IsQuery(q), NEW k
    PROVE  IsImage(q, k) <=> HasPath(q, k)
<1>1. PICK o \in Nat : o = PathOffset(q, k)
  BY PathOffsetFacts
<1>2. PICK n \in Nat : n = At(q.main.strings, o, NoString).length
  BY StringFacts DEF IsQuery
<1>3. Whole(q.main).base = 0 /\ Whole(q.main).size = q.main.size /\ q.main.size \in Nat
  BY QueryFacts
<1>4. Whole(q.main).base + o = o
  BY <1>3
<1>5. IsImage(q, k) <=> /\ o < q.main.size /\ n < q.main.size - o
                        /\ At(q.main.strings, o, NoString).name = q.image
  BY <1>1, <1>2, <1>3, <1>4 DEF IsImage, StringEquals
<1>6. HasPath(q, k) <=> /\ o < q.main.size /\ o + n < q.main.size
                        /\ At(q.main.strings, o, NoString).name = q.image
  BY <1>1, <1>2 DEF HasPath, Ends, Reads
<1> QED
  BY <1>3, <1>5, <1>6

LEMMA TablesMean ==
    ASSUME NEW q, IsQuery(q), NEW k, NEW j
    PROVE  symbolsInfo(q) = InfoOf(q) /\ entry(q, k) = EntryOf(q, k) /\ Symbol(q, j) = SymbolAt(q, j)
<1>1. localView(q).base = q.symbols.localSymbolsOffset
  BY QueryFacts
<1>2. symbolsInfo(q) = InfoOf(q)
  BY <1>1 DEF symbolsInfo, InfoOf
<1>3. entry(q, k) = EntryOf(q, k)
  BY <1>1, <1>2 DEF entry, EntryOf, entrySize
<1>4. Symbol(q, j) = SymbolAt(q, j)
  BY <1>1, <1>2 DEF Symbol, SymbolAt, symbolOffset
<1> QED
  BY <1>2, <1>3, <1>4

\* Every record of the table of symbols can be read.
LEMMA SymbolIsRead ==
    ASSUME NEW q, IsQuery(q), NEW k, SearchesSymbols(q, k),
           NEW j \in Nat, j < symbolsInfo(q).nlistCount
    PROVE  ReadsIndexed(localView(q), symbolsInfo(q).nlistOffset, j, NListSize)
<1>1. PICK o \in Nat : o = symbolsInfo(q).nlistOffset
  BY InfoFacts
<1>2. PICK d : d = j * NListSize
  OBVIOUS
<1>3. PICK n : n = symbolsInfo(q).nlistCount * NListSize
  OBVIOUS
<1>4. /\ localView(q).size = localSize(q) /\ NListSize \in Nat /\ Limit \in Nat
      /\ symbolsInfo(q).nlistCount \in Nat
  BY QueryFacts, InfoFacts
<1>5. d \in Nat /\ n \in Nat /\ d + NListSize <= n
  BY <1>2, <1>3, <1>4, RecordInTable
<1>6. o + n <= localSize(q) /\ LocalFits(q)
  BY <1>1, <1>3, SearchFacts
<1>7. localSize(q) \in Nat /\ localSize(q) < Limit
  BY <1>6, LocalFacts
<1>8. d < Limit /\ o + d < Limit /\ o + d <= localSize(q) /\ NListSize <= localSize(q) - (o + d)
  BY <1>4, <1>5, <1>6, <1>7
<1> QED
  BY <1>1, <1>2, <1>4, <1>8 DEF ReadsIndexed, DataAt

LEMMA IsSymbolMeans ==
    ASSUME NEW q, IsQuery(q), NEW k, SearchesSymbols(q, k),
           NEW j \in Nat, j < symbolsInfo(q).nlistCount
    PROVE  IsSymbol(q, j) <=> HasName(q, j)
<1>1. PICK x \in Nat : x = Symbol(q, j).strx
  BY SymbolFacts
<1>2. PICK size \in Nat : size = symbolsInfo(q).stringsSize
  BY InfoFacts
<1>3. PICK pool \in Nat : pool = q.symbols.localSymbolsOffset + symbolsInfo(q).stringsOffset
  BY InfoFacts, QueryFacts
<1>4. PICK n \in Nat : n = At(q.symbols.strings, pool + x, NoString).length
  BY StringFacts DEF IsQuery
<1>5. stringsView(q).base = pool /\ stringsView(q).size = size
  BY <1>2, <1>3, QueryFacts
<1>6. symbolsInfo(q) = InfoOf(q) /\ Symbol(q, j) = SymbolAt(q, j)
  BY TablesMean
<1>7. IsSymbol(q, j) <=> /\ x # 0 /\ x < size /\ Symbol(q, j).sect /\ n < size - x
                         /\ At(q.symbols.strings, pool + x, NoString).name = q.name
  BY <1>1, <1>4, <1>5, SymbolIsRead DEF IsSymbol, NameIsRead, StringEquals
<1>8. HasName(q, j) <=> /\ x # 0 /\ x < size /\ Symbol(q, j).sect /\ pool + x + n < pool + size
                        /\ At(q.symbols.strings, pool + x, NoString).name = q.name
  BY <1>1, <1>2, <1>3, <1>4, <1>6 DEF HasName, Ends, Reads
<1> QED
  BY <1>7, <1>8

\* p is the address of the first symbol of the name that q asks for of the
\* first image of the path that q asks for.
IsRight(q, p) ==
    /\ IsAddress(q, q.slide, p.addr)
    /\ p.signed = (PtrAuth /\ p.addr \in Executable)

\* The slide that a search applies.
LEMMA SlideOf ==
    ASSUME NEW t, NEW f, NEW g
    PROVE  Query(t, f, g).slide = IF SlideIsKnown(t) THEN TrueSlide(t) ELSE 0
BY DEF Query, SlideIsKnown, TrueSlide, SharedCacheSlide

LEMMA FoundIsFirstImage ==
    ASSUME NEW q, IsQuery(q), NEW k \in FoundImage(q)
    PROVE  IsFirstImage(q, k)
<1>1. /\ k \in 0 .. imagesCount(q) - 1 /\ IsImage(q, k)
      /\ \A j \in 0 .. imagesCount(q) - 1 : IsImage(q, j) => k <= j
  BY FoundImageFacts
<1>2. imagesCount(q) \in Nat
  BY QueryFacts
<1>3. ASSUME NEW j \in 0 .. k - 1
      PROVE  ~HasPath(q, j)
  <2>1. j \in 0 .. imagesCount(q) - 1 /\ ~(k <= j)
    BY <1>1, <1>2
  <2> QED
    BY <1>1, <2>1, IsImageMeans
<1>4. HasPath(q, k)
  BY <1>1, IsImageMeans
<1> QED
  BY <1>1, <1>3, <1>4 DEF IsFirstImage

LEMMA FoundIsFirstSymbol ==
    ASSUME NEW q, IsQuery(q), NEW k, SearchesSymbols(q, k),
           NEW j \in FirstOf(SymbolMatches(q, entry(q, k)))
    PROVE  IsSymbolOf(q, k, j) /\ j \in 0 .. InfoOf(q).nlistCount - 1
<1>1. PICK e : e = entry(q, k)
  OBVIOUS
<1>2. e.nlistStartIndex \in Nat /\ e.nlistCount \in Nat /\ symbolsInfo(q).nlistCount \in Nat
  BY <1>1, EntryFacts, InfoFacts
<1>3. /\ j \in Indices(e) /\ IsSymbol(q, j)
      /\ \A i \in Indices(e) : IsSymbol(q, i) => j <= i
  BY <1>1 DEF FirstOf, SymbolMatches
<1>4. \A i \in Indices(e) : i \in Nat /\ i < symbolsInfo(q).nlistCount
  BY <1>1, SearchFacts
<1>5. ASSUME NEW i \in e.nlistStartIndex .. j - 1
      PROVE  ~HasName(q, i)
  <2>1. i \in Indices(e) /\ ~(j <= i)
    BY <1>2, <1>3 DEF Indices
  <2> QED
    BY <1>3, <1>4, <2>1, IsSymbolMeans
<1>6. HasName(q, j)
  BY <1>3, <1>4, IsSymbolMeans
<1>7. EntryOf(q, k) = e /\ InfoOf(q) = symbolsInfo(q)
  BY <1>1, TablesMean
<1>8. IsSymbolOf(q, k, j)
  BY <1>3, <1>5, <1>6, <1>7 DEF IsSymbolOf, Indices
<1>9. j \in 0 .. InfoOf(q).nlistCount - 1
  BY <1>2, <1>3, <1>4, <1>7
<1> QED
  BY <1>8, <1>9

LEMMA SearchIsRight ==
    ASSUME NEW q, IsQuery(q), NEW p, p = FindSharedCacheSymbolInData(q), p # Null
    PROVE  IsRight(q, p)
<1>1. p \in Pointers(q)
  BY DEF FindSharedCacheSymbolInData
<1>2. PICK j \in FoundSymbol(q) : p = Slid(q, Symbol(q, j).value)
  BY <1>1 DEF Pointers
<1>3. PICK k \in FoundImage(q) :
         SearchesSymbols(q, k) /\ j \in FirstOf(SymbolMatches(q, entry(q, k)))
  BY <1>2 DEF FoundSymbol
<1>4. p = SignPointerIfExecutable(q.slide + Symbol(q, j).value)
  BY <1>2 DEF Slid
<1>5. p.addr = q.slide + SymbolAt(q, j).value /\ p.signed = (PtrAuth /\ p.addr \in Executable)
  BY <1>4, TablesMean DEF SignPointerIfExecutable
<1>6. IsFirstImage(q, k) /\ k \in 0 .. imagesCount(q) - 1
  BY FoundIsFirstImage, FoundImageFacts
<1>7. IsSymbolOf(q, k, j) /\ j \in 0 .. InfoOf(q).nlistCount - 1
  BY <1>3, FoundIsFirstSymbol
<1> QED
  BY <1>5, <1>6, <1>7 DEF IsRight, IsAddress

\* A thread has a pointer only after its search, and then the right one.
ResultOK ==
    /\ DOMAIN result = Threads
    /\ \A t \in Threads : result[t] # Null =>
          pc[t] \in {"unmap", "unmapMain", "returned"} /\ IsRight(Asked(t), result[t])

LEMMA ResultKept ==
    ASSUME ResultOK, world' = world, result' = result,
           \A t \in Threads : result[t] # Null =>
              /\ opened'[t]["main"] = opened[t]["main"]
              /\ opened'[t]["symbols"] = opened[t]["symbols"]
              /\ hasSidecar'[t] = hasSidecar[t]
              /\ pc'[t] \in {"unmap", "unmapMain", "returned"}
    PROVE  ResultOK'
<1> SUFFICES ASSUME NEW t \in Threads, result'[t] # Null
             PROVE  /\ pc'[t] \in {"unmap", "unmapMain", "returned"}
                    /\ IsRight(Asked(t), result[t])'
  BY DEF ResultOK
<1>1. Asked(t)' = Asked(t)
  BY DEF Asked, Query, Call, SharedCacheSlide, SlideIsPublished
<1>2. PICK q : q = Asked(t)
  OBVIOUS
<1>3. PICK p : p = result[t]
  OBVIOUS
<1>4. IsRight(q, p)
  BY <1>2, <1>3 DEF ResultOK
<1>5. Asked(t)' = q /\ result'[t] = p
  BY <1>1, <1>2, <1>3
<1> QED
  BY <1>4, <1>5

LEMMA ResultStep ==
    ASSUME IInv, ResultOK, NEW t \in Threads, Step(t)
    PROVE  ResultOK'
<1> USE DEF kernel, location, locals, history
<1>1. /\ pc \in [Threads -> Phases] /\ hasSidecar \in [Threads -> BOOLEAN] /\ Types
      /\ DOMAIN result = Threads
  BY DEF IInv, Types, ResultOK
<1>2. \A u \in Threads : result[u] # Null => pc[u] \in {"unmap", "unmapMain", "returned"}
  BY DEF ResultOK
<1>3. CASE Lookup(t)
  <2>1. /\ pc[t] = "lookup" /\ pc' = [pc EXCEPT ![t] = "unmap"]
        /\ result' = [result EXCEPT ![t] = FindSharedCacheSymbolInData(QueryOf(t))]
        /\ UNCHANGED <<world, opened, hasSidecar>>
    BY <1>3 DEF Lookup, GoTo
  <2>2. ASSUME NEW u \in Threads
        PROVE  Asked(u)' = Asked(u)
    BY <2>1 DEF Asked, Query, Call, SharedCacheSlide, SlideIsPublished
  <2>3. PICK q : q = QueryOf(t)
    OBVIOUS
  <2>4. PICK p : p = FindSharedCacheSymbolInData(q)
    OBVIOUS
  <2>5. IsQuery(q) /\ q = Asked(t)
    BY <2>1, <2>3, LookupFacts
  <2>6. p # Null => IsRight(q, p)
    BY <2>4, <2>5, SearchIsRight
  <2>7. result'[t] = p /\ Asked(t)' = q /\ pc'[t] = "unmap"
    BY <1>1, <2>1, <2>2, <2>3, <2>4, <2>5
  <2>8. ASSUME NEW u \in Threads, u # t, result'[u] # Null
        PROVE  pc'[u] \in {"unmap", "unmapMain", "returned"} /\ IsRight(Asked(u), result[u])'
    <3>1. result'[u] = result[u] /\ pc'[u] = pc[u]
      BY <1>1, <2>1, <2>8
    <3>2. PICK r : r = Asked(u)
      OBVIOUS
    <3>3. PICK v : v = result[u]
      OBVIOUS
    <3>4. IsRight(r, v) /\ pc[u] \in {"unmap", "unmapMain", "returned"}
      BY <2>8, <3>1, <3>2, <3>3 DEF ResultOK
    <3>5. Asked(u)' = r /\ result'[u] = v
      BY <2>2, <3>1, <3>2, <3>3
    <3> QED
      BY <3>1, <3>4, <3>5
  <2>9. result'[t] # Null => IsRight(Asked(t), result[t])'
    BY <2>6, <2>7
  <2>10. DOMAIN result' = Threads
    BY <1>1, <2>1
  <2> QED
    BY <2>7, <2>8, <2>9, <2>10 DEF ResultOK
<1>4. CASE /\ UNCHANGED <<world, result, opened, hasSidecar>>
           /\ \E to : /\ pc' = [pc EXCEPT ![t] = to]
                      /\ \/ pc[t] \notin {"unmap", "unmapMain", "returned"}
                         \/ to \in {"unmapMain", "returned"}
  BY <1>1, <1>2, <1>4, ResultKept
<1>5. CASE Enter(t) \/ OnceEnter(t) \/ OncePass(t) \/ AskDyld(t) \/ PutSuffix(t)
  BY <1>4, <1>5 DEF Enter, OnceEnter, OncePass, AskDyld, PutSuffix, GoTo
<1>6. CASE CheckActive(t) \/ ChooseBase(t) \/ CheckSuffix(t) \/ NotLocated(t)
  BY <1>4, <1>6 DEF CheckActive, ChooseBase, CheckSuffix, NotLocated, LeaveBlock, GoTo
<1>7. CASE Stat(t) \/ StatFails(t) \/ Mmap(t) \/ MmapFails(t) \/ Sidecar(t)
  BY <1>4, <1>7 DEF Stat, StatFails, Mmap, MmapFails, Sidecar, GoTo
<1>8. CASE UnmapSidecar(t) \/ UnmapMain(t)
  BY <1>4, <1>8 DEF UnmapSidecar, UnmapMain, GoTo
<1>9. CASE OpenFails(t) \/ Reject(t) \/ Close(t)
  <2>1. /\ UNCHANGED <<world, result, opened>> /\ pc[t] \in {"open", "reject", "close"}
        /\ \E to : pc' = [pc EXCEPT ![t] = to]
        /\ hasSidecar' = hasSidecar \/ \E b : hasSidecar' = [hasSidecar EXCEPT ![t] = b]
    BY <1>9 DEF OpenFails, Reject, Close, MapFileReturns, GoTo
  <2>2. result[t] = Null
    BY <1>2, <2>1
  <2>3. \A u \in Threads : u # t => pc'[u] = pc[u] /\ hasSidecar'[u] = hasSidecar[u]
    BY <1>1, <2>1
  <2> QED
    BY <1>2, <2>1, <2>2, <2>3, ResultKept
<1>10. CASE Open(t)
  <2>1. /\ UNCHANGED <<world, result, hasSidecar>> /\ pc[t] = "open"
        /\ pc' = [pc EXCEPT ![t] = "stat"]
    BY <1>10 DEF Open, GoTo
  <2>2. result[t] = Null
    BY <1>2, <2>1
  <2>3. \A u \in Threads : u # t =>
           /\ pc'[u] = pc[u] /\ opened'[u]["main"] = opened[u]["main"]
           /\ opened'[u]["symbols"] = opened[u]["symbols"]
    BY <1>1, <1>10, <2>1, OpenEffect DEF Roles
  <2> QED
    BY <1>2, <2>1, <2>2, <2>3, ResultKept
<1> QED
  BY <1>3, <1>5, <1>6, <1>7, <1>8, <1>9, <1>10 DEF Step, Locate, MapFile

\* A pointer that RorkHookFindSharedCacheSymbolAtPath returns is the address of
\* the first symbol of that name of the first image of that path, in the files
\* that this call opened, and is signed when it has to be.
THEOREM FoundSymbolsAreRight == Spec => []ResolvesRightly
<1>1. Init => ResultOK
  BY DEF Init, ResultOK
<1>2. ASSUME IInv, ResultOK, [Next]_vars PROVE ResultOK'
  <2>1. ASSUME NEW t \in Threads, Step(t) PROVE ResultOK'
    BY <1>2, <2>1, ResultStep
  <2>2. CASE UNCHANGED <<world, pc, result, opened, hasSidecar>>
    <3>1. \A t \in Threads : result[t] # Null => pc'[t] \in {"unmap", "unmapMain", "returned"}
      BY <1>2, <2>2 DEF ResultOK
    <3> QED
      BY <1>2, <2>2, <3>1, ResultKept
  <2>3. CASE \E path \in DOMAIN files : ReplaceFile(path)
    BY <2>2, <2>3 DEF ReplaceFile, locals, history
  <2>4. CASE UNCHANGED vars
    BY <2>2, <2>4 DEF vars, locals, history
  <2> QED
    BY <1>2, <2>1, <2>3, <2>4 DEF Next
<1>3. ResultOK => ResolvesRightly
  <2>1. \A t \in Threads : Asked(t).slide = IF SlideIsKnown(t) THEN TrueSlide(t) ELSE 0
    BY SlideOf DEF Asked
  <2> QED
    BY <2>1 DEF ResultOK, ResolvesRightly, IsRight
<1> QED
  BY <1>1, <1>2, <1>3, Invariance, PTL DEF Spec

-----------------------------------------------------------------------------
(* The cache that is located.                                              *)

\* The suffixes before the n-th one do not lead to a cache.
NoneBefore(n) ==
    \A k \in DOMAIN Suffixes : k < n => ~Usable(<<Head(BasePath), Suffixes[k]>>)

\* What is known at each step of the block, unless the files changed meanwhile.
Choosing ==
    /\ \A t \in Threads : pc[t] = "active" =>
          cachePath = IF world.active = None THEN <<>> ELSE <<world.active>>
    /\ ~changed => \A t \in Threads :
          /\ pc[t] \in {"choose", "probe", "check"} => ~NamedByDyld
          /\ pc[t] \in {"probe", "check"} =>
                IF BasePath = <<>> THEN pc[t] = "probe" /\ probe > Len(Suffixes)
                ELSE Head(cachePath) = Head(BasePath) /\ NoneBefore(probe)
          /\ pc[t] = "check" => cachePath = <<Head(BasePath), Suffixes[probe]>>
    /\ FirstChoice

\* The path is the one that the header promises, or the first location has none.
IsChosen(path) == IsFirstChoice(path) \/ StopsAtFirst(path)

\* The first location that the process has.
IsFirstOffered(b) == Offered(b) /\ \A c \in Ahead(b) : ~Offered(c)

LEMMA BaseFacts ==
    ASSUME world \in Worlds
    PROVE  \/ BasePath = <<>> /\ \A b \in Bases : ~Offered(b)
           \/ \E b \in Bases : BasePath = <<b>> /\ IsFirstOffered(b) /\ Head(BasePath) = b
<1>1. world.private \in BOOLEAN
  BY WorldsAssumption
<1>2. CASE world.private
  BY <1>2 DEF BasePath, IsFirstOffered, Offered, Ahead, Bases
<1>3. CASE ~world.private /\ "cryptex" \in world.directories
  BY <1>3 DEF BasePath, IsFirstOffered, Offered, Ahead, Bases
<1>4. CASE ~world.private /\ "cryptex" \notin world.directories /\ "system" \in world.directories
  BY <1>4 DEF BasePath, IsFirstOffered, Offered, Ahead, Bases
<1>5. CASE ~world.private /\ "cryptex" \notin world.directories /\ "system" \notin world.directories
  BY <1>5 DEF BasePath, Offered, Bases
<1> QED
  BY <1>1, <1>2, <1>3, <1>4, <1>5

LEMMA FirstBase ==
    ASSUME world \in Worlds, NEW b \in Bases, IsFirstOffered(b)
    PROVE  BasePath # <<>> /\ Head(BasePath) = b
BY BaseFacts DEF IsFirstOffered, Bases, Ahead

\* A base that does not fit does not fit with a suffix either.
LEMMA LongerDoesNotFit ==
    ASSUME world \in Worlds, ~Fits(<<"private">>), NEW k \in DOMAIN Suffixes
    PROVE  ~Fits(<<"private", Suffixes[k]>>)
<1>1. PICK n \in Nat : n = PieceLength("private")
  BY WorldsAssumption DEF PieceLength
<1>2. k \in 1 .. 4 /\ Suffixes[k] \in {"_arm64e", "_arm64", "_armv7s", "_armv7"}
  BY SuffixesFact DEF Suffixes
<1>3. PICK m \in Nat : m = PieceLength(Suffixes[k])
  BY <1>2 DEF PieceLength
<1>4. PathLength(<<"private">>) = n + 0 + 0
  BY <1>1 DEF PathLength
<1>5. PathLength(<<"private", Suffixes[k]>>) = n + m + 0
  BY <1>1, <1>3 DEF PathLength
<1> QED
  BY <1>4, <1>5, KernelAssumption DEF Fits

LEMMA ActiveIsFirst ==
    ASSUME NamedByDyld
    PROVE  IsChosen(<<world.active>>)
BY DEF IsChosen, IsFirstChoice

LEMMA SuffixIsFirst ==
    ASSUME world \in Worlds, ~NamedByDyld, BasePath # <<>>, NEW n \in DOMAIN Suffixes,
           Usable(<<Head(BasePath), Suffixes[n]>>), NoneBefore(n)
    PROVE  IsChosen(<<Head(BasePath), Suffixes[n]>>)
<1>1. PICK b \in Bases : BasePath = <<b>> /\ IsFirstOffered(b) /\ Head(BasePath) = b
  BY BaseFacts
<1>2. UsableIn(b) \subseteq Nat /\ n \in UsableIn(b) /\ \A k \in UsableIn(b) : ~(k < n)
  BY <1>1, SuffixesFact DEF UsableIn, NoneBefore, IsFirstOffered
<1>3. Min(UsableIn(b)) \in UsableIn(b) /\ Min(UsableIn(b)) <= n
  BY <1>2, MinIsLeast
<1>4. Min(UsableIn(b)) = n
  BY <1>2, <1>3, SuffixesFact
<1>5. UsableIn(b) # {} /\ \A c \in Ahead(b) : UsableIn(c) = {}
  BY <1>1, <1>2 DEF IsFirstOffered, UsableIn
<1> QED
  BY <1>1, <1>4, <1>5 DEF IsChosen, IsFirstChoice

LEMMA NoneIsFirst ==
    ASSUME world \in Worlds, ~NamedByDyld,
           \A b \in Bases : IsFirstOffered(b) => UsableIn(b) = {}
    PROVE  IsChosen(<<>>)
<1>1. CASE \A b \in Bases : ~Offered(b)
  BY <1>1 DEF IsChosen, IsFirstChoice, UsableIn
<1>2. CASE \E b \in Bases : IsFirstOffered(b)
  BY <1>2 DEF IsChosen, StopsAtFirst, IsFirstOffered
<1> QED
  BY <1>1, <1>2, BaseFacts

LEMMA SameUsable ==
    ASSUME UNCHANGED <<world, files>>, NEW p
    PROVE  Usable(p)' <=> Usable(p)
<1>1. ASSUME NEW piece PROVE PieceLength(piece)' = PieceLength(piece)
  BY DEF PieceLength
<1>2. PathLength(p)' = PathLength(p)
  BY <1>1 DEF PathLength
<1>3. IsReadable(p)' <=> IsReadable(p)
  BY DEF IsReadable, Exists
<1> QED
  BY <1>2, <1>3 DEF Usable, Fits

LEMMA SameChoice ==
    ASSUME UNCHANGED <<world, files>>
    PROVE  /\ NamedByDyld' <=> NamedByDyld
           /\ BasePath' = BasePath
           /\ \A n : NoneBefore(n)' <=> NoneBefore(n)
           /\ \A p : IsChosen(p)' <=> IsChosen(p)
<1>1. \A p : Usable(p)' <=> Usable(p)
  BY SameUsable
<1>2. NamedByDyld' <=> NamedByDyld
  BY <1>1 DEF NamedByDyld
<1>3. BasePath' = BasePath
  BY DEF BasePath
<1>4. ASSUME NEW n PROVE NoneBefore(n)' <=> NoneBefore(n)
  BY <1>1, <1>3 DEF NoneBefore
<1>5. ASSUME NEW b PROVE UsableIn(b)' = UsableIn(b) /\ (Offered(b)' <=> Offered(b))
  BY <1>1 DEF UsableIn, Offered
<1>6. ASSUME NEW p PROVE IsFirstChoice(p)' <=> IsFirstChoice(p)
  BY <1>2, <1>5 DEF IsFirstChoice
<1>7. ASSUME NEW p PROVE StopsAtFirst(p)' <=> StopsAtFirst(p)
  BY <1>2, <1>5 DEF StopsAtFirst
<1> QED
  BY <1>2, <1>3, <1>4, <1>6, <1>7 DEF IsChosen

\* A step outside of the block.
LEMMA ChoosingKept ==
    ASSUME Choosing, UNCHANGED <<world, files, changed, cachePath, probe>>,
           once' = once \/ once' # "done",
           \A u \in Threads : pc'[u] \in {"active", "choose", "probe", "check"} => pc'[u] = pc[u]
    PROVE  Choosing'
<1>1. /\ NamedByDyld' <=> NamedByDyld
      /\ BasePath' = BasePath
      /\ \A n : NoneBefore(n)' <=> NoneBefore(n)
      /\ \A p : IsChosen(p)' <=> IsChosen(p)
  BY SameChoice
<1>2. PICK p : p = cachePath
  OBVIOUS
<1>3. PICK n : n = probe
  OBVIOUS
<1>4. NoneBefore(probe)' <=> NoneBefore(probe)
  <2>1. NoneBefore(probe)' <=> NoneBefore(n)'
    BY <1>3 DEF NoneBefore
  <2> QED
    BY <1>1, <1>3, <2>1
<1>5. FirstChoice'
  <2>1. IsChosen(cachePath)' <=> IsChosen(p)'
    BY <1>2 DEF IsChosen, IsFirstChoice, StopsAtFirst
  <2> QED
    BY <1>1, <1>2, <2>1 DEF Choosing, FirstChoice, IsChosen
<1> QED
  BY <1>1, <1>4, <1>5 DEF Choosing

\* The threads that are not in the block say nothing.
LEMMA ChoosingAlone ==
    ASSUME NEW t \in Threads, \A u \in Threads \ {t} : pc'[u] \notin Block,
           FirstChoice',
           pc'[t] = "active" =>
              cachePath' = IF world'.active = None THEN <<>> ELSE <<world'.active>>,
           ~changed' =>
              /\ pc'[t] \in {"choose", "probe", "check"} => ~NamedByDyld'
              /\ pc'[t] \in {"probe", "check"} =>
                    IF BasePath' = <<>> THEN pc'[t] = "probe" /\ probe' > Len(Suffixes)
                    ELSE Head(cachePath') = Head(BasePath') /\ NoneBefore(probe)'
              /\ pc'[t] = "check" => cachePath' = <<Head(BasePath'), Suffixes[probe']>>
    PROVE  Choosing'
<1>1. \A u \in Threads : pc'[u] \in {"active", "choose", "probe", "check"} => u = t
  BY DEF Block
<1> QED
  BY <1>1 DEF Choosing

LEMMA Decides ==
    ASSUME UNCHANGED <<world, files, changed>>, NEW p, cachePath' = p,
           ~changed => IsChosen(p)
    PROVE  FirstChoice'
<1>1. IsChosen(p)' <=> IsChosen(p)
  BY SameChoice
<1>2. IsChosen(cachePath)' <=> IsChosen(p)'
  BY DEF IsChosen, IsFirstChoice, StopsAtFirst
<1> QED
  BY <1>1, <1>2 DEF FirstChoice, IsChosen

\* A step of thread t in the block of RorkHookLocateSharedCache.
LEMMA BlockStep ==
    ASSUME IInv, Choosing, NEW t \in Threads, pc[t] \in Block,
           UNCHANGED <<world, files, changed>>, Locate(t)
    PROVE  Choosing'
<1> USE SuffixesFact DEF Block
<1>1. /\ pc \in [Threads -> Phases] /\ world \in Worlds /\ once = "running" /\ probe \in 0 .. 5
      /\ \A u \in Threads : pc[u] \in Block => u = t
  BY DEF IInv, Types, Location
<1>2. /\ NamedByDyld' <=> NamedByDyld
      /\ BasePath' = BasePath
      /\ \A n : NoneBefore(n)' <=> NoneBefore(n)
  BY SameChoice
<1>3. ASSUME NEW to, pc' = [pc EXCEPT ![t] = to]
      PROVE  pc'[t] = to /\ \A u \in Threads \ {t} : pc'[u] \notin Block
  BY <1>1, <1>3
<1> HIDE DEF Block
<1>4. CASE AskDyld(t)
  <2>1. /\ pc'[t] = "active" /\ \A u \in Threads \ {t} : pc'[u] \notin Block
        /\ cachePath' = IF world.active = None THEN <<>> ELSE <<world.active>>
        /\ once' = "running"
    BY <1>1, <1>3, <1>4 DEF AskDyld, GoTo
  <2>2. FirstChoice'
    BY <2>1 DEF FirstChoice
  <2> QED
    BY <2>1, <2>2, ChoosingAlone
<1>5. CASE CheckActive(t)
  <2>1. pc[t] = "active" /\ cachePath = IF world.active = None THEN <<>> ELSE <<world.active>>
    BY <1>5 DEF CheckActive, LeaveBlock, GoTo, Choosing
  <2>2. CASE /\ LeaveBlock(t, "active") /\ cachePath' = cachePath
             /\ world.active # None /\ Fits(cachePath) /\ IsReadable(cachePath)
    <3>1. pc'[t] = "once" /\ \A u \in Threads \ {t} : pc'[u] \notin Block
      BY <1>3, <2>2 DEF LeaveBlock, GoTo
    <3>2. IsChosen(<<world.active>>) /\ cachePath' = <<world.active>>
      BY <2>1, <2>2, ActiveIsFirst DEF NamedByDyld, Usable
    <3>3. FirstChoice'
      BY <3>2, Decides
    <3> QED
      BY <3>1, <3>3, ChoosingAlone
  <2>3. CASE /\ GoTo(t, "active", "choose") /\ once' = once
             /\ ~(world.active # None /\ Fits(cachePath) /\ IsReadable(cachePath))
    <3>1. pc'[t] = "choose" /\ \A u \in Threads \ {t} : pc'[u] \notin Block
      BY <1>3, <2>3 DEF GoTo
    <3>2. ~NamedByDyld
      BY <2>1, <2>3 DEF NamedByDyld, Usable
    <3>3. FirstChoice'
      BY <1>1, <2>3 DEF FirstChoice
    <3> QED
      BY <1>2, <3>1, <3>2, <3>3, ChoosingAlone
  <2> QED
    BY <1>5, <2>2, <2>3 DEF CheckActive
<1>6. CASE ChooseBase(t)
  <2>1. pc[t] = "choose" /\ (~changed => ~NamedByDyld)
    BY <1>6 DEF ChooseBase, LeaveBlock, GoTo, Choosing
  <2>2. CASE /\ LeaveBlock(t, "choose") /\ cachePath' = <<>>
             /\ world.private /\ ~Fits(BasePath)
    <3>1. pc'[t] = "once" /\ \A u \in Threads \ {t} : pc'[u] \notin Block
      BY <1>3, <2>2 DEF LeaveBlock, GoTo
    <3>2. /\ BasePath = <<"private">>
          /\ \A b \in Bases : IsFirstOffered(b) => b = "private"
      BY <2>2 DEF BasePath, IsFirstOffered, Offered, Ahead, Bases
    <3>3. UsableIn("private") = {}
      BY <1>1, <2>2, <3>2, LongerDoesNotFit DEF UsableIn, Usable
    <3>4. ~changed => IsChosen(<<>>)
      BY <1>1, <2>1, <3>2, <3>3, NoneIsFirst
    <3>5. FirstChoice'
      BY <2>2, <3>4, Decides
    <3> QED
      BY <3>1, <3>5, ChoosingAlone
  <2>3. CASE /\ GoTo(t, "choose", "probe") /\ cachePath' = BasePath /\ once' = once
             /\ probe' = IF BasePath = <<>> THEN Len(Suffixes) + 1 ELSE 1
    <3>1. pc'[t] = "probe" /\ \A u \in Threads \ {t} : pc'[u] \notin Block
      BY <1>3, <2>3 DEF GoTo
    <3>2. BasePath # <<>> => NoneBefore(probe)'
      BY <2>3 DEF NoneBefore
    <3>3. FirstChoice'
      BY <1>1, <2>3 DEF FirstChoice
    <3>4. BasePath = <<>> => probe' > Len(Suffixes)
      BY <2>3
    <3> QED
      BY <1>2, <2>1, <2>3, <3>1, <3>2, <3>3, <3>4, ChoosingAlone
  <2> QED
    BY <1>6, <2>2, <2>3 DEF ChooseBase
<1>7. CASE PutSuffix(t)
  <2>1. /\ pc[t] = "probe" /\ probe \in 1 .. 4
        /\ cachePath' = <<Head(cachePath), Suffixes[probe]>>
        /\ probe' = probe /\ once' = once
    BY <1>7 DEF PutSuffix, GoTo, IInv, Location
  <2>2. pc'[t] = "check" /\ \A u \in Threads \ {t} : pc'[u] \notin Block
    BY <1>3, <1>7 DEF PutSuffix, GoTo
  <2>3. ~changed => /\ ~NamedByDyld /\ BasePath # <<>> /\ Head(cachePath) = Head(BasePath)
                    /\ NoneBefore(probe)
    BY <2>1 DEF Choosing
  <2>4. FirstChoice'
    BY <1>1, <2>1 DEF FirstChoice
  <2>5. Head(cachePath') = Head(cachePath)
    BY <2>1
  <2>6. PICK n : n = probe
    OBVIOUS
  <2>7. ~changed => NoneBefore(probe)'
    <3>1. NoneBefore(probe)' <=> NoneBefore(n)'
      BY <2>1, <2>6 DEF NoneBefore
    <3> QED
      BY <1>2, <2>3, <2>6, <3>1
  <2>8. ~changed => cachePath' = <<Head(BasePath'), Suffixes[probe']>>
    BY <1>2, <2>1, <2>3
  <2> QED
    BY <1>2, <2>2, <2>3, <2>4, <2>5, <2>7, <2>8, ChoosingAlone
<1>8. CASE CheckSuffix(t)
  <2>1. pc[t] = "check" /\ cachePath' = cachePath /\ probe \in DOMAIN Suffixes
    BY <1>8 DEF CheckSuffix, LeaveBlock, GoTo, IInv, Location
  <2>2. ~changed => /\ ~NamedByDyld /\ BasePath # <<>> /\ NoneBefore(probe)
                    /\ cachePath = <<Head(BasePath), Suffixes[probe]>>
                    /\ Head(cachePath) = Head(BasePath)
    BY <2>1 DEF Choosing
  <2>3. CASE LeaveBlock(t, "check") /\ Fits(cachePath) /\ IsReadable(cachePath)
    <3>1. pc'[t] = "once" /\ \A u \in Threads \ {t} : pc'[u] \notin Block
      BY <1>3, <2>3 DEF LeaveBlock, GoTo
    <3>2. PICK p : p = cachePath
      OBVIOUS
    <3>3. ~changed => IsChosen(p)
      BY <1>1, <2>1, <2>2, <2>3, <3>2, SuffixIsFirst DEF Usable
    <3>4. FirstChoice'
      BY <2>1, <3>2, <3>3, Decides
    <3> QED
      BY <3>1, <3>4, ChoosingAlone
  <2>4. CASE /\ GoTo(t, "check", "probe") /\ probe' = probe + 1 /\ once' = once
             /\ ~(Fits(cachePath) /\ IsReadable(cachePath))
    <3>1. pc'[t] = "probe" /\ \A u \in Threads \ {t} : pc'[u] \notin Block
      BY <1>3, <2>4 DEF GoTo
    <3>2. PICK n : n = probe + 1
      OBVIOUS
    <3>3. ~changed => NoneBefore(n)
      BY <2>1, <2>2, <2>4, <3>2 DEF NoneBefore, Usable
    <3>4. NoneBefore(probe)' <=> NoneBefore(n)'
      BY <2>4, <3>2 DEF NoneBefore
    <3>5. ~changed => NoneBefore(probe)'
      BY <1>2, <3>3, <3>4
    <3>6. FirstChoice'
      BY <1>1, <2>4 DEF FirstChoice
    <3> QED
      BY <1>2, <2>1, <2>2, <3>1, <3>5, <3>6, ChoosingAlone
  <2> QED
    BY <1>8, <2>3, <2>4 DEF CheckSuffix
<1>9. CASE NotLocated(t)
  <2>1. pc[t] = "probe" /\ probe > Len(Suffixes) /\ cachePath' = <<>>
    BY <1>9 DEF NotLocated, LeaveBlock, GoTo
  <2>2. pc'[t] = "once" /\ \A u \in Threads \ {t} : pc'[u] \notin Block
    BY <1>3, <1>9 DEF NotLocated, LeaveBlock, GoTo
  <2>3. ~changed => ~NamedByDyld /\ (BasePath # <<>> => NoneBefore(probe))
    BY <2>1 DEF Choosing
  <2>4. ASSUME ~changed, NEW b \in Bases, IsFirstOffered(b)
        PROVE  UsableIn(b) = {}
    <3>1. BasePath # <<>> /\ Head(BasePath) = b
      BY <1>1, <2>4, FirstBase
    <3>2. \A k \in DOMAIN Suffixes : k < probe
      BY <1>1, <2>1
    <3> QED
      BY <2>3, <2>4, <3>1, <3>2 DEF NoneBefore, UsableIn
  <2>5. ~changed => IsChosen(<<>>)
    BY <1>1, <2>3, <2>4, NoneIsFirst
  <2>6. FirstChoice'
    BY <2>1, <2>5, Decides
  <2> QED
    BY <2>2, <2>6, ChoosingAlone
<1> QED
  BY <1>4, <1>5, <1>6, <1>7, <1>8, <1>9 DEF Locate, OnceEnter, OncePass, GoTo, Block

LEMMA ChoosingStep ==
    ASSUME IInv, Choosing, NEW t \in Threads, Step(t)
    PROVE  Choosing'
<1> USE DEF kernel, location, locals, history
<1>1. pc \in [Threads -> Phases]
  BY DEF IInv, Types
<1>2. CASE /\ UNCHANGED <<world, files, changed, cachePath, probe>>
           /\ once' = once \/ once' # "done"
           /\ \E to : /\ to \notin {"active", "choose", "probe", "check"}
                      /\ pc' = [pc EXCEPT ![t] = to]
  BY <1>1, <1>2, ChoosingKept
<1>3. CASE Enter(t) \/ OnceEnter(t) \/ OncePass(t)
  BY <1>2, <1>3 DEF Enter, OnceEnter, OncePass, GoTo
<1>4. CASE pc[t] \in Block /\ Locate(t)
  <2>1. UNCHANGED <<world, files, changed>>
    BY <1>4 DEF Locate, OnceEnter, OncePass, AskDyld, CheckActive, ChooseBase, PutSuffix,
                CheckSuffix, NotLocated
  <2> QED
    BY <1>4, <2>1, BlockStep
<1>5. CASE AskDyld(t) \/ CheckActive(t) \/ ChooseBase(t) \/ PutSuffix(t) \/ CheckSuffix(t)
           \/ NotLocated(t)
  <2>1. pc[t] \in Block
    BY <1>5 DEF AskDyld, CheckActive, ChooseBase, PutSuffix, CheckSuffix, NotLocated,
                LeaveBlock, GoTo, Block
  <2> QED
    BY <1>4, <1>5, <2>1 DEF Locate
<1>6. CASE OpenFails(t) \/ Reject(t) \/ Close(t)
  BY <1>2, <1>6 DEF OpenFails, Reject, Close, MapFileReturns, GoTo
<1>7. CASE Open(t) \/ Stat(t) \/ StatFails(t) \/ Mmap(t) \/ MmapFails(t)
  BY <1>2, <1>7 DEF Open, Stat, StatFails, Mmap, MmapFails, GoTo
<1>8. CASE Sidecar(t) \/ Lookup(t) \/ UnmapSidecar(t) \/ UnmapMain(t)
  BY <1>2, <1>8 DEF Sidecar, Lookup, UnmapSidecar, UnmapMain, GoTo
<1> QED
  BY <1>3, <1>5, <1>6, <1>7, <1>8 DEF Step, Locate, MapFile

\* The path that RorkHookLocateSharedCache decides on is the first in the order
\* of RorkHookSharedCache.h that fits and is readable, if the files did not
\* change while it probed them, whichever of them exist; it decides on none only
\* if there is none, or none in the first location that the process has.
THEOREM LocatesFirstChoice == Spec => []FirstChoice
<1>1. ASSUME Init PROVE Choosing
  BY <1>1 DEF Init, Choosing, FirstChoice
<1>2. ASSUME IInv, Choosing, [Next]_vars PROVE Choosing'
  <2>1. ASSUME NEW t \in Threads, Step(t) PROVE Choosing'
    BY <1>2, <2>1, ChoosingStep
  <2>2. CASE \E path \in DOMAIN files : ReplaceFile(path)
    <3>1. changed' = TRUE /\ UNCHANGED <<world, cachePath, pc>>
      BY <2>2 DEF ReplaceFile, location
    <3> QED
      BY <1>2, <3>1 DEF Choosing, FirstChoice
  <2>3. CASE UNCHANGED vars
    <3>1. UNCHANGED <<world, files, changed, cachePath, probe, once, pc>>
      BY <2>3 DEF vars, kernel, location
    <3> QED
      BY <1>2, <3>1, ChoosingKept
  <2> QED
    BY <1>2, <2>1, <2>2, <2>3 DEF Next
<1>3. Choosing => FirstChoice
  BY DEF Choosing
<1> QED
  BY <1>1, <1>2, <1>3, Invariance, PTL DEF Spec

-----------------------------------------------------------------------------
(* In a cache as it should be, the search finds what is there.             *)

\* A record of a table that is inside of a view can be read.
LEMMA ReadsInTable ==
    ASSUME NEW view, view.size \in Nat, view.size < Limit, NEW base \in Nat,
           NEW k \in Nat, NEW n \in Nat, k < n, NEW S \in Nat, base + n * S <= view.size
    PROVE  ReadsIndexed(view, base, k, S)
<1>1. PICK d : d = k * S
  OBVIOUS
<1>2. PICK m : m = n * S
  OBVIOUS
<1>3. d \in Nat /\ m \in Nat /\ d + S <= m
  BY <1>1, <1>2, RecordInTable
<1>4. Limit \in Nat
  BY LayoutAssumption
<1>5. d < Limit /\ base + d < Limit /\ base + d <= view.size /\ S <= view.size - (base + d)
  BY <1>2, <1>3, <1>4
<1> QED
  BY <1>1, <1>5 DEF ReadsIndexed, DataAt

LEMMA WellMadeImages ==
    ASSUME NEW q, IsQuery(q), WellMade(q), NEW k \in Nat, k < imagesCount(q)
    PROVE  SearchesImages(q) /\ ReachesImage(q, k)
<1>1. /\ imagesOffset(q) \in Nat /\ imagesCount(q) \in Nat /\ ImageInfoSize \in Nat
      /\ q.main.size \in Nat /\ q.symbols.size \in Nat /\ q.main.size < Limit
      /\ Whole(q.main).size = q.main.size /\ Limit \in Nat /\ HeaderSize \in Nat
  BY QueryFacts
<1>2. /\ \A f \in {q.main, q.symbols} : f.magic /\ HeaderSize <= f.size
      /\ imagesOffset(q) # 0
      /\ imagesOffset(q) + imagesCount(q) * ImageInfoSize <= q.main.size
  BY DEF WellMade
<1>3. HeadersRead(q)
  BY <1>1, <1>2 DEF HeadersRead, DataAt, Whole
<1>4. PICK n \in Nat : n = imagesCount(q) * ImageInfoSize
  BY <1>1
<1>5. n < Limit /\ imagesOffset(q) <= q.main.size /\ n <= q.main.size - imagesOffset(q)
  BY <1>1, <1>2, <1>4
<1>6. ImageTableFits(q)
  BY <1>1, <1>2, <1>4, <1>5 DEF ImageTableFits, DataAt
<1>7. ASSUME NEW j \in 0 .. k
      PROVE  ReadsIndexed(Whole(q.main), imagesOffset(q), j, ImageInfoSize)
  <2>1. j \in Nat /\ j < imagesCount(q)
    BY <1>1
  <2> QED
    BY <1>1, <1>2, <2>1, ReadsInTable
<1> QED
  BY <1>3, <1>6, <1>7 DEF SearchesImages, ReachesImage

\* The end of the region of local symbols.
LEMMA WellMadeRegion ==
    ASSUME NEW q, IsQuery(q), WellMade(q)
    PROVE  LET base == q.symbols.localSymbolsOffset
               info == symbolsInfo(q)
           IN  /\ LocalFits(q) /\ InfoRead(q) /\ localSize(q) \in Nat
               /\ info.entriesOffset + info.entriesCount * entrySize(q) <= localSize(q)
               /\ info.nlistOffset + info.nlistCount * NListSize <= localSize(q)
               /\ info.stringsOffset + info.stringsSize <= localSize(q)
<1> DEFINE base == q.symbols.localSymbolsOffset
           info == symbolsInfo(q)
<1>1. PICK end : end = IF q.symbols.localSymbolsSize = 0 THEN q.symbols.size
                       ELSE base + q.symbols.localSymbolsSize
  OBVIOUS
<1>2. PICK E : E = info.entriesCount * entrySize(q)
  OBVIOUS
<1>3. PICK N : N = info.nlistCount * NListSize
  OBVIOUS
<1>4. /\ base \in Nat /\ q.symbols.localSymbolsSize \in Nat /\ q.symbols.size \in Nat
      /\ InfoSize \in Nat /\ info.entriesOffset \in Nat /\ info.nlistOffset \in Nat
      /\ info.stringsOffset \in Nat /\ info.stringsSize \in Nat
      /\ localView(q).size = localSize(q)
  BY QueryFacts, InfoFacts, HeaderFacts DEF IsQuery
<1>5. info.entriesCount \in Nat /\ info.nlistCount \in Nat /\ NListSize \in Nat /\ entrySize(q) \in Nat
  BY QueryFacts, InfoFacts
<1>6. E \in Nat /\ N \in Nat
  BY <1>2, <1>3, <1>5
<1>7. InfoOf(q) = info /\ entrySize(q) = IF uses64BitEntry(q) THEN Entry64Size ELSE Entry32Size
  BY TablesMean DEF entrySize
<1>8. /\ base # 0 /\ base + InfoSize <= end /\ end <= q.symbols.size
      /\ base + info.entriesOffset + E <= end
      /\ base + info.nlistOffset + N <= end
      /\ base + info.stringsOffset + info.stringsSize <= end
  BY <1>1, <1>2, <1>3, <1>7 DEF WellMade
<1>9. localSize(q) = end - base
  BY <1>1, <1>4 DEF localSize
<1>10. end \in Nat
  BY <1>1, <1>4
<1> HIDE DEF base, info
<1>11. /\ localSize(q) \in Nat /\ InfoSize <= localSize(q)
       /\ base <= q.symbols.size /\ localSize(q) <= q.symbols.size - base
       /\ info.entriesOffset + E <= localSize(q)
       /\ info.nlistOffset + N <= localSize(q)
       /\ info.stringsOffset + info.stringsSize <= localSize(q)
  BY <1>4, <1>6, <1>8, <1>9, <1>10
<1>12. LocalFits(q)
  BY <1>8, <1>11 DEF LocalFits, base
<1>13. InfoRead(q)
  BY <1>4, <1>11 DEF InfoRead, DataAt
<1> QED
  BY <1>2, <1>3, <1>11, <1>12, <1>13 DEF info

LEMMA WellMadeSymbols ==
    ASSUME NEW q, IsQuery(q), WellMade(q), NEW k \in Nat, k < imagesCount(q)
    PROVE  SearchesSymbols(q, k)
<1> DEFINE info == symbolsInfo(q)
<1>1. /\ LocalFits(q) /\ InfoRead(q) /\ localSize(q) \in Nat
      /\ info.entriesOffset + info.entriesCount * entrySize(q) <= localSize(q)
      /\ info.nlistOffset + info.nlistCount * NListSize <= localSize(q)
      /\ info.stringsOffset + info.stringsSize <= localSize(q)
  BY WellMadeRegion
<1>2. /\ localView(q).size = localSize(q) /\ localSize(q) < Limit /\ Limit \in Nat
      /\ info.entriesOffset \in Nat /\ info.entriesCount \in Nat /\ entrySize(q) \in Nat
      /\ info.nlistOffset \in Nat /\ info.nlistCount \in Nat /\ NListSize \in Nat
      /\ info.stringsOffset \in Nat /\ info.stringsSize \in Nat
  BY <1>1, QueryFacts, InfoFacts, LocalFacts
<1>3. imagesCount(q) \in Nat /\ InfoOf(q) = info /\ entry(q, k) = EntryOf(q, k)
  BY QueryFacts, TablesMean
<1>4. k < info.entriesCount /\ RangeFits(q, entry(q, k))
  <2>1. k \in 0 .. imagesCount(q) - 1
    BY <1>3
  <2> QED
    BY <1>2, <1>3, <2>1 DEF WellMade, RangeFits
<1>5. EntryRead(q, k)
  BY <1>1, <1>2, <1>4, ReadsInTable DEF EntryRead
<1>6. PICK N \in Nat : N = info.nlistCount * NListSize
  BY <1>2
<1> HIDE DEF info
<1>7. N < Limit /\ info.nlistOffset <= localSize(q) /\ N <= localSize(q) - info.nlistOffset
  BY <1>1, <1>2, <1>6
<1>8. info.stringsOffset <= localSize(q) /\ info.stringsSize <= localSize(q) - info.stringsOffset
  BY <1>1, <1>2
<1>9. TablesFit(q)
  BY <1>2, <1>6, <1>7, <1>8 DEF TablesFit, DataAt, info
<1> QED
  BY <1>1, <1>4, <1>5, <1>9, WellMadeImages DEF SearchesSymbols

LEMMA FirstImageIsFound ==
    ASSUME NEW q, IsQuery(q), WellMade(q), NEW k, IsFirstImage(q, k)
    PROVE  FoundImage(q) = {k} /\ SearchesSymbols(q, k)
<1>1. /\ k \in 0 .. imagesCount(q) - 1 /\ HasPath(q, k)
      /\ \A j \in 0 .. k - 1 : ~HasPath(q, j)
  BY DEF IsFirstImage
<1>2. imagesCount(q) \in Nat
  BY QueryFacts
<1>3. k \in Nat /\ k < imagesCount(q)
  BY <1>1, <1>2
<1>4. SearchesImages(q) /\ SearchesSymbols(q, k)
  BY <1>3, WellMadeImages, WellMadeSymbols
<1>5. \A j : IsImage(q, j) <=> HasPath(q, j)
  BY IsImageMeans
<1>6. k \in ImageMatches(q) /\ \A j \in ImageMatches(q) : k <= j
  BY <1>1, <1>2, <1>5 DEF ImageMatches
<1>7. ImageMatches(q) \subseteq Nat
  BY <1>2 DEF ImageMatches
<1>8. FirstOf(ImageMatches(q)) = {k}
  BY <1>6, <1>7 DEF FirstOf
<1> QED
  BY <1>4, <1>8 DEF FoundImage

LEMMA FirstSymbolIsFound ==
    ASSUME NEW q, IsQuery(q), NEW k, SearchesSymbols(q, k), NEW j, IsSymbolOf(q, k, j)
    PROVE  FirstOf(SymbolMatches(q, entry(q, k))) = {j}
<1>1. PICK e : e = entry(q, k)
  OBVIOUS
<1>2. e.nlistStartIndex \in Nat /\ e.nlistCount \in Nat
  BY <1>1, EntryFacts
<1>3. EntryOf(q, k) = e
  BY <1>1, TablesMean
<1>4. /\ j \in Indices(e) /\ HasName(q, j)
      /\ \A i \in e.nlistStartIndex .. j - 1 : ~HasName(q, i)
  BY <1>3 DEF IsSymbolOf, Indices
<1>5. \A i \in Indices(e) : i \in Nat /\ i < symbolsInfo(q).nlistCount
  BY <1>1, SearchFacts
<1>6. \A i \in Indices(e) : IsSymbol(q, i) <=> HasName(q, i)
  BY <1>5, IsSymbolMeans
<1>7. j \in SymbolMatches(q, e) /\ SymbolMatches(q, e) \subseteq Nat
  BY <1>4, <1>5, <1>6 DEF SymbolMatches
<1>8. ASSUME NEW i \in SymbolMatches(q, e)
      PROVE  j <= i
  <2>1. i \in Indices(e) /\ HasName(q, i)
    BY <1>6 DEF SymbolMatches
  <2>2. i \notin e.nlistStartIndex .. j - 1
    BY <1>4, <2>1
  <2> QED
    BY <1>2, <1>4, <1>5, <2>1, <2>2 DEF Indices
<1>9. FirstOf(SymbolMatches(q, e)) = {j}
  BY <1>7, <1>8 DEF FirstOf
<1> QED
  BY <1>1, <1>9

LEMMA SearchFinds ==
    ASSUME NEW q, IsQuery(q), WellMade(q), q.slide \in Nat, NEW k, NEW j,
           IsFirstImage(q, k), IsSymbolOf(q, k, j), q.slide + SymbolAt(q, j).value < Limit
    PROVE  FindSharedCacheSymbolInData(q).addr = q.slide + SymbolAt(q, j).value
<1>1. FoundImage(q) = {k} /\ SearchesSymbols(q, k)
  BY FirstImageIsFound
<1>2. FirstOf(SymbolMatches(q, entry(q, k))) = {j}
  BY <1>1, FirstSymbolIsFound
<1>3. FoundSymbol(q) = {j}
  BY <1>1, <1>2 DEF FoundSymbol
<1>4. PICK v \in Nat : v = Symbol(q, j).value
  BY SymbolFacts
<1>5. Pointers(q) = {Slid(q, v)}
  BY <1>3, <1>4 DEF Pointers
<1>6. FindSharedCacheSymbolInData(q) = Slid(q, v)
  BY <1>5 DEF FindSharedCacheSymbolInData
<1>7. v = SymbolAt(q, j).value
  BY <1>4, TablesMean
<1>8. ~(v > Limit - 1 - q.slide)
  BY <1>4, <1>7, LayoutAssumption
<1>9. Slid(q, v) = SignPointerIfExecutable(q.slide + v)
  BY <1>8 DEF Slid
<1> QED
  BY <1>6, <1>7, <1>9 DEF SignPointerIfExecutable

-----------------------------------------------------------------------------
(* Descriptors and addresses do not run out when there are enough for all. *)

\* One descriptor and two mappings for every thread.
EnoughForAll == /\ IsFiniteSet(Threads)
                /\ Cardinality(Threads) <= Cardinality(Fds)
                /\ 2 * Cardinality(Threads) <= Cardinality(Addresses)

LEMMA Pigeonhole ==
    ASSUME NEW S, IsFiniteSet(S), NEW T, NEW f \in [S -> T], \A y \in T : \E x \in S : f[x] = y
    PROVE  IsFiniteSet(T) /\ Cardinality(T) <= Cardinality(S)
<1>1. f \in Surjection(S, T)
  BY DEF Surjection
<1> QED
  BY <1>1, FS_Surjection

\* The values that f takes on a finite set.
LEMMA ValuesAreFew ==
    ASSUME NEW S, IsFiniteSet(S), NEW f, NEW T, T \subseteq {f[x] : x \in S}
    PROVE  IsFiniteSet(T) /\ Cardinality(T) <= Cardinality(S)
<1> DEFINE R == {x \in S : f[x] \in T}
           g == [x \in R |-> f[x]]
<1>1. R \in SUBSET S
  OBVIOUS
<1>2. IsFiniteSet(R) /\ Cardinality(R) <= Cardinality(S)
  BY <1>1, FS_Subset
<1>3. g \in [R -> T] /\ \A y \in T : \E x \in R : g[x] = y
  OBVIOUS
<1>4. IsFiniteSet(T) /\ Cardinality(T) <= Cardinality(R)
  BY <1>2, <1>3, Pigeonhole
<1>5. Cardinality(R) \in Nat /\ Cardinality(S) \in Nat /\ Cardinality(T) \in Nat
  BY <1>2, <1>4, FS_CardinalityType
<1> HIDE DEF R
<1> QED
  BY <1>2, <1>4, <1>5

LEMMA OneLess ==
    ASSUME IsFiniteSet(Threads), NEW t \in Threads
    PROVE  /\ IsFiniteSet(Threads \ {t}) /\ Cardinality(Threads) \in Nat
           /\ Cardinality(Threads \ {t}) = Cardinality(Threads) - 1
BY FS_RemoveElement, FS_CardinalityType

LEMMA SomeFdIsFree ==
    ASSUME EnoughForAll, IInv, NEW t \in Threads, pc[t] \notin HoldsFd
    PROVE  \E d \in Fds : open[d] = None
<1> SUFFICES ASSUME \A d \in Fds : open[d] # None
             PROVE  FALSE
  OBVIOUS
<1>1. fd[t] = None
  BY DEF IInv, Descriptors
<1>2. ASSUME NEW d \in Fds
      PROVE  \E u \in Threads \ {t} : fd[u] = d
  BY <1>1, KernelAssumption DEF IInv, Descriptors
<1>3. Fds \subseteq {fd[u] : u \in Threads \ {t}}
  BY <1>2
<1>4. IsFiniteSet(Threads)
  BY DEF EnoughForAll
<1>5. IsFiniteSet(Fds) /\ Cardinality(Fds) <= Cardinality(Threads \ {t})
  BY <1>3, <1>4, OneLess, ValuesAreFew
<1>6. Cardinality(Fds) \in Nat
  BY <1>5, FS_CardinalityType
<1>7. /\ Cardinality(Threads) \in Nat
      /\ Cardinality(Threads \ {t}) = Cardinality(Threads) - 1
  BY <1>4, OneLess
<1>8. Cardinality(Threads) <= Cardinality(Fds)
  BY DEF EnoughForAll
<1> QED
  BY <1>5, <1>6, <1>7, <1>8

LEMMA SomeAddressIsFree ==
    ASSUME EnoughForAll, IInv, NEW t \in Threads, pc[t] = "map"
    PROVE  \E a \in Addresses : memory[a] = None
<1> SUFFICES ASSUME \A a \in Addresses : memory[a] # None
             PROVE  FALSE
  OBVIOUS
<1> DEFINE others == Threads \ {t}
           A == {mapping[u]["main"] : u \in others}
           B == {mapping[u]["symbols"] : u \in others}
           C == {mapping[t]["main"]}
<1>1. t \notin WithSide
  BY DEF WithSide
<1>2. WithMain \subseteq Threads /\ WithSide \subseteq Threads
  BY HoldersAreThreads
<1>3. ASSUME NEW a \in Addresses
      PROVE  a \in A \union B \union C
  <2>1. \/ \E u \in WithMain : mapping[u]["main"] = a
        \/ \E u \in WithSide : mapping[u]["symbols"] = a
    BY DEF IInv, Mappings
  <2> QED
    BY <1>1, <1>2, <2>1
<1>4. IsFiniteSet(others) /\ Cardinality(Threads) \in Nat
      /\ Cardinality(others) = Cardinality(Threads) - 1
  BY OneLess DEF EnoughForAll
<1>5. IsFiniteSet(A) /\ Cardinality(A) <= Cardinality(others)
  <2> DEFINE f == [u \in others |-> mapping[u]["main"]]
  <2>1. A \subseteq {f[u] : u \in others}
    OBVIOUS
  <2> HIDE DEF f, A, others
  <2> QED
    BY <1>4, <2>1, ValuesAreFew
<1>6. IsFiniteSet(B) /\ Cardinality(B) <= Cardinality(others)
  <2> DEFINE f == [u \in others |-> mapping[u]["symbols"]]
  <2>1. B \subseteq {f[u] : u \in others}
    OBVIOUS
  <2> HIDE DEF f, B, others
  <2> QED
    BY <1>4, <2>1, ValuesAreFew
<1>7. IsFiniteSet(C) /\ Cardinality(C) = 1
  BY FS_Singleton
<1> HIDE DEF A, B, C, others
<1>8. IsFiniteSet(A \union B) /\ Cardinality(A \union B) <= Cardinality(A) + Cardinality(B)
  <2>1. /\ IsFiniteSet(A \union B)
        /\ Cardinality(A \union B) = Cardinality(A) + Cardinality(B) - Cardinality(A \intersect B)
    BY <1>5, <1>6, FS_Union
  <2>2. IsFiniteSet(A \intersect B)
    BY <1>5, FS_Subset
  <2>3. /\ Cardinality(A \intersect B) \in Nat /\ Cardinality(A) \in Nat /\ Cardinality(B) \in Nat
    BY <1>5, <1>6, <2>2, FS_CardinalityType
  <2> QED
    BY <2>1, <2>3
<1>9. IsFiniteSet((A \union B) \union C)
      /\ Cardinality((A \union B) \union C) <= Cardinality(A \union B) + 1
  <2>1. PICK x : C = {x}
    BY DEF C
  <2>2. Cardinality(A \union B) \in Nat
    BY <1>8, FS_CardinalityType
  <2>3. PICK S : S = A \union B
    OBVIOUS
  <2>4. /\ IsFiniteSet(S \union {x})
        /\ Cardinality(S \union {x}) = IF x \in S THEN Cardinality(S) ELSE Cardinality(S) + 1
    BY <1>8, <2>3, FS_AddElement
  <2> QED
    BY <2>1, <2>2, <2>3, <2>4
<1>10. IsFiniteSet(Addresses) /\ Cardinality(Addresses) <= Cardinality((A \union B) \union C)
  <2>1. Addresses \in SUBSET ((A \union B) \union C)
    BY <1>3
  <2> QED
    BY <1>9, <2>1, FS_Subset
<1>11. /\ Cardinality(A) \in Nat /\ Cardinality(B) \in Nat /\ Cardinality(Addresses) \in Nat
       /\ Cardinality(A \union B) \in Nat /\ Cardinality((A \union B) \union C) \in Nat
  BY <1>5, <1>6, <1>8, <1>9, <1>10, FS_CardinalityType
<1> QED
  BY <1>4, <1>5, <1>6, <1>8, <1>9, <1>10, <1>11 DEF EnoughForAll

-----------------------------------------------------------------------------
(* What the threads know about the sidecar.                                *)

\* There is a sidecar that thread t should find.
HasSide(t) == LET side == symbolsPath(t)
              IN  Fits(side) /\ IsReadable(side) /\ IsMappable(files[side])

\* Thread t took the sidecar that is there, if one is.
SideFound(t) == /\ hasSidecar[t] <=> HasSide(t)
                /\ hasSidecar[t] => opened[t]["symbols"] = files[symbolsPath(t)]

Searched(t) == SideFound(t) /\ result[t] = FindSharedCacheSymbolInData(Asked(t))

\* Thread t has begun to map files.
MapsFiles(t) == pc[t] \notin BeforeMap /\ (pc[t] = "returned" => opened[t]["main"] # None)

\* The call, and then the path that it is about, are settled.
Settled(t) ==
    /\ pc[t] \in BeforeMap \/ (pc[t] = "open" /\ role[t] = "main") => opened[t]["main"] = None
    /\ MapsFiles(t) /\ Call(t).op # "atPath" => once = "done"
    /\ pc[t] = "idle" \/ Call(t) # None

\* What thread t knows about the two files at each step.
Progress(t) ==
    /\ pc[t] = "open" /\ role[t] = "symbols" => Fits(symbolsPath(t))
    /\ pc[t] \in HoldsFd /\ role[t] = "symbols" =>
          /\ Fits(symbolsPath(t)) /\ IsReadable(symbolsPath(t))
          /\ opened[t]["symbols"] = files[symbolsPath(t)]
    /\ pc[t] \in {"map", "close"} => IsMappable(opened[t][role[t]])
    /\ pc[t] = "reject" => ~IsMappable(opened[t][role[t]])
    /\ pc[t] = "lookup" => SideFound(t)
    /\ pc[t] \in {"unmap", "unmapMain"} => Searched(t)
    /\ (pc[t] = "returned" /\ opened[t]["main"] # None /\ IsMappable(opened[t]["main"])) =>
          Searched(t)

Sidecars ==
    \A t \in Threads : Settled(t) /\ (~changed /\ ~world.faults => Progress(t))

LEMMA SameSide ==
    ASSUME UNCHANGED <<world, files>>, NEW t, symbolsPath(t)' = symbolsPath(t)
    PROVE  /\ Fits(symbolsPath(t))' <=> Fits(symbolsPath(t))
           /\ IsReadable(symbolsPath(t))' <=> IsReadable(symbolsPath(t))
           /\ files'[symbolsPath(t)'] = files[symbolsPath(t)]
           /\ HasSide(t)' <=> HasSide(t)
<1>1. PICK p : p = symbolsPath(t)
  OBVIOUS
<1>2. ASSUME NEW piece PROVE PieceLength(piece)' = PieceLength(piece)
  BY DEF PieceLength
<1>3. Fits(p)' <=> Fits(p)
  BY <1>2 DEF Fits, PathLength
<1>4. Fits(symbolsPath(t))' <=> Fits(p)'
  BY <1>1 DEF Fits, PathLength
<1>5. Fits(symbolsPath(t))' <=> Fits(symbolsPath(t))
  BY <1>1, <1>3, <1>4
<1>6. IsReadable(symbolsPath(t))' <=> IsReadable(symbolsPath(t))
  BY DEF IsReadable, Exists
<1>7. files'[symbolsPath(t)'] = files[symbolsPath(t)]
  OBVIOUS
<1> QED
  BY <1>5, <1>6, <1>7 DEF HasSide

LEMMA SameAsked ==
    ASSUME world' = world, NEW t, hasSidecar'[t] = hasSidecar[t],
           opened'[t]["main"] = opened[t]["main"], opened'[t]["symbols"] = opened[t]["symbols"]
    PROVE  Asked(t)' = Asked(t)
BY DEF Asked, Query, Call, SharedCacheSlide, SlideIsPublished

LEMMA SameSearched ==
    ASSUME UNCHANGED <<world, files>>, NEW t, symbolsPath(t)' = symbolsPath(t),
           hasSidecar'[t] = hasSidecar[t],
           opened'[t]["main"] = opened[t]["main"], opened'[t]["symbols"] = opened[t]["symbols"]
    PROVE  /\ SideFound(t) => SideFound(t)'
           /\ result'[t] = result[t] /\ Searched(t) => Searched(t)'
<1>1. SideFound(t) => SideFound(t)'
  BY SameSide DEF SideFound
<1>2. ASSUME result'[t] = result[t], Searched(t)
      PROVE  Searched(t)'
  <2>1. PICK q : q = Asked(t)
    OBVIOUS
  <2>2. Asked(t)' = q
    BY <2>1, SameAsked
  <2>3. result'[t] = FindSharedCacheSymbolInData(q)
    BY <1>2, <2>1 DEF Searched
  <2> QED
    BY <1>1, <1>2, <2>2, <2>3 DEF Searched
<1> QED
  BY <1>1, <1>2

\* Thread t is where it was and has what it had.
Untouched(t) ==
    /\ pc'[t] = pc[t] /\ role'[t] = role[t] /\ hasSidecar'[t] = hasSidecar[t]
    /\ opened'[t]["main"] = opened[t]["main"] /\ opened'[t]["symbols"] = opened[t]["symbols"]
    /\ result'[t] = result[t]

LEMMA ProgressKept ==
    ASSUME UNCHANGED <<world, files>>, NEW t \in Threads, role[t] \in Roles, Untouched(t),
           MapsFiles(t) => symbolsPath(t)' = symbolsPath(t), Progress(t)
    PROVE  Progress(t)'
<1>1. CASE ~MapsFiles(t)
  BY <1>1 DEF Progress, MapsFiles, Untouched, BeforeMap, Block, HoldsFd
<1>2. CASE MapsFiles(t)
  <2>1. opened'[t][role'[t]] = opened[t][role[t]]
    BY DEF Untouched, Roles
  <2>2. /\ Fits(symbolsPath(t))' <=> Fits(symbolsPath(t))
        /\ IsReadable(symbolsPath(t))' <=> IsReadable(symbolsPath(t))
        /\ files'[symbolsPath(t)'] = files[symbolsPath(t)]
    BY <1>2, SameSide
  <2>3. (SideFound(t) => SideFound(t)') /\ (Searched(t) => Searched(t)')
    BY <1>2, SameSearched DEF Untouched
  <2> QED
    BY <2>1, <2>2, <2>3 DEF Progress, Untouched
<1> QED
  BY <1>1, <1>2

LEMMA SettledKept ==
    ASSUME world' = world, once = "done" => once' = "done", NEW t \in Threads, Untouched(t), Settled(t)
    PROVE  Settled(t)'
BY DEF Settled, MapsFiles, Untouched, Call

\* A step of t changes nothing of the others, and not the path once it is
\* decided.
LEMMA StepFrame ==
    ASSUME IInv, DOMAIN result = Threads, NEW t \in Threads, Step(t)
    PROVE  /\ UNCHANGED <<world, files, changed>>
           /\ once = "done" => once' = "done" /\ cachePath' = cachePath
           /\ \A u \in Threads \ {t} : Untouched(u)
<1> USE DEF kernel, location, locals, history, Untouched
<1>1. pc \in [Threads -> Phases] /\ hasSidecar \in [Threads -> BOOLEAN] /\ role \in [Threads -> Roles]
      /\ Types
  BY DEF IInv, Types
<1>2. pc[t] \in Block => once # "done"
  BY DEF IInv, Location
<1>3. CASE Enter(t) \/ OnceEnter(t) \/ OncePass(t)
  BY <1>1, <1>3 DEF Enter, OnceEnter, OncePass, GoTo
<1>4. CASE AskDyld(t) \/ CheckActive(t) \/ ChooseBase(t) \/ PutSuffix(t) \/ CheckSuffix(t)
           \/ NotLocated(t)
  <2>1. pc[t] \in Block
    BY <1>4 DEF AskDyld, CheckActive, ChooseBase, PutSuffix, CheckSuffix, NotLocated,
                LeaveBlock, GoTo, Block
  <2>2. /\ UNCHANGED <<world, files, changed, role, hasSidecar, opened, result>>
        /\ \E to : pc' = [pc EXCEPT ![t] = to]
    BY <1>4 DEF AskDyld, CheckActive, ChooseBase, PutSuffix, CheckSuffix, NotLocated,
                LeaveBlock, GoTo
  <2> QED
    BY <1>1, <1>2, <2>1, <2>2
<1>5. CASE OpenFails(t) \/ Reject(t) \/ Close(t)
  <2>1. /\ UNCHANGED <<world, files, changed, role, opened, result, once, cachePath>>
        /\ \E to : pc' = [pc EXCEPT ![t] = to]
        /\ hasSidecar' = hasSidecar \/ \E b : hasSidecar' = [hasSidecar EXCEPT ![t] = b]
    BY <1>5 DEF OpenFails, Reject, Close, MapFileReturns, GoTo
  <2> QED
    BY <1>1, <2>1
<1>6. CASE Open(t)
  <2>1. /\ UNCHANGED <<world, files, changed, role, hasSidecar, result, once, cachePath>>
        /\ pc' = [pc EXCEPT ![t] = "stat"]
    BY <1>6 DEF Open, GoTo
  <2>2. \A u \in Threads \ {t} : /\ opened'[u]["main"] = opened[u]["main"]
                                 /\ opened'[u]["symbols"] = opened[u]["symbols"]
    BY <1>1, <1>6, OpenEffect DEF Roles
  <2> QED
    BY <1>1, <2>1, <2>2
<1>7. CASE Stat(t) \/ StatFails(t) \/ Mmap(t) \/ MmapFails(t)
  BY <1>1, <1>7 DEF Stat, StatFails, Mmap, MmapFails, GoTo
<1>8. CASE Sidecar(t)
  BY <1>1, <1>8 DEF Sidecar, GoTo
<1>9. CASE Lookup(t)
  BY <1>1, <1>9 DEF Lookup, GoTo
<1>10. CASE UnmapSidecar(t) \/ UnmapMain(t)
  BY <1>1, <1>10 DEF UnmapSidecar, UnmapMain, GoTo
<1> QED
  BY <1>3, <1>4, <1>5, <1>6, <1>7, <1>8, <1>9, <1>10 DEF Step, Locate, MapFile

LEMMA OthersGoOn ==
    ASSUME IInv, DOMAIN result = Threads, Sidecars, NEW t \in Threads, Step(t),
           NEW u \in Threads \ {t}
    PROVE  Settled(u)' /\ (~changed' /\ ~world'.faults => Progress(u)')
<1>1. /\ UNCHANGED <<world, files, changed>> /\ Untouched(u)
      /\ once = "done" => once' = "done" /\ cachePath' = cachePath
  BY StepFrame
<1>2. Settled(u) /\ (~changed /\ ~world.faults => Progress(u))
  BY DEF Sidecars
<1>3. Settled(u)'
  BY <1>1, <1>2, SettledKept
<1>4. MapsFiles(u) => symbolsPath(u)' = symbolsPath(u)
  BY <1>1, <1>2 DEF Settled, symbolsPath, mainPath, Call
<1>5. role[u] \in Roles
  BY DEF IInv, Types
<1> QED
  BY <1>1, <1>2, <1>3, <1>4, <1>5, ProgressKept

LEMMA StillSettled ==
    ASSUME NEW t \in Threads, Settled(t), pc[t] \notin BeforeMap \union {"returned"},
           pc'[t] \notin BeforeMap, pc'[t] = "open" => role'[t] = "symbols",
           UNCHANGED <<world, once>>
    PROVE  Settled(t)'
BY DEF Settled, MapsFiles, Call, BeforeMap

\* A step of t before it maps anything.
LEMMA EarlyStep ==
    ASSUME IInv, NEW t \in Threads, Enter(t) \/ Locate(t), Settled(t)
    PROVE  Settled(t)' /\ Progress(t)'
<1> USE DEF kernel, location, locals, history
<1>1. pc \in [Threads -> Phases] /\ pc[t] \in BeforeMap
  BY DEF IInv, Types, Enter, Locate, OnceEnter, OncePass, AskDyld, CheckActive, ChooseBase,
         PutSuffix, CheckSuffix, NotLocated, LeaveBlock, GoTo, BeforeMap, Block
<1>2. /\ UNCHANGED <<world, role, opened>> /\ role[t] = "main" /\ opened[t]["main"] = None
  BY <1>1 DEF IInv, Roleplay, Settled, Enter, Locate, OnceEnter, OncePass, AskDyld, CheckActive,
              ChooseBase, PutSuffix, CheckSuffix, NotLocated
<1>0. Call(t) # None /\ Call(t)' = Call(t)
  <2>1. CASE Enter(t)
    BY <1>2, <2>1 DEF Enter, Call
  <2>2. CASE Locate(t)
    <3>1. pc[t] # "idle"
      BY <2>2 DEF Locate, OnceEnter, OncePass, AskDyld, CheckActive, ChooseBase, PutSuffix,
                  CheckSuffix, NotLocated, LeaveBlock, GoTo
    <3> QED
      BY <1>2, <3>1 DEF Settled, Call
  <2> QED
    BY <2>1, <2>2
<1>3. CASE pc'[t] \in BeforeMap
  BY <1>0, <1>2, <1>3 DEF Settled, MapsFiles, Progress, BeforeMap, Block, HoldsFd
<1>4. CASE pc'[t] = "returned"
  BY <1>0, <1>2, <1>4 DEF Settled, MapsFiles, Progress, BeforeMap, Block, HoldsFd
<1>5. CASE pc'[t] = "open" /\ (Call(t).op # "atPath" => once' = "done")
  BY <1>0, <1>2, <1>5 DEF Settled, MapsFiles, Progress, BeforeMap, Block, HoldsFd
<1>6. CASE Enter(t)
  BY <1>1, <1>3, <1>4, <1>5, <1>6 DEF Enter, GoTo, BeforeMap
<1>7. CASE OncePass(t)
  BY <1>1, <1>4, <1>5, <1>7 DEF OncePass, GoTo
<1>8. CASE OnceEnter(t) \/ AskDyld(t) \/ PutSuffix(t)
  BY <1>1, <1>3, <1>8 DEF OnceEnter, AskDyld, PutSuffix, GoTo, BeforeMap, Block
<1>9. CASE CheckActive(t) \/ ChooseBase(t) \/ CheckSuffix(t) \/ NotLocated(t)
  BY <1>1, <1>3, <1>9
  DEF CheckActive, ChooseBase, CheckSuffix, NotLocated, LeaveBlock, GoTo, BeforeMap, Block
<1> QED
  BY <1>6, <1>7, <1>8, <1>9 DEF Locate

\* A step of t while it maps a file.
LEMMA MapStep ==
    ASSUME EnoughForAll, IInv, NEW t \in Threads, MapFile(t), Settled(t),
           ~changed /\ ~world.faults => Progress(t)
    PROVE  Settled(t)' /\ (~changed' /\ ~world'.faults => Progress(t)')
<1> USE DEF kernel, location, locals, history
<1>1. pc \in [Threads -> Phases] /\ hasSidecar \in [Threads -> BOOLEAN] /\ Types
      /\ (role[t] = "main" \/ role[t] = "symbols")
  BY DEF IInv, Types, Roles
<1>2. UNCHANGED <<world, files, changed, once, cachePath, role>>
  BY DEF MapFile, Open, OpenFails, Stat, StatFails, Reject, Mmap, MmapFails, Close
<1>3. symbolsPath(t)' = symbolsPath(t)
  BY <1>2 DEF symbolsPath, mainPath, Call
<1>4. /\ Fits(symbolsPath(t))' <=> Fits(symbolsPath(t))
      /\ IsReadable(symbolsPath(t))' <=> IsReadable(symbolsPath(t))
      /\ files'[symbolsPath(t)'] = files[symbolsPath(t)]
      /\ HasSide(t)' <=> HasSide(t)
  BY <1>2, <1>3, SameSide
<1>5. CASE Open(t)
  <2>1. pc[t] = "open" /\ pc'[t] = "stat" /\ IsReadable(PathToMap(t))
    BY <1>1, <1>5 DEF Open, GoTo
  <2>2. role[t] = "symbols" => /\ opened'[t]["symbols"] = files[symbolsPath(t)]
                               /\ IsReadable(symbolsPath(t))
    BY <1>1, <1>5, <2>1, OpenEffect DEF PathToMap, Roles
  <2>3. Settled(t)'
    BY <1>2, <2>1, StillSettled DEF BeforeMap, Block
  <2>4. ASSUME Progress(t) PROVE Progress(t)'
    BY <1>2, <1>4, <2>1, <2>2, <2>4 DEF Progress, HoldsFd
  <2> QED
    BY <1>2, <2>3, <2>4
<1>6. CASE OpenFails(t)
  <2>1. /\ pc[t] = "open" /\ MapFileReturns(t, "open", None) /\ opened' = opened
        /\ ~IsReadable(PathToMap(t)) \/ world.faults \/ \A d \in Fds : open[d] # None
    BY <1>6 DEF OpenFails, MapFileReturns, GoTo
  <2>2. CASE role[t] = "main"
    <3>1. pc'[t] = "returned" /\ opened[t]["main"] = None
      BY <1>1, <2>1, <2>2 DEF MapFileReturns, GoTo, Settled
    <3> QED
      BY <1>2, <2>1, <3>1 DEF Settled, MapsFiles, Progress, HoldsFd, BeforeMap, Block, Call
  <2>3. CASE role[t] = "symbols"
    <3>1. pc'[t] = "lookup" /\ ~hasSidecar'[t]
      BY <1>1, <2>1, <2>3 DEF MapFileReturns, GoTo
    <3>2. Settled(t)'
      BY <1>2, <2>1, <3>1, StillSettled DEF BeforeMap, Block
    <3>3. \E d \in Fds : open[d] = None
      BY <2>1, SomeFdIsFree DEF HoldsFd
    <3>4. ~world.faults => ~HasSide(t)
      BY <2>1, <2>3, <3>3 DEF HasSide, PathToMap
    <3>5. ~world.faults => SideFound(t)'
      BY <1>4, <3>1, <3>4 DEF SideFound
    <3> QED
      BY <1>2, <3>1, <3>2, <3>5 DEF Progress, HoldsFd
  <2> QED
    BY <1>1, <2>2, <2>3
<1>7. CASE Stat(t) \/ StatFails(t) \/ Mmap(t) \/ MmapFails(t)
  <2>1. /\ pc[t] \in {"stat", "map"} /\ pc'[t] \in {"map", "reject", "close"} /\ opened' = opened
    BY <1>1, <1>7 DEF Stat, StatFails, Mmap, MmapFails, GoTo
  <2>2. open[fd[t]] = opened[t][role[t]]
    BY <2>1 DEF IInv, Descriptors, HoldsFd
  <2>3. Settled(t)'
    BY <1>2, <2>1, StillSettled DEF BeforeMap, Block
  <2>4. ASSUME Progress(t), ~world.faults
        PROVE  IF pc'[t] = "reject" THEN ~IsMappable(opened[t][role[t]])
               ELSE IsMappable(opened[t][role[t]])
    <3>1. CASE Stat(t)
      BY <1>1, <2>2, <3>1 DEF Stat, GoTo
    <3>2. CASE StatFails(t)
      BY <2>4, <3>2 DEF StatFails
    <3>3. CASE Mmap(t)
      BY <1>1, <2>4, <3>3 DEF Mmap, GoTo, Progress
    <3>4. CASE MmapFails(t)
      BY <2>4, <3>4, SomeAddressIsFree DEF MmapFails, GoTo
    <3> QED
      BY <1>7, <3>1, <3>2, <3>3, <3>4
  <2>5. ASSUME Progress(t), ~world.faults
        PROVE  Progress(t)'
    <3>1. role[t] = "symbols" => /\ Fits(symbolsPath(t)) /\ IsReadable(symbolsPath(t))
                                 /\ opened[t]["symbols"] = files[symbolsPath(t)]
      BY <2>1, <2>5 DEF Progress, HoldsFd
    <3> QED
      BY <1>2, <1>4, <2>1, <2>4, <2>5, <3>1 DEF Progress
  <2> QED
    BY <1>2, <2>3, <2>5
<1>8. CASE Reject(t)
  <2>1. /\ pc[t] = "reject" /\ MapFileReturns(t, "reject", None) /\ opened' = opened
    BY <1>8 DEF Reject, MapFileReturns, GoTo
  <2>2. CASE role[t] = "main"
    <3>1. pc'[t] = "returned"
      BY <1>1, <2>1, <2>2 DEF MapFileReturns, GoTo
    <3>2. Settled(t)'
      BY <1>2, <2>1, <3>1, StillSettled DEF BeforeMap, Block
    <3>3. Progress(t) => Progress(t)'
      BY <2>1, <2>2, <3>1 DEF Progress, HoldsFd
    <3> QED
      BY <1>2, <3>2, <3>3
  <2>3. CASE role[t] = "symbols"
    <3>1. pc'[t] = "lookup" /\ ~hasSidecar'[t]
      BY <1>1, <2>1, <2>3 DEF MapFileReturns, GoTo
    <3>2. Settled(t)'
      BY <1>2, <2>1, <3>1, StillSettled DEF BeforeMap, Block
    <3>3. Progress(t) => ~HasSide(t)
      BY <2>1, <2>3 DEF Progress, HasSide, HoldsFd
    <3>4. Progress(t) => SideFound(t)'
      BY <1>4, <3>1, <3>3 DEF SideFound
    <3> QED
      BY <1>2, <3>1, <3>2, <3>4 DEF Progress, HoldsFd
  <2> QED
    BY <1>1, <2>2, <2>3
<1>9. CASE Close(t)
  <2>1. /\ pc[t] = "close" /\ MapFileReturns(t, "close", mapping[t][role[t]]) /\ opened' = opened
    BY <1>9 DEF Close, MapFileReturns, GoTo
  <2>2. mapping[t][role[t]] # None
    BY <1>1, <2>1, KernelAssumption DEF IInv, Mappings, WithMain, WithSide
  <2>3. CASE role[t] = "main"
    <3>1. pc'[t] = "sidecar"
      BY <1>1, <2>1, <2>2, <2>3 DEF MapFileReturns, GoTo
    <3>2. Settled(t)'
      BY <1>2, <2>1, <3>1, StillSettled DEF BeforeMap, Block
    <3> QED
      BY <3>1, <3>2 DEF Progress, HoldsFd
  <2>4. CASE role[t] = "symbols"
    <3>1. pc'[t] = "lookup" /\ hasSidecar'[t]
      BY <1>1, <2>1, <2>2, <2>4 DEF MapFileReturns, GoTo
    <3>2. Settled(t)'
      BY <1>2, <2>1, <3>1, StillSettled DEF BeforeMap, Block
    <3>3. Progress(t) => HasSide(t) /\ opened[t]["symbols"] = files[symbolsPath(t)]
      BY <2>1, <2>4 DEF Progress, HasSide, HoldsFd
    <3>4. Progress(t) => SideFound(t)'
      BY <1>4, <2>1, <3>1, <3>3 DEF SideFound
    <3> QED
      BY <1>2, <3>1, <3>2, <3>4 DEF Progress, HoldsFd
  <2> QED
    BY <1>1, <2>3, <2>4
<1> QED
  BY <1>5, <1>6, <1>7, <1>8, <1>9 DEF MapFile

\* A step of t after the main file is mapped.
LEMMA LateStep ==
    ASSUME IInv, DOMAIN result = Threads, NEW t \in Threads,
           Sidecar(t) \/ Lookup(t) \/ UnmapSidecar(t) \/ UnmapMain(t), Settled(t)
    PROVE  Settled(t)' /\ (Progress(t) => Progress(t)')
<1> USE DEF kernel, location, locals, history
<1>1. pc \in [Threads -> Phases] /\ role \in [Threads -> Roles]
  BY DEF IInv, Types
<1>2. UNCHANGED <<world, files, once, cachePath, hasSidecar, opened>>
  BY DEF Sidecar, Lookup, UnmapSidecar, UnmapMain
<1>3. symbolsPath(t)' = symbolsPath(t)
  BY <1>2 DEF symbolsPath, mainPath, Call
<1>4. /\ Fits(symbolsPath(t))' <=> Fits(symbolsPath(t))
      /\ HasSide(t)' <=> HasSide(t)
  BY <1>2, <1>3, SameSide
<1>5. /\ SideFound(t) => SideFound(t)'
      /\ result'[t] = result[t] /\ Searched(t) => Searched(t)'
  BY <1>2, <1>3, SameSearched
<1>6. CASE Sidecar(t)
  <2>1. pc[t] = "sidecar" /\ role'[t] = "symbols" /\ ~hasSidecar[t]
    BY <1>1, <1>6 DEF Sidecar, GoTo, IInv, Roleplay
  <2>2. CASE pc'[t] = "open" /\ Fits(symbolsPath(t))
    <3>1. Settled(t)'
      BY <1>2, <2>1, <2>2, StillSettled DEF BeforeMap, Block
    <3> QED
      BY <1>4, <2>2, <3>1 DEF Progress, HoldsFd
  <2>3. CASE pc'[t] = "lookup" /\ ~Fits(symbolsPath(t))
    <3>1. Settled(t)'
      BY <1>2, <2>1, <2>3, StillSettled DEF BeforeMap, Block
    <3>2. SideFound(t)'
      BY <1>2, <1>4, <2>1, <2>3 DEF SideFound, HasSide
    <3> QED
      BY <2>3, <3>1, <3>2 DEF Progress, HoldsFd
  <2> QED
    BY <1>1, <1>6, <2>2, <2>3 DEF Sidecar, GoTo
<1>7. CASE Lookup(t)
  <2>1. /\ pc[t] = "lookup" /\ pc'[t] = "unmap"
        /\ result'[t] = FindSharedCacheSymbolInData(QueryOf(t))
    BY <1>1, <1>7 DEF Lookup, GoTo
  <2>2. Settled(t)'
    BY <1>2, <2>1, StillSettled DEF BeforeMap, Block
  <2>3. PICK q : q = Asked(t)
    OBVIOUS
  <2>4. QueryOf(t) = q
    BY <2>1, <2>3, LookupFacts
  <2>5. Asked(t)' = q
    BY <1>2, <2>3, SameAsked
  <2>6. SideFound(t) => Searched(t)'
    BY <1>5, <2>1, <2>4, <2>5 DEF Searched
  <2> QED
    BY <2>1, <2>2, <2>6 DEF Progress, HoldsFd
<1>8. CASE UnmapSidecar(t) \/ UnmapMain(t)
  <2>1. /\ pc[t] \in {"unmap", "unmapMain"} /\ pc'[t] \in {"unmapMain", "returned"}
        /\ result' = result
    BY <1>1, <1>8 DEF UnmapSidecar, UnmapMain, GoTo
  <2>2. Settled(t)'
    BY <1>2, <2>1, StillSettled DEF BeforeMap, Block
  <2>3. Searched(t) => Searched(t)'
    BY <1>5, <2>1
  <2> QED
    BY <2>1, <2>2, <2>3 DEF Progress, HoldsFd
<1> QED
  BY <1>6, <1>7, <1>8

LEMMA SidecarsStep ==
    ASSUME EnoughForAll, IInv, DOMAIN result = Threads, Sidecars, NEW t \in Threads, Step(t)
    PROVE  Sidecars'
<1>1. \A u \in Threads \ {t} : Settled(u)' /\ (~changed' /\ ~world'.faults => Progress(u)')
  BY OthersGoOn
<1>2. UNCHANGED <<world, changed>>
  BY StepFrame
<1>3. Settled(t) /\ (~changed /\ ~world.faults => Progress(t))
  BY DEF Sidecars
<1>4. Settled(t)' /\ (~changed' /\ ~world'.faults => Progress(t)')
  <2>1. CASE Enter(t) \/ Locate(t)
    BY <1>3, <2>1, EarlyStep
  <2>2. CASE MapFile(t)
    BY <1>3, <2>2, MapStep
  <2>3. CASE Sidecar(t) \/ Lookup(t) \/ UnmapSidecar(t) \/ UnmapMain(t)
    BY <1>2, <1>3, <2>3, LateStep
  <2> QED
    BY <2>1, <2>2, <2>3 DEF Step
<1> QED
  BY <1>1, <1>4 DEF Sidecars

LEMMA SidecarsNext ==
    ASSUME EnoughForAll, IInv, DOMAIN result = Threads, Sidecars, [Next]_vars
    PROVE  Sidecars'
<1>1. ASSUME NEW t \in Threads, Step(t) PROVE Sidecars'
  BY <1>1, SidecarsStep
<1>2. CASE \E path \in DOMAIN files : ReplaceFile(path)
  <2>1. changed' = TRUE /\ UNCHANGED <<world, once, pc, role, opened>>
    BY <1>2 DEF ReplaceFile, location, locals, history
  <2>2. ASSUME NEW t \in Threads PROVE Settled(t)'
    BY <2>1 DEF Sidecars, Settled, MapsFiles, Call
  <2> QED
    BY <2>1, <2>2 DEF Sidecars
<1>3. CASE UNCHANGED vars
  <2>1. UNCHANGED <<world, files, changed, once, cachePath, pc, role, hasSidecar, opened, result>>
    BY <1>3 DEF vars, kernel, location, locals, history
  <2>2. ASSUME NEW t \in Threads
        PROVE  Settled(t)' /\ (~changed' /\ ~world'.faults => Progress(t)')
    <3>1. Untouched(t) /\ symbolsPath(t)' = symbolsPath(t) /\ role[t] \in Roles
      BY <2>1 DEF Untouched, symbolsPath, mainPath, Call, IInv, Types
    <3>2. Settled(t) /\ (~changed /\ ~world.faults => Progress(t))
      BY DEF Sidecars
    <3> QED
      BY <2>1, <3>1, <3>2, SettledKept, ProgressKept
  <2> QED
    BY <2>2 DEF Sidecars
<1> QED
  BY <1>1, <1>2, <1>3 DEF Next

\* The slide of a lookup is an unsigned number.
LEMMA SlideFacts ==
    ASSUME world \in Worlds, NEW t \in Threads, Call(t) # None, NEW f, NEW g
    PROVE  Query(t, f, g).slide \in Nat
<1>1. /\ world.task.slide \in 0 .. Limit - 1
      /\ Call(t).op = "atPath" => Call(t).slide \in 0 .. Limit - 1
  BY WorldsAssumption DEF Call
<1>2. Limit \in Nat
  BY LayoutAssumption
<1>3. SharedCacheSlide \in Nat
  BY <1>1, <1>2 DEF SharedCacheSlide
<1> QED
  BY <1>1, <1>2, <1>3 DEF Query

ResultTyped == DOMAIN result = Threads

\* In a cache as it should be, RorkHookFindSharedCacheSymbolAtPath finds the
\* symbol that is there, in the sidecar if there is one and else in the main
\* file, if no system call failed, the files did not change and the process
\* has one descriptor and two mappings for every thread.
THEOREM SymbolsAreFound ==
    ASSUME EnoughForAll
    PROVE  Spec => []FindsWhatIsThere
<1>1. ASSUME Init PROVE Sidecars /\ ResultTyped
  BY <1>1 DEF Init, ResultTyped, Sidecars, Settled, MapsFiles, Progress, BeforeMap, HoldsFd, Roles
<1>2. ASSUME IInv, Sidecars, ResultTyped, [Next]_vars
      PROVE  Sidecars' /\ ResultTyped'
  <2>1. Sidecars'
    BY <1>2, SidecarsNext DEF ResultTyped
  <2>2. DOMAIN result' = DOMAIN result
    <3>1. CASE \E t \in Threads : Step(t)
      BY <3>1 DEF Step, Enter, Locate, OnceEnter, OncePass, AskDyld, CheckActive, ChooseBase,
                  PutSuffix, CheckSuffix, NotLocated, MapFile, Open, OpenFails, Stat, StatFails,
                  Reject, Mmap, MmapFails, Close, Sidecar, Lookup, UnmapSidecar, UnmapMain, locals
    <3>2. CASE result' = result
      BY <3>2
    <3> QED
      BY <1>2, <3>1, <3>2 DEF Next, ReplaceFile, vars, locals
  <2> QED
    BY <1>2, <2>1, <2>2 DEF ResultTyped
<1>3. ASSUME IInv, Sidecars PROVE FindsWhatIsThere
  <2> SUFFICES ASSUME NEW t \in Threads, pc[t] = "returned", opened[t]["main"] # None,
                      ~changed, ~world.faults, SlideIsKnown(t), NEW q,
                      q = Query(t, opened[t]["main"],
                                IF HasSide(t) THEN files[symbolsPath(t)] ELSE opened[t]["main"]),
                      WellMade(q), NEW k, NEW j, IsFirstImage(q, k), IsSymbolOf(q, k, j),
                      TrueSlide(t) + SymbolAt(q, j).value < Limit
               PROVE  result[t].addr = TrueSlide(t) + SymbolAt(q, j).value
    BY DEF FindsWhatIsThere, HasSide
  <2>1. Settled(t) /\ Progress(t)
    BY <1>3 DEF Sidecars
  <2>2. IsMappable(opened[t]["main"])
    <3>1. q.main = Contents[opened[t]["main"]]
      BY DEF Query
    <3>2. q.main.kind = "regular" /\ HeaderSize <= q.main.size
      BY DEF WellMade
    <3>3. opened[t]["main"] \in Files
      BY <1>3 DEF IInv, Types, Roles, FileOrNone
    <3>4. q.main.size \in Nat /\ HeaderSize \in Nat \ {0}
      BY <3>1, <3>3, ContentsAssumption, LayoutAssumption, HeaderFacts
    <3>5. q.main.size > 0
      BY <3>2, <3>4
    <3> QED
      BY <3>1, <3>2, <3>5 DEF IsMappable
  <2>3. Searched(t)
    BY <2>1, <2>2 DEF Progress
  <2>4. q = Asked(t)
    BY <2>3 DEF Searched, SideFound, Asked
  <2>5. IsQuery(q)
    <3>1. opened[t]["main"] \in Files
      BY <1>3 DEF IInv, Types, Roles, FileOrNone
    <3>2. HasSide(t) => files[symbolsPath(t)] \in Files
      BY <1>3 DEF HasSide, IsReadable, Exists, IInv, Types, FileOrNone
    <3> QED
      BY <3>1, <3>2, QueriesAreFiles
  <2>6. q.slide \in Nat /\ q.slide = TrueSlide(t)
    BY <1>3, <2>1, SlideFacts, SlideOf DEF Settled, IInv, Types
  <2>7. result[t] = FindSharedCacheSymbolInData(q)
    BY <2>3, <2>4 DEF Searched
  <2> QED
    BY <2>5, <2>6, <2>7, SearchFinds
<1> QED
  BY <1>1, <1>2, <1>3, Invariance, PTL DEF Spec
=============================================================================
