--------------------------- MODULE MachOWalkProofs ---------------------------
(***************************************************************************)
(* Proofs about MachOWalk, for any header, any table and any widths.       *)
(*                                                                         *)
(* The validation and the delivery are two loops over the same bytes.  The *)
(* invariant names the offsets that the first loop has come through: a     *)
(* path f, where f[k] is the offset of command k.  The second loop follows *)
(* the path that the first one completed.                                  *)
(***************************************************************************)
EXTENDS MachOWalk, FiniteSetTheorems, TLAPS

Paths == {f \in [0 .. image.ncmds -> 0 .. image.sizeofcmds] : f[0] = 0}

\* The first n commands of the path f are well-formed and follow one another.
Walks(f, n) ==
    /\ \A k \in 0 .. n - 1 :
          /\ Command(f[k]).cmdsize >= CommandSize
          /\ Command(f[k]).cmdsize % Alignment = 0
          /\ f[k + 1] = f[k] + Command(f[k]).cmdsize
    /\ \A j, k \in 0 .. n : j < k => f[j] < f[k]

\* The visitor ends the walk at the command at offset o.
Stops(o) == IsSegment(Command(o)) /\ Command(o).mapsHeader

\* The header has passed the checks that come before the loops.
HeaderOK ==
    /\ pc = "call" => index = 0 /\ consumed = 0
    /\ pc \in {"validate", "deliver", "finish"} =>
          /\ image.header # 0 /\ image.magic
          /\ HeaderSize + image.sizeofcmds <= image.mapped

\* The first loop: a path leads to where it is, and so does every tiling.
ValidateOK ==
    pc = "validate" =>
        /\ \E f \in Paths : Walks(f, index) /\ f[index] = consumed
        /\ \A starts \in SUBSET (0 .. image.sizeofcmds - 1) : Tiled(starts) =>
              /\ consumed \in starts \union {image.sizeofcmds}
              /\ Cardinality({b \in starts : b < consumed}) = index

\* The path f fills the table.
Fills(f) == Walks(f, image.ncmds) /\ f[image.ncmds] = image.sizeofcmds

\* The commands delivered are the first n of the path f, and the visitor stopped
\* at none of them before the last.
Delivered(f, n) ==
    /\ Len(visited) = n
    /\ \A k \in 1 .. n : visited[k] = f[k - 1]
    /\ \A k \in 0 .. n - 2 : ~Stops(f[k])

\* The second loop.
DeliverOK ==
    pc = "deliver" =>
        \E f \in Paths : /\ Fills(f) /\ f[index] = consumed
                         /\ Delivered(f, index)
                         /\ \A k \in 0 .. index - 1 : ~Stops(f[k])

\* The walk is over: the visitor has seen all of the table or has stopped.
Over(f) ==
    /\ Fills(f)
    /\ \/ Delivered(f, image.ncmds) /\ \A k \in 0 .. image.ncmds - 1 : ~Stops(f[k])
       \/ \E n \in 1 .. image.ncmds : Delivered(f, n) /\ Stops(f[n - 1])

FinishOK ==
    /\ pc = "finish" => \E f \in Paths : Over(f)
    /\ pc = "returned" => \/ visited = <<>> /\ ~WellFormed
                          \/ WellFormed /\ \E f \in Paths : Over(f)

\* The slide s moves the segment that was delivered last to the header.
Moves(s) ==
    LET last == Command(visited[Len(visited)])
    IN  /\ last.segment /\ last.mapsHeader
        /\ last.vmaddr + s = image.header

SlideOK ==
    /\ visited \in Seq(Counters)
    /\ pc \in {"call", "validate"} => visited = <<>>
    /\ pc \in {"call", "validate", "deliver"} => ~context.found
    /\ pc # "returned" => ~result.resolved
    /\ context.found => Moves(context.slide)
    /\ result.resolved => Moves(result.slide)

IInv == /\ TypeOK /\ HeaderOK /\ ValidateOK /\ DeliverOK /\ FinishOK /\ SlideOK
        /\ ReadsStayMapped

-----------------------------------------------------------------------------
(* Numbers.                                                                *)

LEMMA Mod == ASSUME NEW W \in Nat \ {0}, NEW a \in 0 .. W - 1 PROVE a % W = a
OBVIOUS

LEMMA ModBelow == ASSUME NEW W \in Nat \ {0}, NEW a \in -W .. -1 PROVE a % W = a + W
OBVIOUS

LEMMA ModType == ASSUME NEW W \in Nat \ {0}, NEW a \in Int PROVE a % W \in 0 .. W - 1
OBVIOUS

LEMMA DivGap ==
    ASSUME NEW C \in Nat \ {0}, NEW o \in Nat, NEW b \in Nat, o + C <= b
    PROVE  o \div C < b \div C
<1>1. /\ o = C * (o \div C) + (o % C) /\ o % C \in 0 .. C - 1 /\ o \div C \in Nat
      /\ b = C * (b \div C) + (b % C) /\ b % C \in 0 .. C - 1 /\ b \div C \in Nat
  OBVIOUS
<1> DEFINE m == o \div C
           n == b \div C
<1>2. m \in Nat /\ n \in Nat /\ C * m + C < C * n + C
  BY <1>1
<1> HIDE DEF m, n
<1>3. ASSUME n <= m PROVE C * n <= C * m
  BY <1>2, <1>3
<1>4. m < n
  BY <1>2, <1>3
<1> QED
  BY <1>4 DEF m, n

\* RorkHookAddressDifference computes the difference that it says fits.
LEMMA DifferenceIsExact ==
    ASSUME NEW left \in Addresses, NEW right \in Addresses, Differs(left, right)
    PROVE  /\ Difference(left, right) = left - right
           /\ Difference(left, right) \in -Half .. Half - 1
<1> DEFINE W == 2 * Half
           d == left - right
<1>1. W \in Nat \ {0} /\ Half \in Nat \ {0} /\ left \in 0 .. W - 1 /\ right \in 0 .. W - 1
  BY SizesAssumption DEF Addresses
<1>2. CASE left >= right
  <2>1. d \in 0 .. W - 1 /\ d < Half
    BY <1>1, <1>2 DEF Differs
  <2>2. d % W = d
    BY <1>1, <2>1, Mod
  <2> HIDE DEF d
  <2>3. Difference(left, right) = d
    BY <2>1, <2>2 DEF Difference, d
  <2> QED
    BY <1>1, <2>1, <2>3 DEF d
<1>3. CASE left < right
  <2>1. d \in -W .. -1 /\ -d <= Half /\ d \in Int
    BY <1>1, <1>3 DEF Differs
  <2>2. d % W = d + W
    BY <1>1, <2>1, ModBelow
  <2> HIDE DEF d
  <2>3. Difference(left, right) = d
    BY <1>1, <2>1, <2>2 DEF Difference, d
  <2> QED
    BY <1>1, <2>1, <2>3 DEF d
<1> QED
  BY <1>1, <1>2, <1>3

LEMMA Typed ==
    ASSUME TypeOK
    PROVE  /\ image.ncmds \in Nat /\ image.sizeofcmds \in Nat /\ image.mapped \in Nat
           /\ image.sizeofcmds < Modulus /\ image.header \in Addresses
           /\ index \in Nat /\ index <= image.ncmds /\ consumed \in Counters
           /\ Modulus \in Nat \ {0} /\ CommandSize \in Nat \ {0} /\ SegmentSize \in Nat
           /\ HeaderSize \in Nat
           /\ \A o \in Counters : /\ Command(o).cmdsize \in Nat /\ Command(o).vmaddr \in Addresses
                                  /\ Command(o).segment \in BOOLEAN
                                  /\ Command(o).mapsHeader \in BOOLEAN
           /\ context.slide \in -Half .. Half - 1 /\ context.found \in BOOLEAN
<1>1. image \in HeaderTypes /\ table \in TableTypes /\ index \in 0 .. image.ncmds
      /\ consumed \in Counters /\ context \in [slide : -Half .. Half - 1, found : BOOLEAN]
  BY DEF TypeOK
<1>2. /\ image.ncmds \in Nat /\ image.sizeofcmds \in Nat /\ image.mapped \in Nat
      /\ image.sizeofcmds < Modulus /\ image.header \in Addresses
  BY <1>1, SizesAssumption DEF HeaderTypes, Counters
<1>3. ASSUME NEW o \in Counters
      PROVE  /\ Command(o).cmdsize \in Nat /\ Command(o).vmaddr \in Addresses
             /\ Command(o).segment \in BOOLEAN /\ Command(o).mapsHeader \in BOOLEAN
  <2>1. table[o] \in [cmdsize : Counters, segment : BOOLEAN,
                      mapsHeader : BOOLEAN, vmaddr : Addresses]
    BY <1>1 DEF TableTypes
  <2>2. Counters \subseteq Nat
    BY SizesAssumption DEF Counters
  <2> QED
    BY <2>1, <2>2 DEF Command
<1>4. context.slide \in -Half .. Half - 1 /\ context.found \in BOOLEAN
  BY <1>1
<1> QED
  BY <1>1, <1>2, <1>3, <1>4, SizesAssumption

-----------------------------------------------------------------------------
(* Paths and tilings.                                                      *)

\* What a path knows of its offsets.
LEMMA PathFacts ==
    ASSUME TypeOK, NEW f \in Paths
    PROVE  /\ f \in [0 .. image.ncmds -> 0 .. image.sizeofcmds] /\ f[0] = 0
           /\ \A k \in 0 .. image.ncmds : f[k] \in Nat /\ f[k] \in Counters /\ f[k] <= image.sizeofcmds
<1>1. f \in [0 .. image.ncmds -> 0 .. image.sizeofcmds] /\ f[0] = 0
  BY DEF Paths
<1>2. 0 .. image.sizeofcmds \subseteq Counters
  BY Typed DEF Counters
<1> QED
  BY <1>1, <1>2, Typed

LEMMA PathTiles ==
    ASSUME TypeOK, NEW f \in Paths, Fills(f)
    PROVE  LET starts == {f[k] : k \in 0 .. image.ncmds - 1}
           IN  starts \in SUBSET (0 .. image.sizeofcmds - 1) /\ Tiled(starts)
<1> DEFINE N == image.ncmds
           size == image.sizeofcmds
           starts == {f[k] : k \in 0 .. N - 1}
<1>1. N \in Nat /\ size \in Nat /\ f[0] = 0 /\ \A k \in 0 .. N : f[k] \in Nat /\ f[k] <= size
  BY Typed, PathFacts
<1>2. /\ \A k \in 0 .. N - 1 : /\ Command(f[k]).cmdsize >= CommandSize
                               /\ Command(f[k]).cmdsize % Alignment = 0
                               /\ f[k + 1] = f[k] + Command(f[k]).cmdsize
      /\ \A j, k \in 0 .. N : j < k => f[j] < f[k]
      /\ f[N] = size
  BY DEF Fills, Walks
<1>3. \A k \in 0 .. N - 1 : f[k] < size
  BY <1>1, <1>2
<1>4. starts \in SUBSET (0 .. size - 1)
  BY <1>1, <1>3
<1>5. 0 \in starts \union {size}
  <2>1. CASE N = 0
    BY <1>1, <1>2, <2>1
  <2>2. CASE N # 0
    <3>1. 0 \in 0 .. N - 1
      BY <1>1, <2>2
    <3> QED
      BY <1>1, <3>1
  <2> QED
    BY <2>1, <2>2
<1>6. Cardinality(starts) = N
  <2> DEFINE g == [k \in 0 .. N - 1 |-> f[k]]
  <2>1. ASSUME NEW j \in 0 .. N - 1, NEW k \in 0 .. N - 1, f[j] = f[k] PROVE j = k
    <3>1. (j < k => f[j] < f[k]) /\ (k < j => f[k] < f[j]) /\ f[j] \in Nat /\ f[k] \in Nat
      BY <1>1, <1>2
    <3> QED
      BY <1>1, <2>1, <3>1
  <2>2. g \in Injection(0 .. N - 1, starts)
    <3>1. g \in [0 .. N - 1 -> starts] /\ \A k \in 0 .. N - 1 : g[k] = f[k]
      OBVIOUS
    <3> HIDE DEF g, starts, N
    <3>2. \A j, k \in 0 .. N - 1 : g[j] = g[k] => j = k
      BY <2>1, <3>1
    <3> QED
      BY <3>1, <3>2 DEF Injection, IsInjective
  <2>3. g \in Surjection(0 .. N - 1, starts)
    BY DEF Surjection
  <2>4. ExistsBijection(0 .. N - 1, starts)
    BY <2>2, <2>3 DEF ExistsBijection, Bijection
  <2>5. 0 \in Int /\ N - 1 \in Int
    BY <1>1
  <2> HIDE DEF N, starts
  <2>6. IsFiniteSet(0 .. N - 1) /\ Cardinality(0 .. N - 1) = IF 0 > N - 1 THEN 0 ELSE N - 1 - 0 + 1
    BY <2>5, FS_Interval
  <2>7. Cardinality(starts) = Cardinality(0 .. N - 1)
    BY <2>4, <2>6, FS_Bijection
  <2> QED
    BY <1>1, <2>6, <2>7
<1>7. ASSUME NEW o \in starts
      PROVE  /\ Command(o).cmdsize >= CommandSize /\ Command(o).cmdsize % Alignment = 0
             /\ o + Command(o).cmdsize \in starts \union {size}
             /\ \A b \in starts : ~(o < b /\ b < o + Command(o).cmdsize)
  <2>1. PICK k \in 0 .. N - 1 : o = f[k]
    BY <1>7
  <2>2. f[k + 1] = o + Command(o).cmdsize /\ k \in Nat /\ k < N
    BY <1>1, <1>2, <2>1
  <2>3. f[k + 1] \in starts \union {size}
    <3>1. CASE k + 1 = N
      BY <1>2, <3>1
    <3>2. CASE k + 1 # N
      <4>1. k + 1 \in 0 .. N - 1
        BY <1>1, <2>2, <3>2
      <4> QED
        BY <4>1
    <3> QED
      BY <3>1, <3>2
  <2>4. ASSUME NEW j \in 0 .. N - 1 PROVE ~(f[k] < f[j] /\ f[j] < f[k + 1])
    <3>1. j <= k \/ k + 1 <= j
      BY <1>1, <2>2
    <3>2. CASE j <= k
      <4>1. j = k \/ f[j] < f[k]
        BY <1>1, <1>2, <2>2, <3>2
      <4> QED
        BY <1>1, <4>1
    <3>3. CASE k + 1 <= j
      <4>1. j = k + 1 \/ f[k + 1] < f[j]
        BY <1>1, <1>2, <2>2, <3>3
      <4>2. k + 1 \in 0 .. N /\ f[k + 1] \in Nat /\ f[j] \in Nat
        BY <1>1, <2>2
      <4> QED
        BY <4>1, <4>2
    <3> QED
      BY <3>1, <3>2, <3>3
  <2>5. Command(o).cmdsize >= CommandSize /\ Command(o).cmdsize % Alignment = 0
    BY <1>2, <2>1
  <2> QED
    BY <2>1, <2>2, <2>3, <2>4, <2>5
<1> HIDE DEF starts
<1>8. Tiled(starts)
  BY <1>5, <1>6, <1>7 DEF Tiled
<1> QED
  BY <1>4, <1>8 DEF starts

\* What a tiling knows of its starts.
LEMMA TilingFacts ==
    ASSUME TypeOK, NEW starts \in SUBSET (0 .. image.sizeofcmds - 1), Tiled(starts)
    PROVE  /\ IsFiniteSet(starts)
           /\ \A o \in starts :
                 /\ o \in Nat /\ o \in Counters /\ o < image.sizeofcmds
                 /\ Command(o).cmdsize \in Nat
                 /\ o + Command(o).cmdsize <= image.sizeofcmds
<1>1. image.sizeofcmds \in Nat /\ image.sizeofcmds < Modulus
  BY Typed
<1>2. IsFiniteSet(0 .. image.sizeofcmds - 1)
  BY <1>1, FS_Interval
<1>3. IsFiniteSet(starts)
  BY <1>2, FS_Subset
<1>4. ASSUME NEW o \in starts
      PROVE  o \in Nat /\ o \in Counters /\ o < image.sizeofcmds /\ Command(o).cmdsize \in Nat
  <2>1. o \in Nat /\ o \in Counters /\ o < image.sizeofcmds
    BY <1>1, Typed DEF Counters
  <2> QED
    BY <2>1, Typed
<1>5. ASSUME NEW o \in starts PROVE o + Command(o).cmdsize <= image.sizeofcmds
  <2>1. o + Command(o).cmdsize \in starts \union {image.sizeofcmds}
    BY DEF Tiled
  <2> QED
    BY <1>1, <1>4, <2>1
<1> QED
  BY <1>3, <1>4, <1>5

\* A table holds no more commands than the header check lets pass.
LEMMA TilingBound ==
    ASSUME TypeOK, NEW starts \in SUBSET (0 .. image.sizeofcmds - 1), Tiled(starts)
    PROVE  image.ncmds <= image.sizeofcmds \div CommandSize
<1> DEFINE C == CommandSize
           n == image.sizeofcmds \div C
           g == [o \in starts |-> o \div C]
<1>1. C \in Nat \ {0} /\ image.sizeofcmds \in Nat
  BY Typed
<1>2. n \in Nat
  BY <1>1
<1>3. \A o \in starts : o \in Nat /\ o + C <= image.sizeofcmds
  BY <1>1, TilingFacts DEF Tiled
<1>4. ASSUME NEW o \in starts PROVE o \div C \in 0 .. n - 1
  <2>1. o \in Nat /\ o + C <= image.sizeofcmds
    BY <1>3
  <2>2. o \div C < n
    BY <1>1, <2>1, DivGap
  <2>3. o \div C \in Nat
    BY <1>1, <2>1
  <2> HIDE DEF n
  <2> QED
    BY <1>2, <2>2, <2>3
<1>5. ASSUME NEW o \in starts, NEW b \in starts, o < b PROVE o \div C < b \div C
  <2>1. o \in Nat /\ b \in Nat /\ Command(o).cmdsize \in Nat
    BY TilingFacts
  <2>2. Command(o).cmdsize >= C /\ ~(b < o + Command(o).cmdsize)
    BY <1>5 DEF Tiled
  <2>3. o + C <= b
    BY <1>1, <2>1, <2>2
  <2> QED
    BY <1>1, <2>1, <2>3, DivGap
<1>6. ASSUME NEW o \in starts, NEW b \in starts, o \div C = b \div C PROVE o = b
  <2>1. o \in Nat /\ b \in Nat /\ o \div C \in Nat /\ b \div C \in Nat
    BY <1>1, <1>3
  <2>2. ~(o < b) /\ ~(b < o)
    BY <1>5, <1>6, <2>1
  <2> QED
    BY <2>1, <2>2
<1> HIDE DEF n, C
<1>7. g \in Injection(starts, 0 .. n - 1)
  <2>1. g \in [starts -> 0 .. n - 1] /\ \A o \in starts : g[o] = o \div C
    BY <1>4
  <2> HIDE DEF g
  <2>2. \A o, b \in starts : g[o] = g[b] => o = b
    BY <1>6, <2>1
  <2> QED
    BY <2>1, <2>2 DEF Injection, IsInjective
<1> HIDE DEF g
<1>8. IsFiniteSet(0 .. n - 1) /\ Cardinality(0 .. n - 1) = n
  BY <1>2, FS_Interval
<1>9. Cardinality(starts) <= n
  BY <1>7, <1>8, FS_Injection
<1> QED
  BY <1>9 DEF Tiled, n, C

\* A table with a path through it is well-formed.
LEMMA PathIsWellFormed ==
    ASSUME TypeOK, NEW f \in Paths, Fills(f), image.header # 0, image.magic,
           HeaderSize + image.sizeofcmds <= image.mapped
    PROVE  WellFormed
<1> DEFINE starts == {f[k] : k \in 0 .. image.ncmds - 1}
<1>1. starts \in SUBSET (0 .. image.sizeofcmds - 1) /\ Tiled(starts)
  BY PathTiles
<1> HIDE DEF starts
<1> QED
  BY <1>1, Typed DEF WellFormed

-----------------------------------------------------------------------------
(* The steps.                                                              *)

\* Neither the header nor the table changes, and what is said of them stays.
LEMMA Kept ==
    ASSUME Next
    PROVE  /\ image' = image /\ table' = table /\ Paths' = Paths
           /\ WellFormed' <=> WellFormed
<1>1. image' = image /\ table' = table
  BY DEF Next, RejectUnreadable, CheckHeader, ValidateCommand, EndValidation, Deliver, EndDelivery,
         Finish, Unresolved
<1> QED
  BY <1>1 DEF Paths, WellFormed, Tiled, Command

LEMMA KeptFormulas ==
    ASSUME Next, NEW f, NEW n, NEW starts
    PROVE  /\ Walks(f, n)' <=> Walks(f, n)
           /\ Fills(f)' <=> Fills(f)
           /\ Stops(n)' <=> Stops(n)
           /\ Tiled(starts)' <=> Tiled(starts)
BY Kept DEF Walks, Fills, Stops, Tiled, Command, IsSegment

LEMMA InitIInv == Init => IInv
<1> SUFFICES ASSUME Init PROVE IInv
  OBVIOUS
<1>1. TypeOK
  <2>1. 0 \in -Half .. Half - 1 /\ 0 \in Counters
    BY SizesAssumption DEF Counters
  <2>2. image \in HeaderTypes /\ table \in TableTypes
    BY InputsAssumption DEF Init
  <2>3. 0 \in 0 .. image.ncmds
    BY <2>2, SizesAssumption DEF HeaderTypes, Counters
  <2> QED
    BY <2>1, <2>2, <2>3 DEF Init, TypeOK
<1>2. HeaderOK /\ ValidateOK /\ DeliverOK /\ FinishOK /\ ReadsStayMapped
  BY DEF Init, HeaderOK, ValidateOK, DeliverOK, FinishOK, ReadsStayMapped
<1>3. SlideOK
  BY DEF Init, SlideOK
<1> QED
  BY <1>1, <1>2, <1>3 DEF IInv

\* Where the first loop is, and what it makes of the command there.
LEMMA Validating ==
    ASSUME IInv, pc = "validate"
    PROVE  /\ consumed \in Nat /\ consumed <= image.sizeofcmds
           /\ Remaining = image.sizeofcmds - consumed
           /\ HeaderSize + image.sizeofcmds <= image.mapped
           /\ image.header # 0 /\ image.magic
           /\ visited = <<>> /\ ~context.found /\ ~result.resolved
<1>1. TypeOK /\ HeaderOK /\ ValidateOK /\ SlideOK
  BY DEF IInv
<1>2. PICK f \in Paths : f[index] = consumed
  BY <1>1 DEF ValidateOK
<1>3. consumed \in Nat /\ consumed <= image.sizeofcmds
  BY <1>1, <1>2, PathFacts, Typed
<1>4. image.sizeofcmds - consumed \in 0 .. Modulus - 1 /\ Modulus \in Nat \ {0}
  BY <1>1, <1>3, Typed
<1>5. Remaining = image.sizeofcmds - consumed
  BY <1>4, Mod DEF Remaining
<1> QED
  BY <1>1, <1>3, <1>5 DEF HeaderOK, SlideOK

\* A rejected command is part of no tiling.
LEMMA RejectCommand ==
    ASSUME IInv, pc = "validate", index < image.ncmds,
           Remaining < CommandSize \/ ~CommandFits(Command(consumed).cmdsize)
    PROVE  ~WellFormed
<1> SUFFICES ASSUME NEW starts \in SUBSET (0 .. image.sizeofcmds - 1), Tiled(starts) PROVE FALSE
  BY DEF WellFormed
<1>1. TypeOK /\ ValidateOK
  BY DEF IInv
<1>2. /\ consumed \in starts \union {image.sizeofcmds}
      /\ Cardinality({b \in starts : b < consumed}) = index
  BY <1>1 DEF ValidateOK
<1>3. consumed \in starts
  <2> SUFFICES ASSUME consumed = image.sizeofcmds PROVE FALSE
    BY <1>2
  <2>1. \A b \in starts : b < consumed
    BY <1>1, TilingFacts
  <2>2. {b \in starts : b < consumed} = starts
    BY <2>1
  <2>3. Cardinality(starts) = image.ncmds /\ Cardinality(starts) = index
    BY <1>2, <2>2 DEF Tiled
  <2>4. index \in Nat /\ index < image.ncmds
    BY <1>1, Typed
  <2> QED
    BY <2>3, <2>4
<1>4. /\ Command(consumed).cmdsize >= CommandSize /\ Command(consumed).cmdsize % Alignment = 0
      /\ consumed + Command(consumed).cmdsize <= image.sizeofcmds
      /\ Command(consumed).cmdsize \in Nat /\ consumed \in Nat
  BY <1>1, <1>3, TilingFacts DEF Tiled
<1>5. Remaining = image.sizeofcmds - consumed /\ CommandSize \in Nat /\ image.sizeofcmds \in Nat
  BY <1>1, Validating, Typed
<1> QED
  BY <1>4, <1>5 DEF CommandFits

\* An accepted command: the path goes on, and so does every tiling.
LEMMA AcceptCommand ==
    ASSUME IInv, pc = "validate", index < image.ncmds,
           CommandFits(Command(consumed).cmdsize),
           NEW next, next = consumed + Command(consumed).cmdsize
    PROVE  /\ (consumed + Command(consumed).cmdsize) % Modulus = next /\ next \in Counters
           /\ \E f \in Paths : Walks(f, index + 1) /\ f[index + 1] = next
           /\ \A starts \in SUBSET (0 .. image.sizeofcmds - 1) : Tiled(starts) =>
                 /\ next \in starts \union {image.sizeofcmds}
                 /\ Cardinality({b \in starts : b < next}) = index + 1
<1> DEFINE size == Command(consumed).cmdsize
<1>1. TypeOK /\ ValidateOK
  BY DEF IInv
<1>2. /\ consumed \in Nat /\ size \in Nat /\ size >= CommandSize /\ size % Alignment = 0
      /\ next <= image.sizeofcmds /\ consumed < next /\ next \in Nat
      /\ index \in Nat /\ index < image.ncmds /\ image.ncmds \in Nat
      /\ image.sizeofcmds \in Nat /\ image.sizeofcmds < Modulus /\ Modulus \in Nat \ {0}
  <2>1. /\ consumed \in Nat /\ size \in Nat /\ consumed <= image.sizeofcmds
        /\ Remaining = image.sizeofcmds - consumed
    BY <1>1, Validating, Typed
  <2>2. size >= CommandSize /\ size % Alignment = 0 /\ size <= image.sizeofcmds - consumed
    BY <2>1 DEF CommandFits
  <2>3. CommandSize \in Nat \ {0} /\ image.sizeofcmds \in Nat
    BY <1>1, Typed
  <2> HIDE DEF size
  <2>4. next = consumed + size
    BY DEF size
  <2>5. next <= image.sizeofcmds /\ consumed < next /\ next \in Nat
    BY <2>1, <2>2, <2>3, <2>4
  <2> QED
    BY <1>1, <2>1, <2>2, <2>5, Typed
<1>3. (consumed + size) % Modulus = next /\ next \in Counters
  <2>1. next \in 0 .. Modulus - 1
    BY <1>2
  <2> QED
    BY <1>2, <2>1, Mod DEF Counters
<1>4. \E f \in Paths : Walks(f, index + 1) /\ f[index + 1] = next
  <2>1. PICK f \in Paths : Walks(f, index) /\ f[index] = consumed
    BY <1>1 DEF ValidateOK
  <2> DEFINE g == [f EXCEPT ![index + 1] = next]
  <2>2. f \in [0 .. image.ncmds -> 0 .. image.sizeofcmds] /\ f[0] = 0
    BY DEF Paths
  <2>3. /\ g \in [0 .. image.ncmds -> 0 .. image.sizeofcmds] /\ g[index + 1] = next
        /\ \A k \in 0 .. index : g[k] = f[k] /\ f[k] \in Nat
    <3>1. index + 1 \in 0 .. image.ncmds /\ next \in 0 .. image.sizeofcmds
      BY <1>2
    <3>2. ASSUME NEW k \in 0 .. index
          PROVE  k \in 0 .. image.ncmds /\ k # index + 1
      BY <1>2
    <3>3. \A k \in 0 .. image.ncmds : f[k] \in Nat
      BY <1>1, PathFacts
    <3>4. g \in [0 .. image.ncmds -> 0 .. image.sizeofcmds]
      BY <2>2, <3>1
    <3>5. g[index + 1] = next
      BY <2>2, <3>1
    <3>6. ASSUME NEW k \in 0 .. index PROVE g[k] = f[k] /\ f[k] \in Nat
      BY <2>2, <3>2, <3>3
    <3> QED
      BY <3>4, <3>5, <3>6
  <2> HIDE DEF g
  <2>4. g \in Paths
    BY <1>2, <2>2, <2>3 DEF Paths
  <2>5. ASSUME NEW k \in 0 .. index
        PROVE  /\ Command(g[k]).cmdsize >= CommandSize
               /\ Command(g[k]).cmdsize % Alignment = 0
               /\ g[k + 1] = g[k] + Command(g[k]).cmdsize
    <3>1. CASE k = index
      BY <1>2, <2>1, <2>3, <3>1
    <3>2. CASE k # index
      <4>1. k \in 0 .. index - 1 /\ k + 1 \in 0 .. index
        BY <1>2, <3>2
      <4> QED
        BY <2>1, <2>3, <4>1 DEF Walks
    <3> QED
      BY <3>1, <3>2
  <2>6. ASSUME NEW j \in 0 .. index + 1, NEW k \in 0 .. index + 1, j < k PROVE g[j] < g[k]
    <3>1. CASE k # index + 1
      <4>1. j \in 0 .. index /\ k \in 0 .. index
        BY <1>2, <2>6, <3>1
      <4> QED
        BY <2>1, <2>3, <2>6, <4>1 DEF Walks
    <3>2. CASE k = index + 1
      <4>1. j \in 0 .. index /\ index \in 0 .. index
        BY <1>2, <2>6, <3>2
      <4>2. f[j] < consumed \/ f[j] = consumed
        BY <2>1, <4>1 DEF Walks
      <4> QED
        BY <1>2, <2>3, <3>2, <4>1, <4>2
    <3> QED
      BY <3>1, <3>2
  <2>7. Walks(g, index + 1)
    <3>1. 0 .. (index + 1) - 1 = 0 .. index
      BY <1>2
    <3>2. \A k \in 0 .. (index + 1) - 1 :
             /\ Command(g[k]).cmdsize >= CommandSize
             /\ Command(g[k]).cmdsize % Alignment = 0
             /\ g[k + 1] = g[k] + Command(g[k]).cmdsize
      BY <2>5, <3>1
    <3>3. \A j, k \in 0 .. index + 1 : j < k => g[j] < g[k]
      BY <2>6
    <3> QED
      BY <3>2, <3>3, Zenon DEF Walks
  <2> QED
    BY <2>3, <2>4, <2>7
<1>5. ASSUME NEW starts \in SUBSET (0 .. image.sizeofcmds - 1), Tiled(starts)
      PROVE  /\ next \in starts \union {image.sizeofcmds}
             /\ Cardinality({b \in starts : b < next}) = index + 1
  <2> DEFINE S == {b \in starts : b < consumed}
  <2>1. consumed \in starts \union {image.sizeofcmds} /\ Cardinality(S) = index
    BY <1>1, <1>5 DEF ValidateOK
  <2>2. consumed \in starts
    BY <1>2, <2>1
  <2>3. next \in starts \union {image.sizeofcmds}
    BY <1>5, <2>2 DEF Tiled
  <2>4. ASSUME NEW b \in starts PROVE b < next <=> (b < consumed \/ b = consumed)
    <3>1. b \in Nat /\ ~(consumed < b /\ b < next)
      BY <1>1, <1>5, <2>2, TilingFacts DEF Tiled
    <3> QED
      BY <1>2, <3>1
  <2>5. {b \in starts : b < next} = S \union {consumed}
    BY <2>2, <2>4
  <2>6. consumed \notin S
    BY <1>2
  <2>7. IsFiniteSet(S)
    <3>1. IsFiniteSet(starts) /\ S \in SUBSET starts
      BY <1>1, <1>5, TilingFacts
    <3> HIDE DEF S
    <3> QED
      BY <3>1, FS_Subset
  <2> HIDE DEF S
  <2> QED
    BY <2>1, <2>3, <2>5, <2>6, <2>7, FS_AddElement
<1> QED
  BY <1>3, <1>4, <1>5

\* A table that ends too early is no tiling.
LEMMA RejectEnd ==
    ASSUME IInv, pc = "validate", index = image.ncmds, consumed # image.sizeofcmds
    PROVE  ~WellFormed
<1> SUFFICES ASSUME NEW starts \in SUBSET (0 .. image.sizeofcmds - 1), Tiled(starts) PROVE FALSE
  BY DEF WellFormed
<1>1. TypeOK /\ ValidateOK
  BY DEF IInv
<1> DEFINE S == {b \in starts : b < consumed}
<1>2. consumed \in starts /\ Cardinality(S) = index
  BY <1>1 DEF ValidateOK
<1>3. IsFiniteSet(starts) /\ S \in SUBSET starts /\ Cardinality(starts) = index
  BY <1>1, TilingFacts DEF Tiled
<1>4. consumed \notin S
  BY <1>1, Validating
<1> HIDE DEF S
<1>5. S = starts
  BY <1>2, <1>3, FS_Subset
<1> QED
  BY <1>2, <1>4, <1>5

-----------------------------------------------------------------------------
(* Every step keeps the invariant.                                         *)

LEMMA Read ==
    ASSUME ReadsStayMapped, Next, NEW o \in Int, NEW n \in Int, o + n <= image.mapped,
           reads' = reads \union {<<o, n>>}
    PROVE  ReadsStayMapped'
BY Kept DEF ReadsStayMapped

LEMMA Rejecting ==
    ASSUME IInv, Next, ~WellFormed, visited = <<>>, ~context.found, ~result.resolved,
           pc' = "returned", UNCHANGED <<index, consumed, context, result, visited>>,
           ReadsStayMapped'
    PROVE  IInv'
<1>1. TypeOK'
  BY Kept DEF IInv, TypeOK
<1>2. HeaderOK' /\ ValidateOK' /\ DeliverOK'
  BY DEF HeaderOK, ValidateOK, DeliverOK
<1>3. FinishOK'
  BY Kept DEF FinishOK
<1>4. SlideOK'
  BY DEF IInv, SlideOK
<1> QED
  BY <1>1, <1>2, <1>3, <1>4 DEF IInv

LEMMA Calling ==
    ASSUME IInv, pc = "call"
    PROVE  visited = <<>> /\ ~context.found /\ ~result.resolved /\ index = 0 /\ consumed = 0
BY DEF IInv, SlideOK, HeaderOK

LEMMA RejectUnreadableIInv == ASSUME IInv, Next, RejectUnreadable PROVE IInv'
<1>1. pc = "call" /\ pc' = "returned" /\ UNCHANGED <<index, consumed, context, result, visited, reads>>
  BY DEF RejectUnreadable, Unresolved, Goto
<1>2. image.sizeofcmds \in Nat /\ image.mapped \in Nat /\ HeaderSize \in Nat
  BY Typed DEF IInv
<1>3. ~WellFormed
  BY <1>2 DEF RejectUnreadable, WellFormed
<1>4. ReadsStayMapped'
  BY <1>1, Kept DEF IInv, ReadsStayMapped
<1> QED
  BY <1>1, <1>3, <1>4, Calling, Rejecting

\* The first loop starts at the start of every tiling.
LEMMA StartOfTable ==
    ASSUME TypeOK
    PROVE  /\ \E f \in Paths : Walks(f, 0) /\ f[0] = 0
           /\ \A starts \in SUBSET (0 .. image.sizeofcmds - 1) : Tiled(starts) =>
                 /\ 0 \in starts \union {image.sizeofcmds}
                 /\ Cardinality({b \in starts : b < 0}) = 0
<1>1. \E f \in Paths : Walks(f, 0) /\ f[0] = 0
  <2> DEFINE g == [k \in 0 .. image.ncmds |-> 0]
  <2>1. image.ncmds \in Nat /\ image.sizeofcmds \in Nat
    BY Typed
  <2>2. g \in Paths /\ g[0] = 0
    BY <2>1 DEF Paths
  <2> HIDE DEF g
  <2>3. Walks(g, 0)
    <3>1. 0 .. 0 - 1 = {}
      OBVIOUS
    <3>2. \A j, k \in 0 .. 0 : ~(j < k)
      OBVIOUS
    <3> QED
      BY <3>1, <3>2 DEF Walks
  <2> QED
    BY <2>2, <2>3
<1>2. ASSUME NEW starts \in SUBSET (0 .. image.sizeofcmds - 1), Tiled(starts)
      PROVE  /\ 0 \in starts \union {image.sizeofcmds}
             /\ Cardinality({b \in starts : b < 0}) = 0
  <2>1. \A b \in starts : b \in Nat
    BY <1>2, TilingFacts
  <2>2. \A b \in Nat : ~(b < 0)
    OBVIOUS
  <2>3. {b \in starts : b < 0} = {}
    BY <2>1, <2>2, Zenon
  <2> QED
    BY <1>2, <2>3, FS_EmptySet DEF Tiled
<1> QED
  BY <1>1, <1>2

LEMMA CheckHeaderIInv == ASSUME IInv, Next, CheckHeader PROVE IInv'
<1>1. pc = "call" /\ UNCHANGED <<index, consumed, context, result, visited>>
  BY DEF CheckHeader, Unresolved, Goto
<1>2. /\ TypeOK /\ image.sizeofcmds \in Nat /\ image.mapped \in Nat /\ HeaderSize \in Nat
      /\ image.ncmds \in Nat
  BY Typed DEF IInv
<1>3. ReadsStayMapped'
  <2>1. 0 + HeaderSize <= image.mapped /\ 0 \in Int /\ HeaderSize \in Int
    BY <1>2 DEF CheckHeader
  <2> QED
    BY <2>1, Read DEF IInv, CheckHeader
<1>4. CASE HeaderFits /\ pc' = "validate"
  <2>1. TypeOK'
    BY <1>1, <1>4, Kept DEF IInv, TypeOK
  <2>2. HeaderOK'
    BY <1>2, <1>4, Kept DEF HeaderOK, HeaderFits, CheckHeader
  <2>3. index' = 0 /\ consumed' = 0
    BY <1>1, Calling
  <2>4. ValidateOK'
    <3>1. \E f \in Paths' : Walks(f, 0)' /\ f[0] = 0
      <4>1. PICK f \in Paths : Walks(f, 0) /\ f[0] = 0
        BY <1>2, StartOfTable
      <4> QED
        BY <4>1, Kept, KeptFormulas
    <3>2. ASSUME NEW starts \in SUBSET (0 .. image'.sizeofcmds - 1), Tiled(starts)'
          PROVE  /\ 0 \in starts \union {image'.sizeofcmds}
                 /\ Cardinality({b \in starts : b < 0}) = 0
      <4>1. starts \in SUBSET (0 .. image.sizeofcmds - 1) /\ Tiled(starts)
        BY <3>2, Kept, KeptFormulas
      <4> QED
        BY <1>2, <4>1, StartOfTable, Kept
    <3> QED
      BY <2>3, <3>1, <3>2 DEF ValidateOK
  <2>5. DeliverOK' /\ FinishOK'
    BY <1>4 DEF DeliverOK, FinishOK
  <2>6. SlideOK'
    BY <1>1, <1>4, Calling DEF IInv, SlideOK
  <2> QED
    BY <1>3, <2>1, <2>2, <2>4, <2>5, <2>6 DEF IInv
<1>5. CASE ~HeaderFits /\ pc' = "returned"
  <2>1. ~WellFormed
    <3> SUFFICES ASSUME WellFormed PROVE FALSE
      OBVIOUS
    <3>1. /\ image.magic /\ image.mapped >= HeaderSize + image.sizeofcmds
          /\ \E starts \in SUBSET (0 .. image.sizeofcmds - 1) : Tiled(starts)
      BY DEF WellFormed
    <3>2. image.ncmds <= image.sizeofcmds \div CommandSize
      BY <1>2, <3>1, TilingBound
    <3>3. image.sizeofcmds <= image.mapped - HeaderSize
      BY <1>2, <3>1
    <3> QED
      BY <1>5, <3>1, <3>2, <3>3 DEF HeaderFits
  <2> QED
    BY <1>1, <1>3, <1>5, <2>1, Calling, Rejecting
<1> QED
  BY <1>4, <1>5 DEF CheckHeader, Unresolved, Goto

LEMMA ValidateCommandIInv == ASSUME IInv, Next, ValidateCommand PROVE IInv'
<1> DEFINE size == Command(consumed).cmdsize
<1>1. pc = "validate" /\ index < image.ncmds
  BY DEF ValidateCommand, Unresolved, Goto
<1>2. /\ TypeOK /\ image.sizeofcmds \in Nat /\ image.mapped \in Nat /\ HeaderSize \in Nat
      /\ index \in Nat /\ image.ncmds \in Nat /\ CommandSize \in Nat
  BY Typed DEF IInv
<1>3. /\ consumed \in Nat /\ consumed <= image.sizeofcmds
      /\ Remaining = image.sizeofcmds - consumed
      /\ HeaderSize + image.sizeofcmds <= image.mapped
      /\ image.header # 0 /\ image.magic
      /\ visited = <<>> /\ ~context.found /\ ~result.resolved
  BY <1>1, Validating
<1>4. CASE /\ Remaining < CommandSize
           /\ pc' = "returned" /\ UNCHANGED <<index, consumed, context, result, visited, reads>>
  <2>1. ~WellFormed
    BY <1>1, <1>4, RejectCommand
  <2>2. ReadsStayMapped'
    BY <1>4, Kept DEF IInv, ReadsStayMapped
  <2> QED
    BY <1>3, <1>4, <2>1, <2>2, Rejecting
<1>5. ASSUME Remaining >= CommandSize, reads' = reads \union {<<HeaderSize + consumed, CommandSize>>}
      PROVE  ReadsStayMapped'
  <2>1. /\ HeaderSize + consumed \in Int /\ CommandSize \in Int
        /\ (HeaderSize + consumed) + CommandSize <= image.mapped
    BY <1>2, <1>3, <1>5
  <2> QED
    BY <1>5, <2>1, Read DEF IInv
<1>6. CASE /\ Remaining >= CommandSize /\ ~CommandFits(size)
           /\ reads' = reads \union {<<HeaderSize + consumed, CommandSize>>}
           /\ pc' = "returned" /\ UNCHANGED <<index, consumed, context, result, visited>>
  <2>1. ~WellFormed
    BY <1>1, <1>6, RejectCommand
  <2> QED
    BY <1>3, <1>5, <1>6, <2>1, Rejecting
<1>7. CASE /\ Remaining >= CommandSize /\ CommandFits(size)
           /\ reads' = reads \union {<<HeaderSize + consumed, CommandSize>>}
           /\ pc' = "validate" /\ index' = index + 1
           /\ consumed' = (consumed + size) % Modulus
           /\ UNCHANGED <<context, result, visited>>
  <2> DEFINE next == consumed + size
  <2>1. /\ consumed' = next /\ next \in Counters
        /\ \E f \in Paths : Walks(f, index + 1) /\ f[index + 1] = next
        /\ \A starts \in SUBSET (0 .. image.sizeofcmds - 1) : Tiled(starts) =>
              /\ next \in starts \union {image.sizeofcmds}
              /\ Cardinality({b \in starts : b < next}) = index + 1
    BY <1>1, <1>7, AcceptCommand
  <2> HIDE DEF next, size
  <2>2. TypeOK'
    <3>1. index' \in 0 .. image.ncmds /\ consumed' \in Counters
      BY <1>1, <1>2, <1>7, <2>1
    <3> QED
      BY <1>2, <1>7, <3>1, Kept DEF TypeOK
  <2>3. HeaderOK'
    BY <1>3, <1>7, Kept DEF HeaderOK
  <2>4. ValidateOK'
    <3>1. PICK n : n = index + 1
      OBVIOUS
    <3>2. \E f \in Paths' : Walks(f, n)' /\ f[n] = next
      <4>1. PICK f \in Paths : Walks(f, n) /\ f[n] = next
        BY <2>1, <3>1
      <4> QED
        BY <4>1, Kept, KeptFormulas
    <3>3. ASSUME NEW starts \in SUBSET (0 .. image'.sizeofcmds - 1), Tiled(starts)'
          PROVE  /\ next \in starts \union {image'.sizeofcmds}
                 /\ Cardinality({b \in starts : b < next}) = n
      <4>1. starts \in SUBSET (0 .. image.sizeofcmds - 1) /\ Tiled(starts)
        BY <3>3, Kept, KeptFormulas
      <4> QED
        BY <2>1, <3>1, <4>1, Kept
    <3>4. index' = n /\ consumed' = next
      BY <1>7, <2>1, <3>1
    <3> QED
      BY <3>2, <3>3, <3>4 DEF ValidateOK
  <2>5. DeliverOK' /\ FinishOK'
    BY <1>7 DEF DeliverOK, FinishOK
  <2>6. SlideOK'
    BY <1>3, <1>7 DEF IInv, SlideOK
  <2> QED
    BY <1>5, <1>7, <2>2, <2>3, <2>4, <2>5, <2>6 DEF IInv
<1> QED
  <2>1. ~(consumed > image.sizeofcmds)
    BY <1>2, <1>3
  <2> QED
    BY <2>1, <1>4, <1>6, <1>7 DEF ValidateCommand, Unresolved, Goto

LEMMA EndValidationIInv == ASSUME IInv, Next, EndValidation PROVE IInv'
<1>1. /\ pc = "validate" /\ index = image.ncmds /\ reads' = reads
      /\ UNCHANGED <<context, result, visited>>
  BY DEF EndValidation, Unresolved, Goto
<1>2. /\ TypeOK /\ image.sizeofcmds \in Nat /\ image.ncmds \in Nat /\ 0 \in Counters
  BY Typed DEF IInv, Counters
<1>3. /\ HeaderSize + image.sizeofcmds <= image.mapped
      /\ image.header # 0 /\ image.magic
      /\ visited = <<>> /\ ~context.found /\ ~result.resolved
  BY <1>1, Validating
<1>4. ReadsStayMapped'
  BY <1>1, Kept DEF IInv, ReadsStayMapped
<1>5. CASE consumed = image.sizeofcmds /\ pc' = "deliver" /\ index' = 0 /\ consumed' = 0
  <2>1. TypeOK'
    BY <1>1, <1>2, <1>5, Kept DEF TypeOK
  <2>2. HeaderOK' /\ ValidateOK' /\ FinishOK'
    BY <1>3, <1>5, Kept DEF HeaderOK, ValidateOK, FinishOK
  <2>3. DeliverOK'
    <3>1. PICK f \in Paths : Walks(f, index) /\ f[index] = consumed
      BY <1>1 DEF IInv, ValidateOK
    <3>2. Fills(f) /\ f[0] = 0 /\ f \in Paths'
      BY <1>1, <1>5, <3>1, Kept DEF Fills, Paths
    <3>3. Fills(f)'
      BY <3>2, KeptFormulas
    <3>4. Delivered(f, 0)'
      <4>1. 0 .. 0 - 2 = {} /\ 1 .. 0 = {}
        OBVIOUS
      <4>2. Len(visited') = 0
        BY <1>1, <1>3
      <4> QED
        BY <4>1, <4>2 DEF Delivered
    <3>5. 0 .. 0 - 1 = {}
      OBVIOUS
    <3> QED
      BY <1>5, <3>2, <3>3, <3>4, <3>5 DEF DeliverOK
  <2>4. SlideOK'
    BY <1>1, <1>3, <1>5 DEF IInv, SlideOK
  <2> QED
    BY <1>4, <2>1, <2>2, <2>3, <2>4 DEF IInv
<1>6. CASE consumed # image.sizeofcmds /\ pc' = "returned" /\ UNCHANGED <<index, consumed>>
  BY <1>1, <1>3, <1>4, <1>6, RejectEnd, Rejecting
<1> QED
  BY <1>5, <1>6 DEF EndValidation, Unresolved, Goto

LEMMA KeptDelivered ==
    ASSUME Next, UNCHANGED visited, NEW f, NEW n
    PROVE  /\ Delivered(f, n)' <=> Delivered(f, n)
           /\ Over(f)' <=> Over(f)
BY Kept DEF Delivered, Over, Fills, Walks, Stops, Command, IsSegment

\* Where the second loop is, on the path f that the first one has completed.
LEMMA Delivering ==
    ASSUME IInv, index < image.ncmds, NEW f \in Paths, Fills(f), f[index] = consumed
    PROVE  LET size == Command(consumed).cmdsize
           IN  /\ consumed \in Nat /\ size \in Nat /\ size >= CommandSize
               /\ f[index + 1] = consumed + size /\ consumed + size <= image.sizeofcmds
               /\ (consumed + size) % Modulus = consumed + size
               /\ consumed + size \in Counters
<1> DEFINE size == Command(consumed).cmdsize
           next == consumed + size
<1>1. TypeOK /\ index \in Nat /\ image.ncmds \in Nat /\ image.sizeofcmds \in Nat
      /\ image.sizeofcmds < Modulus /\ Modulus \in Nat \ {0}
  BY Typed DEF IInv
<1>2. index \in 0 .. image.ncmds - 1 /\ index \in 0 .. image.ncmds /\ index + 1 \in 0 .. image.ncmds
  BY <1>1
<1>3. size >= CommandSize /\ f[index + 1] = next
  BY <1>2 DEF Fills, Walks
<1>4. consumed \in Nat /\ size \in Nat
  BY <1>1, <1>2, PathFacts, Typed
<1>5. next \in Nat /\ next <= image.sizeofcmds
  BY <1>1, <1>2, <1>3, PathFacts
<1> HIDE DEF next
<1>6. next \in 0 .. Modulus - 1
  BY <1>1, <1>5
<1>7. next % Modulus = next /\ next \in Counters
  BY <1>1, <1>6, Mod DEF Counters
<1> QED
  BY <1>3, <1>4, <1>5, <1>7 DEF next

\* Delivering one more command.
LEMMA DeliverOne ==
    ASSUME IInv, Next, NEW f \in Paths, NEW n \in Nat, Delivered(f, n), f[n] = consumed,
           consumed \in Counters,
           \A k \in 0 .. n - 1 : ~Stops(f[k]),
           visited' = Append(visited, consumed)
    PROVE  /\ Delivered(f, n + 1)' /\ visited' \in Seq(Counters)
           /\ Len(visited') = n + 1 /\ visited'[n + 1] = consumed
<1>1. visited \in Seq(Counters) /\ Len(visited) = n /\ \A k \in 1 .. n : visited[k] = f[k - 1]
  BY DEF IInv, SlideOK, Delivered
<1>2. /\ visited' \in Seq(Counters) /\ Len(visited') = n + 1 /\ visited'[n + 1] = consumed
      /\ \A k \in 1 .. n : visited'[k] = visited[k]
  BY <1>1
<1>3. ASSUME NEW k \in 1 .. n + 1 PROVE visited'[k] = f[k - 1]
  <2>1. CASE k = n + 1
    <3>1. k - 1 = n
      BY <2>1
    <3> QED
      BY <1>2, <2>1, <3>1
  <2>2. CASE k # n + 1
    <3>1. k \in 1 .. n
      BY <2>2
    <3> QED
      BY <1>1, <1>2, <3>1
  <2> QED
    BY <2>1, <2>2
<1>4. ASSUME NEW k \in 0 .. (n + 1) - 2 PROVE ~Stops(f[k])'
  <2>1. k \in 0 .. n - 1
    OBVIOUS
  <2> QED
    BY <2>1, KeptFormulas
<1> QED
  BY <1>2, <1>3, <1>4 DEF Delivered

\* The slide that the visitor computes moves the segment to the header.
LEMMA SlideMoves ==
    ASSUME TypeOK, Next, consumed \in Counters, Stops(consumed),
           visited' \in Seq(Counters), visited'[Len(visited')] = consumed,
           Differs(image.header, Command(consumed).vmaddr),
           NEW s, s = Difference(image.header, Command(consumed).vmaddr)
    PROVE  Moves(s)' /\ s \in -Half .. Half - 1
<1>1. image.header \in Addresses /\ Command(consumed).vmaddr \in Addresses
  BY Typed
<1>2. s = image.header - Command(consumed).vmaddr /\ s \in -Half .. Half - 1
  BY <1>1, DifferenceIsExact
<1>3. image.header \in Int /\ Command(consumed).vmaddr \in Int
  BY <1>1, SizesAssumption DEF Addresses
<1>4. Command(consumed).vmaddr + s = image.header
  BY <1>2, <1>3
<1>5. Command(consumed).segment /\ Command(consumed).mapsHeader
  BY DEF Stops, IsSegment
<1> QED
  BY <1>2, <1>4, <1>5, Kept DEF Moves, Command

LEMMA DeliverIInv == ASSUME IInv, Next, Deliver PROVE IInv'
<1> DEFINE size == Command(consumed).cmdsize
<1>1. /\ pc = "deliver" /\ index < image.ncmds /\ visited' = Append(visited, consumed)
      /\ result' = result
      /\ reads' = reads \union {<<HeaderSize + consumed,
                                  IF IsSegment(Command(consumed)) THEN SegmentSize ELSE CommandSize>>}
  BY DEF Deliver, Goto
<1>2. /\ TypeOK /\ image.sizeofcmds \in Nat /\ image.mapped \in Nat /\ HeaderSize \in Nat
      /\ index \in Nat /\ image.ncmds \in Nat /\ CommandSize \in Nat /\ SegmentSize \in Nat
      /\ consumed \in Counters
  BY Typed DEF IInv
<1>3. PICK f \in Paths : /\ Fills(f) /\ f[index] = consumed
                         /\ Delivered(f, index)
                         /\ \A k \in 0 .. index - 1 : ~Stops(f[k])
  BY <1>1 DEF IInv, DeliverOK
<1>4. /\ consumed \in Nat /\ size \in Nat /\ size >= CommandSize
      /\ f[index + 1] = consumed + size /\ consumed + size <= image.sizeofcmds
      /\ (consumed + size) % Modulus = consumed + size
      /\ consumed + size \in Counters
  BY <1>1, <1>3, Delivering
<1>5. /\ HeaderSize + image.sizeofcmds <= image.mapped /\ image.header # 0 /\ image.magic
      /\ ~context.found /\ ~result.resolved
  BY <1>1 DEF IInv, HeaderOK, SlideOK
<1>6. ReadsStayMapped'
  <2>1. PICK n : n = IF IsSegment(Command(consumed)) THEN SegmentSize ELSE CommandSize
    OBVIOUS
  <2>2. n \in Nat /\ n <= size
    BY <1>2, <1>4, <2>1 DEF IsSegment
  <2> HIDE DEF size
  <2>3. HeaderSize + consumed \in Int /\ n \in Int /\ (HeaderSize + consumed) + n <= image.mapped
    BY <1>2, <1>4, <1>5, <2>2
  <2> QED
    BY <1>1, <2>1, <2>3, Read DEF IInv
<1>7. PICK n : n = index
  OBVIOUS
<1>8. /\ Delivered(f, n + 1)' /\ visited' \in Seq(Counters)
      /\ Len(visited') = n + 1 /\ visited'[n + 1] = consumed
  BY <1>1, <1>2, <1>3, <1>7, DeliverOne
<1>9. Fills(f)' /\ f \in Paths' /\ image' = image
  BY <1>3, Kept, KeptFormulas
<1> HIDE DEF size
<1>10. CASE /\ ~Stops(consumed) /\ pc' = "deliver" /\ index' = index + 1
            /\ consumed' = (consumed + size) % Modulus /\ context' = context
  <2>1. TypeOK'
    <3>1. index' \in 0 .. image.ncmds /\ consumed' \in Counters
      BY <1>1, <1>2, <1>4, <1>10
    <3> QED
      BY <1>1, <1>2, <1>10, <3>1, Kept DEF TypeOK
  <2>2. HeaderOK' /\ ValidateOK' /\ FinishOK'
    BY <1>5, <1>9, <1>10 DEF HeaderOK, ValidateOK, FinishOK
  <2>3. DeliverOK'
    <3>1. index' = n + 1 /\ consumed' = f[n + 1]
      BY <1>4, <1>7, <1>10
    <3>2. ASSUME NEW k \in 0 .. (n + 1) - 1 PROVE ~Stops(f[k])'
      <4>1. k \in 0 .. n - 1 \/ k = n
        BY <1>2, <1>7
      <4>2. ~Stops(f[k])
        BY <1>3, <1>7, <1>10, <4>1
      <4> QED
        BY <4>2, KeptFormulas
    <3> QED
      BY <1>8, <1>9, <3>1, <3>2 DEF DeliverOK
  <2>4. SlideOK'
    BY <1>1, <1>5, <1>8, <1>10 DEF SlideOK
  <2> QED
    BY <1>6, <2>1, <2>2, <2>3, <2>4 DEF IInv
<1>11. CASE /\ Stops(consumed) /\ pc' = "finish" /\ UNCHANGED <<index, consumed>>
            /\ context' = IF Differs(image.header, Command(consumed).vmaddr)
                          THEN [slide |-> Difference(image.header, Command(consumed).vmaddr),
                                found |-> TRUE]
                          ELSE context
  <2>1. \/ context' = context
        \/ /\ context'.found /\ context'.slide \in -Half .. Half - 1
           /\ context' \in [slide : -Half .. Half - 1, found : BOOLEAN]
           /\ Moves(context.slide)'
    <3>1. CASE Differs(image.header, Command(consumed).vmaddr)
      <4>1. PICK s : s = Difference(image.header, Command(consumed).vmaddr)
        OBVIOUS
      <4>2. Moves(s)' /\ s \in -Half .. Half - 1
        BY <1>2, <1>8, <1>11, <3>1, <4>1, SlideMoves
      <4>3. context' = [slide |-> s, found |-> TRUE]
        BY <1>11, <3>1, <4>1
      <4> QED
        BY <4>2, <4>3
    <3> QED
      BY <1>11, <3>1
  <2>2. TypeOK'
    BY <1>1, <1>2, <1>11, <2>1, Kept DEF TypeOK
  <2>3. HeaderOK' /\ ValidateOK' /\ DeliverOK'
    BY <1>5, <1>9, <1>11 DEF HeaderOK, ValidateOK, DeliverOK
  <2>4. FinishOK'
    <3>1. n + 1 \in 1 .. image'.ncmds /\ (n + 1) - 1 = n
      BY <1>1, <1>2, <1>7, <1>9
    <3>2. Stops(f[(n + 1) - 1])'
      <4>1. Stops(f[n])
        BY <1>3, <1>7, <1>11
      <4> QED
        BY <3>1, <4>1, KeptFormulas
    <3>3. Over(f)'
      BY <1>8, <1>9, <3>1, <3>2 DEF Over
    <3> QED
      BY <1>9, <1>11, <3>3 DEF FinishOK
  <2>5. SlideOK'
    BY <1>1, <1>5, <1>8, <1>11, <2>1 DEF SlideOK
  <2> QED
    BY <1>6, <2>2, <2>3, <2>4, <2>5 DEF IInv
<1> QED
  BY <1>10, <1>11 DEF Deliver, Goto, Stops, size

LEMMA EndDeliveryIInv == ASSUME IInv, Next, EndDelivery PROVE IInv'
<1>1. /\ pc = "deliver" /\ pc' = "finish" /\ index = image.ncmds
      /\ UNCHANGED <<index, consumed, context, result, reads, visited>>
  BY DEF EndDelivery, Goto
<1>2. PICK f \in Paths : /\ Fills(f) /\ Delivered(f, index)
                         /\ \A k \in 0 .. index - 1 : ~Stops(f[k])
  BY <1>1 DEF IInv, DeliverOK
<1>3. Over(f)
  BY <1>1, <1>2 DEF Over
<1>4. Over(f)' /\ f \in Paths'
  BY <1>1, <1>3, Kept, KeptDelivered
<1>5. FinishOK'
  BY <1>1, <1>4 DEF FinishOK
<1>6. TypeOK' /\ ReadsStayMapped'
  BY <1>1, Kept DEF IInv, TypeOK, ReadsStayMapped
<1>7. HeaderOK' /\ ValidateOK' /\ DeliverOK'
  BY <1>1, Kept DEF IInv, HeaderOK, ValidateOK, DeliverOK
<1>8. SlideOK'
  BY <1>1 DEF IInv, SlideOK
<1> QED
  BY <1>5, <1>6, <1>7, <1>8 DEF IInv

LEMMA FinishIInv == ASSUME IInv, Next, Finish PROVE IInv'
<1>1. /\ pc = "finish" /\ pc' = "returned"
      /\ UNCHANGED <<index, consumed, context, reads, visited>>
      /\ result' = IF context.found THEN [resolved |-> TRUE, slide |-> context.slide] ELSE result
  BY DEF Finish, Goto
<1>2. TypeOK
  BY DEF IInv
<1>3. PICK f \in Paths : Over(f)
  BY <1>1 DEF IInv, FinishOK
<1>4. WellFormed
  <2>1. Fills(f) /\ image.header # 0 /\ image.magic /\ HeaderSize + image.sizeofcmds <= image.mapped
    BY <1>1, <1>3 DEF Over, IInv, HeaderOK
  <2> QED
    BY <1>2, <2>1, PathIsWellFormed
<1>5. Over(f)' /\ f \in Paths' /\ WellFormed'
  BY <1>1, <1>3, <1>4, Kept, KeptDelivered
<1>6. FinishOK'
  BY <1>1, <1>5 DEF FinishOK
<1>7. result' \in [resolved : BOOLEAN, slide : -Half .. Half - 1]
  <2>1. context.slide \in -Half .. Half - 1 /\ result \in [resolved : BOOLEAN, slide : -Half .. Half - 1]
    BY <1>2, Typed DEF TypeOK
  <2> QED
    BY <1>1, <2>1
<1>8. TypeOK'
  BY <1>1, <1>2, <1>7, Kept DEF TypeOK
<1>9. HeaderOK' /\ ValidateOK' /\ DeliverOK' /\ ReadsStayMapped'
  BY <1>1, Kept DEF IInv, HeaderOK, ValidateOK, DeliverOK, ReadsStayMapped
<1>10. SlideOK'
  <2>1. visited' \in Seq(Counters) /\ (context.found => Moves(context.slide)) /\ ~result.resolved
    BY <1>1 DEF IInv, SlideOK
  <2>2. ASSUME NEW s PROVE Moves(s)' <=> Moves(s)
    BY <1>1, Kept DEF Moves, Command
  <2> QED
    BY <1>1, <2>1, <2>2 DEF SlideOK
<1> QED
  BY <1>6, <1>8, <1>9, <1>10 DEF IInv

LEMMA NextIInv == IInv /\ [Next]_vars => IInv'
<1> SUFFICES ASSUME IInv, [Next]_vars PROVE IInv'
  OBVIOUS
<1>1. CASE Next
  BY <1>1, RejectUnreadableIInv, CheckHeaderIInv, ValidateCommandIInv, EndValidationIInv,
     DeliverIInv, EndDeliveryIInv, FinishIInv DEF Next
<1>2. CASE UNCHANGED vars
  <2>1. TypeOK' /\ HeaderOK' /\ ReadsStayMapped'
    BY <1>2 DEF vars, IInv, TypeOK, HeaderOK, ReadsStayMapped
  <2>2. ValidateOK'
    BY <1>2 DEF vars, IInv, ValidateOK, Paths, Walks, Tiled, Command
  <2>3. DeliverOK'
    BY <1>2 DEF vars, IInv, DeliverOK, Paths, Walks, Fills, Delivered, Stops, Command, IsSegment
  <2>4. FinishOK'
    <3>1. Paths' = Paths /\ (WellFormed' <=> WellFormed)
      BY <1>2 DEF vars, Paths, WellFormed, Tiled, Command
    <3>2. ASSUME NEW f PROVE Over(f)' <=> Over(f)
      BY <1>2 DEF vars, Over, Walks, Fills, Delivered, Stops, Command, IsSegment
    <3> QED
      BY <1>2, <3>1, <3>2 DEF vars, IInv, FinishOK
  <2>5. SlideOK'
    BY <1>2 DEF vars, IInv, SlideOK, Moves, Command
  <2> QED
    BY <2>1, <2>2, <2>3, <2>4, <2>5 DEF IInv
<1> QED
  BY <1>1, <1>2

LEMMA Invariant == Spec => []IInv
BY InitIInv, NextIInv, PTL DEF Spec

-----------------------------------------------------------------------------
(* What follows from the invariant.                                        *)

Seen == {visited[i] : i \in 1 .. Len(visited)}

\* The commands of a tiling up to the first at which the visitor stops.
UpToStop(starts) == {o \in starts : \A b \in starts : b < o => ~Stops(b)}

\* The visitor has seen a prefix of the path, up to where it stopped.
LEMMA SeenPrefix ==
    ASSUME TypeOK, NEW f \in Paths, Over(f),
           NEW starts, starts = {f[k] : k \in 0 .. image.ncmds - 1}
    PROVE  Seen = UpToStop(starts)
<1> DEFINE N == image.ncmds
<1>1. N \in Nat /\ \A k \in 0 .. N : f[k] \in Nat
  BY Typed, PathFacts
<1>2. \A j, k \in 0 .. N : j < k => f[j] < f[k]
  BY DEF Over, Fills, Walks
<1>3. PICK n \in 0 .. N : /\ Delivered(f, n)
                          /\ \A k \in 0 .. n - 2 : ~Stops(f[k])
                          /\ n < N => (n - 1 \in 0 .. N - 1 /\ Stops(f[n - 1]))
  <2>1. CASE Delivered(f, N)
    <3>1. N \in 0 .. N /\ ~(N < N)
      BY <1>1
    <3> QED
      BY <2>1, <3>1 DEF Delivered
  <2>2. CASE \E n \in 1 .. N : Delivered(f, n) /\ Stops(f[n - 1])
    <3>1. PICK n \in 1 .. N : Delivered(f, n) /\ Stops(f[n - 1])
      BY <2>2
    <3>2. n \in 0 .. N /\ n - 1 \in 0 .. N - 1
      BY <1>1
    <3> QED
      BY <3>1, <3>2 DEF Delivered
  <2> QED
    BY <2>1, <2>2 DEF Over
<1>4. Len(visited) = n /\ \A k \in 1 .. n : visited[k] = f[k - 1]
  BY <1>3 DEF Delivered
<1>5. Seen = {f[k] : k \in 0 .. n - 1}
  <2>1. ASSUME NEW k \in 1 .. n PROVE k - 1 \in 0 .. n - 1 /\ visited[k] = f[k - 1]
    BY <1>1, <1>4
  <2>2. ASSUME NEW k \in 0 .. n - 1 PROVE k + 1 \in 1 .. n /\ visited[k + 1] = f[k]
    <3>1. k + 1 \in 1 .. n /\ (k + 1) - 1 = k
      BY <1>1
    <3> QED
      BY <1>4, <3>1
  <2> QED
    BY <1>4, <2>1, <2>2 DEF Seen
<1>6. ASSUME NEW k \in 0 .. n - 1
      PROVE  f[k] \in starts /\ \A b \in starts : b < f[k] => ~Stops(b)
  <2>1. k \in 0 .. N - 1 /\ k \in 0 .. N
    BY <1>1
  <2>2. ASSUME NEW b \in starts, b < f[k] PROVE ~Stops(b)
    <3>1. PICK j \in 0 .. N - 1 : b = f[j]
      BY <2>2
    <3>2. j \in 0 .. N /\ f[j] \in Nat /\ f[k] \in Nat
      BY <1>1, <2>1
    <3>3. ~(k < j) /\ k # j
      BY <1>2, <2>1, <2>2, <3>1, <3>2
    <3>4. j \in 0 .. n - 2
      BY <1>1, <3>3
    <3> QED
      BY <1>3, <3>1, <3>4
  <2> QED
    BY <2>1, <2>2
<1>7. ASSUME NEW o \in starts, \A b \in starts : b < o => ~Stops(b)
      PROVE  o \in {f[k] : k \in 0 .. n - 1}
  <2>1. PICK k \in 0 .. N - 1 : o = f[k]
    BY <1>7
  <2>2. CASE k < n
    <3>1. k \in 0 .. n - 1
      BY <1>1, <2>2
    <3> QED
      BY <2>1, <3>1
  <2>3. CASE ~(k < n)
    <3>1. n < N /\ n - 1 < k /\ k \in 0 .. N
      BY <1>1, <2>3
    <3>2. n - 1 \in 0 .. N - 1 /\ n - 1 \in 0 .. N /\ Stops(f[n - 1])
      BY <1>1, <1>3, <3>1
    <3>3. f[n - 1] < o /\ f[n - 1] \in starts
      BY <1>2, <2>1, <3>1, <3>2
    <3> QED
      BY <1>7, <3>2, <3>3
  <2> QED
    BY <2>2, <2>3
<1> QED
  BY <1>5, <1>6, <1>7 DEF UpToStop

LEMMA IInvAllOrNothing == IInv => AllOrNothing
<1> SUFFICES ASSUME IInv PROVE AllOrNothing
  OBVIOUS
<1>1. TypeOK
  BY DEF IInv
<1>2. ASSUME visited # <<>> PROVE WellFormed
  <2>1. pc \in {"deliver", "finish", "returned"}
    BY <1>1, <1>2 DEF IInv, TypeOK, SlideOK
  <2>2. CASE pc = "returned"
    BY <1>2, <2>2 DEF IInv, FinishOK
  <2>3. CASE pc \in {"deliver", "finish"}
    <3>1. PICK f \in Paths : Fills(f)
      BY <2>3 DEF IInv, DeliverOK, FinishOK, Over
    <3>2. image.header # 0 /\ image.magic /\ HeaderSize + image.sizeofcmds <= image.mapped
      BY <2>3 DEF IInv, HeaderOK
    <3> QED
      BY <1>1, <3>1, <3>2, PathIsWellFormed
  <2> QED
    BY <2>1, <2>2, <2>3
<1>3. ASSUME pc = "returned", WellFormed
      PROVE  \E starts \in SUBSET (0 .. image.sizeofcmds - 1) :
                Tiled(starts) /\ Seen = UpToStop(starts)
  <2>1. PICK f \in Paths : Over(f)
    BY <1>3 DEF IInv, FinishOK
  <2>2. PICK starts : starts = {f[k] : k \in 0 .. image.ncmds - 1}
    OBVIOUS
  <2>3. starts \in SUBSET (0 .. image.sizeofcmds - 1) /\ Tiled(starts)
    BY <1>1, <2>1, <2>2, PathTiles DEF Over
  <2>4. Seen = UpToStop(starts)
    BY <1>1, <2>1, <2>2, SeenPrefix
  <2> QED
    BY <2>3, <2>4
<1> QED
  BY <1>2, <1>3 DEF AllOrNothing, Seen, UpToStop, Stops

\* The counters of RorkHookForEachLoadCommand stay in their widths, and a
\* slide that RorkHookImageSlide computes fits in intptr_t, whatever the header
\* and its table are.
THEOREM TypeCorrect == Spec => []TypeOK
<1>1. IInv => TypeOK
  BY DEF IInv
<1> QED
  BY Invariant, <1>1, PTL

\* RorkHookForEachLoadCommand and its visitors read nothing outside the memory
\* that is readable behind the header, whatever the header and its table say.
THEOREM ReadsAreMapped == Spec => []ReadsStayMapped
<1>1. IInv => ReadsStayMapped
  BY DEF IInv
<1> QED
  BY Invariant, <1>1, PTL

\* RorkHookForEachLoadCommand delivers no command of a malformed table, and of
\* a well-formed one every command up to the one that the visitor stops at.
\* The loops compute what the definition by tilings says, for every table.
THEOREM WalkIsAllOrNothing == Spec => []AllOrNothing
BY Invariant, IInvAllOrNothing, PTL

\* A slide that RorkHookImageSlide resolves moves the segment that maps the
\* header exactly to the header, for every pair of addresses.
THEOREM SlideIsTheDistance == Spec => []SlideIsExact
<1>1. IInv => SlideIsExact
  BY DEF IInv, SlideOK, Moves, SlideIsExact
<1> QED
  BY Invariant, <1>1, PTL
=============================================================================
