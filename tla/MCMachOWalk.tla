---------------------------- MODULE MCMachOWalk ----------------------------
(***************************************************************************)
(* Instances of MachOWalk.  A header is two units long, a load command two *)
(* and a segment command four; 32-bit counters wrap at 16.                 *)
(***************************************************************************)
EXTENDS MachOWalk

Other(n) == [cmdsize |-> n, segment |-> FALSE, mapsHeader |-> FALSE, vmaddr |-> 0]
Text(n, a) == [cmdsize |-> n, segment |-> TRUE, mapsHeader |-> TRUE, vmaddr |-> a]

\* The commands at the offsets 0, 2 and 4; nothing is behind them.
Table(a, b, c) ==
    [o \in Counters |-> CASE o = 0 -> a [] o = 2 -> b [] o = 4 -> c [] OTHER -> Other(0)]

Header(h, m, magic, n, s) ==
    [header |-> h, mapped |-> m, magic |-> magic, ncmds |-> n, sizeofcmds |-> s]

(***************************************************************************)
(* Every table of up to three commands whose sizes are too small,  *)
(* misaligned, right, too large or large enough to wrap the counter.       *)
(***************************************************************************)
Commands == {Other(n) : n \in {0, 2, 3, 4, 6, 14}} \union {Text(2, 3), Text(4, 3)}
SomeTables == {Table(a, b, c) : a \in Commands, b \in Commands, c \in Commands}
SomeHeaders == {Header(5, m, TRUE, n, s) : m \in {5, 8}, n \in 0 .. 3,
                                           s \in {0, 2, 3, 4, 6}}

\* Every header address with every address of the header's segment, an
\* image that cannot be read and one that is no Mach-O image.
SlideTables == {Table(Other(2), Text(4, a), Other(0)) : a \in Addresses}
SlideHeaders == {Header(h, m, magic, 2, 6) : h \in Addresses, m \in {0, 1, 8},
                                             magic \in BOOLEAN}

MCTables == SomeTables \union SlideTables
MCHeaders == SomeHeaders \union SlideHeaders
=============================================================================
