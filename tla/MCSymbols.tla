----------------------------- MODULE MCSymbols -----------------------------
(***************************************************************************)
(* Instances of Symbols.  The address space has 32 units, a header and an  *)
(* nlist entry two each.  The name to find is "f".                         *)
(***************************************************************************)
EXTENDS Symbols

MCNames == {"f", "gf", ""}

\* Memory is full of the bytes g f NUL g f NUL ...
SomeStrings == [a \in Addresses |->
    CASE a % 3 = 0 -> [name |-> "gf", length |-> 2]
      [] a % 3 = 1 -> [name |-> "f", length |-> 1]
      [] a % 3 = 2 -> [name |-> "", length |-> 0]]

\* and of two entries in turn.
Entry(x, v) == [strx |-> x, sect |-> TRUE, value |-> v]
Undefined(x) == [strx |-> x, sect |-> FALSE, value |-> 0]
First  == <<Undefined(2), Entry(1, 6), Entry(2, 6), Entry(1, 9), Entry(9, 9), Entry(0, 9)>>
Second == <<Entry(2, 2), Entry(2, 30), Entry(2, 6), Entry(2, 10), Entry(4, 9)>>
MCContents == [m \in (1 .. 6) \X (1 .. 5) |->
    [strings |-> SomeStrings,
     entries |-> [a \in Addresses |-> IF a % 4 < 2 THEN First[m[1]] ELSE Second[m[2]]]]]

Symtab(so, n, st, ss) == [cmd |-> "symtab", fits |-> TRUE, symoff |-> so,
                          nsyms |-> n, stroff |-> st, strsize |-> ss]
Segment(va, vs, fo, fs) == [cmd |-> "segment", fits |-> TRUE, linkedit |-> FALSE,
                            vmaddr |-> va, vmsize |-> vs, fileoff |-> fo, filesize |-> fs]
Linkedit(va, fo, fs) == [Segment(va, fs, fo, fs) EXCEPT !.linkedit = TRUE]
Short(command) == [command EXCEPT !.fits = FALSE]

Image(h, cs, rs, m) == [header |-> h, valid |-> TRUE, tableSize |-> 4, commands |-> cs,
                         regions |-> rs, content |-> m]
Call(op, i, n) == [op |-> op, image |-> i, size |-> n, name |-> "f"]
Region(a, n, p) == [start |-> a, size |-> n, prot |-> p]

(***************************************************************************)
(* Loaded images: the header is at 4, its segment moved up, down or too    *)
(* far, and __LINKEDIT with it, to 16 or out of the address space.         *)
(***************************************************************************)
LiveRegions == {{Region(4, 4, {"R", "X"}), Region(16, n, {"R"})} : n \in {6, 8}}
LiveContents == (1 .. 3) \X (1 .. 3)
LiveCommands ==
    {<<Segment(p[1], 4, 0, 4), Linkedit(p[2], 4, fs), Symtab(so, n, st, ss)>> :
        p \in {<<0, 12>>, <<8, 20>>, <<24, 0>>, <<0, 30>>, <<8, 2>>}, fs \in {7, 8},
        so \in {3, 4, 8}, n \in 0 .. 2, st \in {4, 8}, ss \in {0, 3, 4}}
LiveCalls == {Call("live", Image(4, cs, rs, m), 0) :
                 cs \in LiveCommands, rs \in LiveRegions, m \in LiveContents}

(***************************************************************************)
(* Mapped files of 14 units at 4, looked at up to 4, 13, 14 or 15, with a  *)
(* first segment that is as it should be, without file content, short,     *)
(* behind the end of the file or at the end of the address space, and a    *)
(* second one that may overlap it.                                         *)
(***************************************************************************)
FileRegions == {Region(4, 14, {"R"})}
FileContents == {<<4, 4>>, <<1, 4>>, <<5, 5>>, <<6, 4>>}
FileCommands ==
    {<<s, Segment(10, 2, 2, 2), Symtab(so, n, st, ss)>> :
        s \in {Segment(8, 2, 0, 2), Segment(8, 4, 0, 4), Segment(8, 4, 0, 1),
               Segment(8, 1, 0, 4), Segment(8, 4, 13, 4), Segment(8, 4, 31, 4),
               Segment(8, 2, 12, 4)},
        so \in {4, 10}, n \in {0, 1, 2}, st \in {4, 8, 9}, ss \in {0, 3, 5}}
FileCalls == {Call("sized", Image(4, cs, FileRegions, m), n) :
                 cs \in FileCommands, m \in FileContents, n \in {3, 13, 14, 15}}

(***************************************************************************)
(* Single cases: no header, no name, an invalid table, a table that is not *)
(* readable, commands that are missing, too short or given twice, and a    *)
(* lookup without a size.                                                  *)
(***************************************************************************)
text == Segment(0, 4, 0, 4)
data == Linkedit(12, 4, 8)
good == Symtab(4, 2, 8, 4)
With(cs) == Call("live", Image(4, cs, {Region(4, 4, {"R", "X"}), Region(16, 8, {"R"})},
                               <<3, 3>>), 0)
GoodLive == With(<<text, data, good>>)
SingleCalls ==
    {[GoodLive EXCEPT !.image.header = 0], [GoodLive EXCEPT !.name = NoName],
     [GoodLive EXCEPT !.image.valid = FALSE], [GoodLive EXCEPT !.image.regions = {}],
     With(<<data, good>>), With(<<text, good>>), With(<<text, data>>),
     With(<<text, data, Short(good)>>), With(<<text, Short(data), good>>),
     With(<<Short(text), data, good>>),
     With(<<text, data, good, Symtab(31, 2, 8, 4)>>), With(<<good, data, text>>)}
    \union {[c EXCEPT !.op = "file"] : c \in {d \in FileCalls : d.size = 14}}

MCCalls == LiveCalls \union FileCalls \union SingleCalls
=============================================================================
