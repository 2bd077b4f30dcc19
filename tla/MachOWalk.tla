----------------------------- MODULE MachOWalk -----------------------------
(***************************************************************************)
(* RorkHookImageSlide over RorkHookForEachLoadCommand (RorkHookInternal.c):*)
(* the load-command table behind a Mach-O header is validated as a whole,  *)
(* then delivered command by command to a visitor, here the one that       *)
(* derives the slide of the image.                                         *)
(*                                                                         *)
(* Offsets count from the start of the header.  Sizes are those of the     *)
(* structures; the 32-bit counters wrap at Modulus.                        *)
(***************************************************************************)
EXTENDS Integers, Sequences, FiniteSets

CONSTANTS
    HeaderSize,    \* sizeof(RorkHookMachHeader)
    CommandSize,   \* sizeof(struct load_command)
    SegmentSize,   \* sizeof(RorkHookSegmentCommand)
    Alignment,     \* RORK_HOOK_LOAD_COMMAND_ALIGNMENT
    Modulus,       \* 2^32, where uint32_t wraps
    Half,          \* INTPTR_MAX + 1; addresses are below 2 * Half
    Headers,       \* the headers to look at
    Tables         \* the tables to find behind them

Addresses == 0 .. 2 * Half - 1
Counters == 0 .. Modulus - 1

\* A header: where it is, how much is readable there, and what it says.
HeaderTypes == [header : Addresses, mapped : Nat, magic : BOOLEAN,
                ncmds : Counters, sizeofcmds : Counters]
\* A table: the command that is found at each offset.
TableTypes == [Counters -> [cmdsize : Counters, segment : BOOLEAN,
                            mapsHeader : BOOLEAN, vmaddr : Addresses]]

ASSUME SizesAssumption ==
    /\ HeaderSize \in Nat \ {0} /\ CommandSize \in Nat \ {0}
    /\ SegmentSize \in Nat /\ CommandSize <= SegmentSize
    /\ Alignment \in Nat \ {0} /\ Modulus \in Nat \ {0} /\ Half \in Nat \ {0}

ASSUME InputsAssumption ==
    Headers \subseteq HeaderTypes /\ \A t \in Tables : t \in TableTypes

VARIABLES
    image,      \* the header at hand
    table,      \* and its table: neither changes during the walk
    pc,
    index,      \* the loop variable of either loop
    consumed,   \* bytes of the table that either loop has passed
    context,    \* RorkHookImageSlideContext: [slide, found]
    result,     \* [resolved, slide], what RorkHookImageSlide returns
    reads,      \* history: the <<offset, length>> read from the image
    visited     \* history: the offsets of the commands delivered

vars == <<image, table, pc, index, consumed, context, result, reads, visited>>

Command(offset) == table[offset]

Init ==
    /\ image \in Headers /\ table \in Tables
    /\ pc = "call"
    /\ index = 0 /\ consumed = 0
    /\ context = [slide |-> 0, found |-> FALSE]
    /\ result = [resolved |-> FALSE, slide |-> 0]
    /\ reads = {}
    /\ visited = <<>>

Goto(from, to) == pc = from /\ pc' = to

\* Nothing was found: slide 0, not resolved.
Unresolved(from) ==
    /\ Goto(from, "returned")
    /\ UNCHANGED <<image, table, index, consumed, context, result, visited>>

\* Mutant: trusts the header about the size of its table.
Mut_HeaderFits ==
    /\ image.magic
    /\ image.ncmds <= image.sizeofcmds \div CommandSize

\* The magic number, and a table that fits what is mapped and holds ncmds commands.
HeaderFits ==
    /\ image.magic
    /\ image.sizeofcmds <= image.mapped - HeaderSize
    /\ image.ncmds <= image.sizeofcmds \div CommandSize

\* A NULL header, or less than a header readable there.
RejectUnreadable ==
    /\ image.header = 0 \/ image.mapped < HeaderSize
    /\ Unresolved("call")
    /\ UNCHANGED reads

CheckHeader ==
    /\ image.header # 0 /\ image.mapped >= HeaderSize
    /\ reads' = reads \union {<<0, HeaderSize>>}
    /\ \/ /\ HeaderFits
          /\ Goto("call", "validate")
          /\ UNCHANGED <<image, table, index, consumed, context, result, visited>>
       \/ ~HeaderFits /\ Unresolved("call")

-----------------------------------------------------------------------------
(* RorkHookValidateLoadCommands: the loop over the commands.               *)

Remaining == (image.sizeofcmds - consumed) % Modulus

CommandFits(size) ==
    size >= CommandSize /\ size % Alignment = 0 /\ size <= Remaining

ValidateCommand ==
    /\ index < image.ncmds
    /\ \/ /\ consumed > image.sizeofcmds \/ Remaining < CommandSize
          /\ Unresolved("validate")
          /\ UNCHANGED reads
       \/ /\ consumed <= image.sizeofcmds /\ Remaining >= CommandSize
          /\ reads' = reads \union {<<HeaderSize + consumed, CommandSize>>}
          /\ \/ /\ CommandFits(Command(consumed).cmdsize)
                /\ Goto("validate", "validate")
                /\ index' = index + 1
                /\ consumed' = (consumed + Command(consumed).cmdsize) % Modulus
                /\ UNCHANGED <<image, table, context, result, visited>>
             \/ ~CommandFits(Command(consumed).cmdsize) /\ Unresolved("validate")

\* Mutant: bytes may be left over behind the last command.
Mut_EndValidation ==
    /\ index = image.ncmds
    /\ Goto("validate", "deliver")
    /\ index' = 0 /\ consumed' = 0
    /\ UNCHANGED <<image, table, context, result, reads, visited>>

EndValidation ==
    /\ index = image.ncmds
    /\ UNCHANGED reads
    /\ \/ /\ consumed = image.sizeofcmds
          /\ Goto("validate", "deliver")
          /\ index' = 0 /\ consumed' = 0
          /\ UNCHANGED <<image, table, context, result, visited>>
       \/ consumed # image.sizeofcmds /\ Unresolved("validate")

-----------------------------------------------------------------------------
(* The visitor.                                                            *)

\* Mutant: takes the magnitude of a negative difference for granted.
Mut_Differs(left, right) ==
    IF left >= right THEN left - right < Half ELSE TRUE

\* RorkHookAddressDifference: whether left - right fits in intptr_t.
Differs(left, right) ==
    IF left >= right THEN left - right < Half ELSE right - left <= Half

\* Mutant: the difference stays unsigned.
Mut_Difference(left, right) == (left - right) % (2 * Half)

\* left - right as the machine computes it, in intptr_t.
Difference(left, right) ==
    LET d == (left - right) % (2 * Half)
    IN  IF d < Half THEN d ELSE d - 2 * Half

IsSegment(command) == command.segment /\ command.cmdsize >= SegmentSize

(***************************************************************************)
(* RorkHookForEachLoadCommandWithSize delivers a command to                *)
(* RorkHookImageSlideLoadCommand, which ends the walk at the segment that  *)
(* maps the header, whether the slide fits or not.                         *)
(***************************************************************************)
Deliver ==
    LET command == Command(consumed)
    IN  /\ index < image.ncmds
        /\ visited' = Append(visited, consumed)
        /\ reads' = reads \union
              {<<HeaderSize + consumed,
                 IF IsSegment(command) THEN SegmentSize ELSE CommandSize>>}
        /\ \/ /\ ~(IsSegment(command) /\ command.mapsHeader)
              /\ Goto("deliver", "deliver")
              /\ index' = index + 1
              /\ consumed' = (consumed + command.cmdsize) % Modulus
              /\ UNCHANGED context
           \/ /\ IsSegment(command) /\ command.mapsHeader
              /\ Goto("deliver", "finish")
              /\ context' = IF Differs(image.header, command.vmaddr)
                            THEN [slide |-> Difference(image.header, command.vmaddr),
                                  found |-> TRUE]
                            ELSE context
              /\ UNCHANGED <<index, consumed>>
        /\ UNCHANGED <<image, table, result>>

EndDelivery ==
    /\ index = image.ncmds
    /\ Goto("deliver", "finish")
    /\ UNCHANGED <<image, table, index, consumed, context, result, reads, visited>>

Finish ==
    /\ Goto("finish", "returned")
    /\ result' = IF context.found THEN [resolved |-> TRUE, slide |-> context.slide]
                                  ELSE result
    /\ UNCHANGED <<image, table, index, consumed, context, reads, visited>>

Next ==
    \/ RejectUnreadable \/ CheckHeader
    \/ ValidateCommand \/ EndValidation
    \/ Deliver \/ EndDelivery \/ Finish

Spec == Init /\ [][Next]_vars

-----------------------------------------------------------------------------
(* Properties.                                                             *)

\* Type correctness; the slide fits in intptr_t.
TypeOK ==
    /\ image \in HeaderTypes /\ table \in TableTypes
    /\ pc \in {"call", "validate", "deliver", "finish", "returned"}
    /\ index \in 0 .. image.ncmds
    /\ consumed \in Counters
    /\ context \in [slide : -Half .. Half - 1, found : BOOLEAN]
    /\ result \in [resolved : BOOLEAN, slide : -Half .. Half - 1]

\* Neither the validation nor the visitor of a load-command walk reads a byte
\* outside the readable memory behind the header.
ReadsStayMapped == \A r \in reads : r[1] + r[2] <= image.mapped

(***************************************************************************)
(* What a well-formed table is, said without a loop: the starts of its     *)
(* commands and its end.                                                   *)
(***************************************************************************)
Tiled(starts) ==
    /\ 0 \in starts \union {image.sizeofcmds}
    /\ Cardinality(starts) = image.ncmds
    /\ \A o \in starts :
          LET size == Command(o).cmdsize
          IN  /\ size >= CommandSize /\ size % Alignment = 0
              /\ o + size \in starts \union {image.sizeofcmds}
              /\ \A b \in starts : ~(o < b /\ b < o + size)
WellFormed ==
    /\ image.header # 0 /\ image.magic
    /\ image.mapped >= HeaderSize + image.sizeofcmds
    /\ \E starts \in SUBSET (0 .. image.sizeofcmds - 1) : Tiled(starts)

(***************************************************************************)
(* RorkHookValidateLoadCommands comes before the first call of a visitor:  *)
(* no visitor sees any command of a malformed table, and of a well-formed  *)
(* one it sees every command, up to the one it stops at.                   *)
(***************************************************************************)
AllOrNothing ==
    /\ visited # <<>> => WellFormed
    /\ pc = "returned" /\ WellFormed =>
          \E starts \in SUBSET (0 .. image.sizeofcmds - 1) :
             /\ Tiled(starts)
             /\ {visited[i] : i \in 1 .. Len(visited)} =
                   {o \in starts : \A b \in starts :
                       b < o => ~(IsSegment(Command(b)) /\ Command(b).mapsHeader)}

\* RorkHookImageSlide resolves a slide only from a segment that maps the header,
\* and moving that segment by the slide puts it at the header.
SlideIsExact ==
    result.resolved =>
        LET last == Command(visited[Len(visited)])
        IN  last.segment /\ last.mapsHeader
            /\ last.vmaddr + result.slide = image.header
=============================================================================
