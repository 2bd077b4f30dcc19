------------------------------- MODULE Arm64 -------------------------------
(***************************************************************************)
(* The instruction decoders of RorkHookArm64.c and the absolute jump that  *)
(* RorkHookFunction.c encodes, each against what the processor does with   *)
(* the instruction.  A word, a register or a 64-bit constant is the set of *)
(* the bits that are 1 in it; what the code computes with as a number is a *)
(* number of Width bits, where Width stands for 64 and PageShift for 12.   *)
(***************************************************************************)
EXTENDS Integers, Sequences

CONSTANTS
    Width,          \* the bits of an address or an int64_t that are kept
    PageShift,      \* log2 of the page ADRP counts in
    PacBits,        \* the bits of a pointer that its signature takes
    Instructions,   \* the instructions that words are assembled from
    Calls,          \* the calls to look at
    NotWritten      \* what a caller's storage holds before the call

Limit == 2 ^ Width
Addresses == 0 .. Limit - 1
Bits32 == 0 .. 31
Bits64 == 0 .. 63
Registers == 0 .. 31
JumpWords == 5      \* RORK_HOOK_ABSOLUTE_JUMP_WORDS
Null == 0
Refused == -1       \* RorkHookAddSignedOffset returned false
Outputs == {"register", "value"}

ASSUME WidthAssumption == Width \in Nat /\ Width >= 28 /\ PageShift \in 2 .. Width - 22
ASSUME PacAssumption == PacBits \subseteq Bits64

(***************************************************************************)
(* What the architecture says.  An instruction is [op, rd, rn, imm, sh]:   *)
(* its registers, the bits of its immediate and its shift field.           *)
(***************************************************************************)
Opcode ==
    [ADRP |-> {31, 28}, ADR |-> {28},
     ADD |-> {31, 28, 24}, ADDS |-> {31, 29, 28, 24}, SUB |-> {31, 30, 28, 24},
     ADDW |-> {28, 24},
     LDR |-> (27 .. 31) \union {24, 22}, STR |-> (27 .. 31) \union {24},
     LDRW |-> (27 .. 29) \union {31, 24, 22},
     LDUR |-> (27 .. 31) \union {22}, STUR |-> 27 .. 31,
     LDRpost |-> (27 .. 31) \union {22, 10}, LDTR |-> (27 .. 31) \union {22, 11},
     LDRpre |-> (27 .. 31) \union {22, 11, 10},
     MOVZ |-> {31, 30, 28, 25, 23}, MOVK |-> {31, 30, 29, 28, 25, 23},
     MOVN |-> {31, 28, 25, 23}, MOVZW |-> {30, 28, 25, 23},
     B |-> {28, 26}, BL |-> {31, 28, 26}, Bcond |-> {30, 28, 26}]

\* How many bits the immediate of an instruction has.
ImmWidth(op) == CASE op \in {"ADRP", "ADR"} -> 21
                  [] op \in {"ADD", "ADDS", "SUB", "ADDW"} -> 12
                  [] op \in {"LDR", "STR", "LDRW"} -> 12
                  [] op \in {"LDUR", "STUR", "LDRpost", "LDTR", "LDRpre"} -> 9
                  [] op \in {"MOVZ", "MOVK", "MOVN", "MOVZW"} -> 16
                  [] op \in {"B", "BL"} -> 26
                  [] op = "Bcond" -> 19

Put(bits, position) == {b + position : b \in bits}
BitsOf(n) == {b \in 0 .. 4 : (n \div 2 ^ b) % 2 = 1}

\* The word an assembler emits.
Assemble(i) ==
    LET rd == BitsOf(i.rd)
        rn == Put(BitsOf(i.rn), 5)
    IN  Opcode[i.op] \union
        CASE i.op \in {"ADRP", "ADR"} ->
                rd \union Put(i.imm \intersect {0, 1}, 29) \union Put(i.imm \ {0, 1}, 3)
          [] i.op \in {"ADD", "ADDS", "SUB", "ADDW"} ->
                rd \union rn \union Put(i.imm, 10) \union Put(BitsOf(i.sh), 22)
          [] i.op \in {"LDR", "STR", "LDRW"} -> rd \union rn \union Put(i.imm, 10)
          [] i.op \in {"LDUR", "STUR", "LDRpost", "LDTR", "LDRpre"} ->
                rd \union rn \union Put(i.imm, 12)
          [] i.op \in {"MOVZ", "MOVK", "MOVN", "MOVZW"} ->
                rd \union Put(i.imm, 5) \union Put(BitsOf(i.sh), 21)
          [] i.op \in {"B", "BL"} -> i.imm
          [] i.op = "Bcond" -> Put(i.imm, 5) \union {0}

ASSUME InstructionsAssumption ==
    \A i \in Instructions : /\ i.op \in DOMAIN Opcode
                            /\ i.rd \in Registers /\ i.rn \in Registers
                            /\ i.imm \subseteq 0 .. ImmWidth(i.op) - 1
                            /\ i.sh \in 0 .. (IF i.op \in {"MOVZ", "MOVK", "MOVN"} THEN 3 ELSE 1)

Decoders == {"ADRP", "ADDImmediate", "LDRUnsigned64", "LDRUnsignedOffset64",
             "LDRSignedPreIndex64", "LDUR64", "MOVZImmediate", "FollowOneBranch"}

ASSUME CallsAssumption ==
    \A c \in Calls :
        \/ /\ c.fn \in Decoders /\ c.instruction \in Instructions
           /\ c.pc \in Addresses /\ c.base \in Registers /\ c.given \subseteq Outputs
        \/ /\ c.fn = "SignExtend"
           /\ c.value \subseteq 0 .. Width - 1 /\ c.bits \in Int
        \/ /\ c.fn = "BuildAbsoluteJump" /\ c.build \in {"arm64", "arm64e", "x86_64"}
           /\ c.destination \subseteq Bits64 /\ c.buffer \in BOOLEAN
           /\ c.build # "arm64e" => c.destination \intersect PacBits = {}
           /\ c.capacity \in Nat /\ c.stale \subseteq Bits64

VARIABLES
    call,     \* the function and its arguments
    pc,       \* "call", "run" (the processor is in the jump), "done"
    result,   \* what the function returned
    out,      \* the caller's storage for the outputs
    code,     \* the caller's instruction buffer
    at,       \* the instruction of the buffer that is executed next
    regs,     \* the processor's registers
    target    \* where the jump went

vars == <<call, pc, result, out, code, at, regs, target>>
-----------------------------------------------------------------------------
(***************************************************************************)
(* RorkHookArm64.c                                                         *)
(***************************************************************************)
\* The number that each of the low parts of a set of bits is, the number that all
\* of it is, and a field of a word moved down to bit 0.
Sums(bits) ==
    LET sum[n \in 0 .. Width] ==
            IF n = 0 THEN 0
            ELSE sum[n - 1] + (IF n - 1 \in bits THEN 2 ^ (n - 1) ELSE 0)
    IN  sum
Value(bits) == Sums(bits)[Width]
Field(word, low, width) == {b - low : b \in word \intersect (low .. low + width - 1)}

\* The cast to int64_t.
Signed(n) == IF n >= Limit \div 2 THEN n - Limit ELSE n

\* Mutant: the sum may reach the end of the address space.
Mut_AddSignedOffset(base, offset) ==
    IF offset < 0 THEN IF base < -offset THEN Refused ELSE base + offset
    ELSE IF base > Limit - offset THEN Refused ELSE base + offset

AddSignedOffset(base, offset) ==
    IF offset < 0
    THEN LET magnitude == (-(offset + 1)) + 1
         IN  IF magnitude > Limit - 1 \/ base < magnitude THEN Refused
             ELSE base - magnitude
    ELSE LET magnitude == offset
         IN  IF magnitude > Limit - 1 \/ base > Limit - 1 - magnitude THEN Refused
             ELSE base + magnitude

\* Mutant: the bits above the immediate are not masked off.
Mut_SignExtend(value, bits) ==
    IF bits <= 0 \/ bits > Width THEN 0
    ELSE IF bits = Width THEN Signed(Value(value))
    ELSE LET signBit == {bits - 1}
             flipped == (value \ signBit) \union (signBit \ value)
         IN  Signed((Value(flipped) - Value(signBit)) % Limit)

SignExtend(value, bits) ==
    IF bits <= 0 \/ bits > Width THEN 0
    ELSE IF bits = Width THEN Signed(Value(value))
    ELSE LET masked == value \intersect (0 .. bits - 1)
             signBit == {bits - 1}
             flipped == (masked \ signBit) \union (signBit \ masked)
         IN  Signed((Value(flipped) - Value(signBit)) % Limit)

\* (instruction & mask) == opcode
Matches(word, mask, opcode) == word \intersect mask = opcode

Calling(fn) == pc = "call" /\ call.fn = fn
Instruction == Assemble(call.instruction)

Return(r) == /\ pc' = "done" /\ result' = r
             /\ UNCHANGED <<call, code, at, regs, target>>
Refuse == Return(FALSE) /\ UNCHANGED out

\* The outputs that a function writes, over what the caller's storage held.
Over(values, storage) ==
    [o \in DOMAIN storage |-> IF o \in DOMAIN values THEN values[o] ELSE storage[o]]
Give(values) == Return(TRUE) /\ out' = Over(values, out)

DecodeADRP ==
    /\ Calling("ADRP")
    /\ LET immlo == Field(Instruction, 29, 2)
           immhi == Field(Instruction, 5, 19)
           signedPages == SignExtend(Put(immhi, 2) \union immlo, 21)
           decodedPage == AddSignedOffset(call.pc - (call.pc % 2 ^ PageShift),
                                          signedPages * 2 ^ PageShift)
       IN  IF \/ call.given # Outputs
              \/ ~Matches(Instruction, {31} \union (24 .. 28), {31, 28})
              \/ decodedPage = Refused
           THEN Refuse
           ELSE Give([register |-> Value(Field(Instruction, 0, 5)), value |-> decodedPage])

DecodeADDImmediate ==
    /\ Calling("ADDImmediate")
    /\ LET destination == Value(Field(Instruction, 0, 5))
           source == Value(Field(Instruction, 5, 5))
           imm12 == Value(Field(Instruction, 10, 12))
           shift == Value(Field(Instruction, 22, 2))
       IN  IF \/ "value" \notin call.given
              \/ ~Matches(Instruction, 23 .. 31, {31, 28, 24})
              \/ destination # call.base \/ source # call.base
           THEN Refuse
           ELSE Give([value |-> IF shift = 1 THEN imm12 * 2 ^ 12 ELSE imm12])

IsLDRUnsigned(word) == Matches(word, 22 .. 31, (27 .. 31) \union {24, 22})
ScaledOffset(word) == Value(Field(word, 10, 12)) * 2 ^ 3

DecodeLDRUnsigned64 ==
    /\ Calling("LDRUnsigned64")
    /\ IF \/ "value" \notin call.given \/ ~IsLDRUnsigned(Instruction)
          \/ Value(Field(Instruction, 5, 5)) # call.base
       THEN Refuse ELSE Give([value |-> ScaledOffset(Instruction)])

DecodeLDRUnsignedOffset64 ==
    /\ Calling("LDRUnsignedOffset64")
    /\ IF "value" \notin call.given \/ ~IsLDRUnsigned(Instruction)
       THEN Refuse ELSE Give([value |-> ScaledOffset(Instruction)])

DecodeLDRSignedPreIndex64 ==
    /\ Calling("LDRSignedPreIndex64")
    /\ IF \/ "value" \notin call.given
          \/ ~Matches(Instruction, (21 .. 31) \union {10, 11},
                      (27 .. 31) \union {22, 11, 10})
       THEN Refuse ELSE Give([value |-> SignExtend(Field(Instruction, 12, 9), 9)])

\* Mutant: the mask leaves out bits 10 and 11, which tell the indexed forms apart.
Mut_DecodeLDUR64 ==
    /\ Calling("LDUR64")
    /\ IF \/ "value" \notin call.given
          \/ ~Matches(Instruction, 21 .. 31, (27 .. 31) \union {22})
          \/ Value(Field(Instruction, 5, 5)) # call.base
       THEN Refuse ELSE Give([value |-> SignExtend(Field(Instruction, 12, 9), 9)])

DecodeLDUR64 ==
    /\ Calling("LDUR64")
    /\ IF \/ "value" \notin call.given
          \/ ~Matches(Instruction, (21 .. 31) \union {10, 11}, (27 .. 31) \union {22})
          \/ Value(Field(Instruction, 5, 5)) # call.base
       THEN Refuse ELSE Give([value |-> SignExtend(Field(Instruction, 12, 9), 9)])

\* The value is given as its bits: a shift of 48 leaves the numbers here.
DecodeMOVZImmediate ==
    /\ Calling("MOVZImmediate")
    /\ LET shift == Value(Field(Instruction, 21, 2)) * 16
       IN  IF \/ "value" \notin call.given
              \/ ~Matches(Instruction, 23 .. 31, {31, 30, 28, 25, 23})
           THEN Refuse ELSE Give([value |-> Put(Field(Instruction, 5, 16), shift)])

FollowOneBranch ==
    /\ Calling("FollowOneBranch")
    /\ LET imm26 == SignExtend(Field(Instruction, 0, 26), 26)
           branch == AddSignedOffset(call.pc, imm26 * 4)
       IN  IF \/ call.pc = Null
              \/ ~Matches(Instruction, 26 .. 31, {28, 26}) \/ branch = Refused
           THEN Return(call.pc) ELSE Return(branch)
    /\ UNCHANGED out

CallSignExtend ==
    /\ Calling("SignExtend")
    /\ Return(SignExtend(call.value, call.bits)) /\ UNCHANGED out
-----------------------------------------------------------------------------
(***************************************************************************)
(* RorkHookFunction.c                                                      *)
(***************************************************************************)
EncodeMOVK(destinationRegister, immediate, shift) ==
    {31, 30, 29, 28, 25, 23} \union Put(BitsOf(shift \div 16), 21)
        \union Put(immediate, 5) \union BitsOf(destinationRegister)

EncodeBR(sourceRegister) ==
    {31, 30, 28, 26, 25} \union (16 .. 20) \union Put(BitsOf(sourceRegister), 5)

\* Mutant: the signature stays in the address.
Mut_Strip(pointer) == pointer

\* ptrauth_strip, where the build authenticates pointers.
Strip(pointer) == IF call.build = "arm64e" THEN pointer \ PacBits ELSE pointer

\* The five words; the caller goes on to run them.
BuildAbsoluteJump ==
    /\ Calling("BuildAbsoluteJump")
    /\ IF \/ call.build = "x86_64"
          \/ call.destination = {} \/ ~call.buffer \/ call.capacity < JumpWords
       THEN /\ pc' = "done" /\ result' = 0 /\ UNCHANGED code
       ELSE LET stripped == Strip(call.destination)
                lane(k) == Field(stripped, 16 * k, 16)
            IN  /\ pc' = "run" /\ result' = JumpWords
                /\ code' = [k \in DOMAIN code |->
                                IF k < JumpWords
                                THEN EncodeMOVK(16, lane(k - 1), 16 * (k - 1))
                                ELSE IF k = JumpWords THEN EncodeBR(16) ELSE code[k]]
    /\ UNCHANGED <<call, out, at, regs, target>>

(***************************************************************************)
(* The processor in the jump: MOVK replaces one lane of its register, BR   *)
(* goes to the address its register holds.                                 *)
(***************************************************************************)
IsMOVK(word) == Matches(word, 23 .. 31, Opcode.MOVK)
IsBR(word) == Matches(word, (0 .. 4) \union (10 .. 31), {31, 30, 28, 26, 25} \union (16 .. 20))

ExecuteMOVK ==
    /\ pc = "run" /\ IsMOVK(code[at])
    /\ LET shift == Value(Field(code[at], 21, 2)) * 16
       IN  regs' = [regs EXCEPT ![Value(Field(code[at], 0, 5))] =
                        (@ \ (shift .. shift + 15)) \union Put(Field(code[at], 5, 16), shift)]
    /\ at' = at + 1
    /\ UNCHANGED <<call, pc, result, out, code, target>>

ExecuteBR ==
    /\ pc = "run" /\ IsBR(code[at])
    /\ target' = regs[Value(Field(code[at], 5, 5))] /\ pc' = "done"
    /\ UNCHANGED <<call, result, out, code, at, regs>>
-----------------------------------------------------------------------------
Blank == [o \in Outputs |-> NotWritten]
Stale(c) == IF c.fn = "BuildAbsoluteJump" THEN c.stale ELSE {}
Capacity(c) == IF c.fn = "BuildAbsoluteJump" THEN c.capacity ELSE 0

Init == /\ call \in Calls
        /\ pc = "call" /\ result = NotWritten
        /\ out = Blank
        /\ code = [k \in 1 .. Capacity(call) |-> {}]
        /\ at = 1
        /\ regs = [r \in Registers |-> Stale(call)]
        /\ target = {}

Next == \/ DecodeADRP \/ DecodeADDImmediate \/ DecodeLDRUnsigned64
        \/ DecodeLDRUnsignedOffset64 \/ DecodeLDRSignedPreIndex64 \/ DecodeLDUR64
        \/ DecodeMOVZImmediate \/ FollowOneBranch \/ CallSignExtend
        \/ BuildAbsoluteJump \/ ExecuteMOVK \/ ExecuteBR

Spec == Init /\ [][Next]_vars
-----------------------------------------------------------------------------
\* Two's complement: the top bit counts negatively.
TwosComplement(bits, width) ==
    Value(bits \intersect (0 .. width - 2)) - (IF width - 1 \in bits THEN 2 ^ (width - 1) ELSE 0)

Imm(i) == TwosComplement(i.imm, ImmWidth(i.op))

\* The page ADRP forms at the caller's pc, and where B goes from there.
Page(c) == (c.pc \div 2 ^ PageShift + Imm(c.instruction)) * 2 ^ PageShift
Destination(c) == c.pc + 4 * Imm(c.instruction)

\* The calls whose instruction is the one the decoder is for, through the
\* register asked for and to an address that exists, with room for the answer.
Applies(c) ==
    LET i == c.instruction
    IN  CASE c.fn = "ADRP" -> i.op = "ADRP" /\ Page(c) \in Addresses /\ c.given = Outputs
          [] c.fn = "ADDImmediate" -> i.op = "ADD" /\ {i.rd, i.rn} = {c.base}
          [] c.fn = "LDRUnsigned64" -> i.op = "LDR" /\ i.rn = c.base
          [] c.fn = "LDRUnsignedOffset64" -> i.op = "LDR"
          [] c.fn = "LDRSignedPreIndex64" -> i.op = "LDRpre"
          [] c.fn = "LDUR64" -> i.op = "LDUR" /\ i.rn = c.base
          [] c.fn = "MOVZImmediate" -> i.op = "MOVZ"
          [] c.fn = "FollowOneBranch" ->
                i.op = "B" /\ c.pc # Null /\ Destination(c) \in Addresses

\* What the processor does with it.
Effect(c) ==
    LET i == c.instruction
    IN  CASE c.fn = "ADRP" -> [register |-> i.rd, value |-> Page(c)]
          [] c.fn = "ADDImmediate" -> [value |-> Value(Put(i.imm, 12 * i.sh))]
          [] c.fn \in {"LDRUnsigned64", "LDRUnsignedOffset64"} ->
                [value |-> 8 * Value(i.imm)]
          [] c.fn \in {"LDRSignedPreIndex64", "LDUR64"} -> [value |-> Imm(i)]
          [] c.fn = "MOVZImmediate" -> [value |-> Put(i.imm, 16 * i.sh)]

\* A decoder answers exactly the instructions it is for, among all that look
\* like them, and with what the processor does with them: the page of ADRP and
\* the target of B are exact, or refused where they would leave the address
\* space at either end; the caller's storage is untouched when it refuses.
DecodesWhatTheProcessorDoes ==
    pc = "done" /\ call.fn \in Decoders \ {"FollowOneBranch"} =>
        LET given == Applies(call) /\ "value" \in call.given
        IN  /\ result = given
            /\ out = IF given THEN Over(Effect(call), Blank) ELSE Blank

\* RorkHookFollowOneBranch goes where the processor goes from an unconditional
\* B, and stays where it is for every other instruction, BL and B.cond among
\* them, for NULL, and for a branch out of the address space at either end.
FollowsTheBranch ==
    pc = "done" /\ call.fn = "FollowOneBranch" =>
        result = IF Applies(call) THEN Destination(call) ELSE call.pc

\* RorkHookArm64SignExtend is the two's complement of the low bits, whatever
\* the bits above them are, from one bit to the full width; 0 for no width.
ExtendsTheSign ==
    pc = "done" /\ call.fn = "SignExtend" =>
        result = IF call.bits \in 1 .. Width THEN TwosComplement(call.value, call.bits) ELSE 0

\* The sequence of RorkHookBuildAbsoluteJump, run by a processor whose
\* registers hold anything, arrives at the raw address of the destination and
\* changes no register but x16.  When it is refused, the buffer is as it was.
JumpLands ==
    call.fn = "BuildAbsoluteJump" =>
        /\ pc = "run" => IsMOVK(code[at]) \/ IsBR(code[at])
        /\ pc = "done" /\ result = JumpWords =>
              /\ target = call.destination \ PacBits
              /\ \A r \in Registers \ {16} : regs[r] = call.stale
        /\ pc = "done" /\ result # JumpWords => \A k \in DOMAIN code : code[k] = {}
=============================================================================
