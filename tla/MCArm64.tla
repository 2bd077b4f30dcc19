------------------------------ MODULE MCArm64 ------------------------------
(***************************************************************************)
(* Every instruction class next to one the decoders accept, with its       *)
(* immediate at every edge; addresses at both ends of the address space;   *)
(* pointers with and without a signature.                                  *)
(***************************************************************************)
EXTENDS Arm64

MCPacBits == (47 .. 54) \union (56 .. 63)

\* Zero, one, the largest and the smallest, minus one, and mixed ones.
Edges(width) ==
    {{}, {0}, 0 .. width - 2, {width - 1}, 0 .. width - 1, {1, width - 2}, {2, width - 1}}

Shifts(op) == CASE op \in {"MOVZ", "MOVK", "MOVN"} -> 0 .. 3
                [] op \in {"ADD", "ADDS", "SUB", "ADDW", "MOVZW"} -> 0 .. 1
                [] OTHER -> {0}

MCInstructions ==
    UNION {[op : {op}, rd : {3, 31}, rn : {3, 16}, imm : Edges(ImmWidth(op)), sh : Shifts(op)] :
              op \in DOMAIN Opcode}

\* NULL, the first and the last page, and two addresses from which the
\* longest branch just fits.
Pcs == {0, 4, 2 ^ PageShift + 4, 2 ^ 27, Limit - 2 ^ 27 + 4, Limit - 4}

DecoderCalls ==
    [fn : {"ADRP"}, instruction : MCInstructions, pc : Pcs, base : {0},
     given : {Outputs, {"value"}, {"register"}}]
    \union
    [fn : Decoders \ {"ADRP", "FollowOneBranch"}, instruction : MCInstructions,
     pc : {4}, base : {3, 16}, given : {{"value"}, {}}]
    \union
    [fn : {"FollowOneBranch"}, instruction : MCInstructions, pc : Pcs, base : {0}, given : {{}}]

SignExtendCalls ==
    [fn : {"SignExtend"}, value : UNION {Edges(w) : w \in {5, 9, 21, 26, Width}},
     bits : {-1, 0, 1, 5, 9, 21, 26, Width - 1, Width, Width + 1}]

Plain == {{2}, {15, 16, 31, 32, 46}, 2 .. 46}
Signatures == {{}, {47, 63}, MCPacBits}

JumpCalls ==
    UNION {[fn : {"BuildAbsoluteJump"}, build : {b},
            destination : {{}} \union
                {p \union s : p \in Plain, s \in IF b = "arm64e" THEN Signatures ELSE {{}}},
            buffer : BOOLEAN, capacity : {0, 4, 5, 6}, stale : {{}, {1, 16, 40, 63}, Bits64}] :
              b \in {"arm64", "arm64e", "x86_64"}}

MCCalls == DecoderCalls \union SignExtendCalls \union JumpCalls
=============================================================================
