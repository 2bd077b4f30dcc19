------------------------------ MODULE MCDetour ------------------------------
(***************************************************************************)
(* Instances of Detour: pages of five instructions, jumps of two.  The     *)
(* functions at 5 and 7 share the page 5; 9 is the last instruction of it. *)
(***************************************************************************)
EXTENDS Detour

MCProt == [p \in Pages |-> IF p = 10 THEN {"R"}
                           ELSE IF p = 15 THEN {} ELSE {"R", "X"}]

Arg(f) == [function |-> f, aligned |-> TRUE, room |-> JumpWords, replacement |-> TRUE]
Rejected ==
    {Arg(Null), Arg(9), Arg(11), Arg(15), Arg(20), [Arg(5) EXCEPT !.aligned = FALSE],
     [Arg(5) EXCEPT !.replacement = FALSE], [Arg(5) EXCEPT !.room = JumpWords - 1]}
MCArguments ==
    [c \in Calls |-> CASE c = "c1" -> {Arg(5)} \union Rejected
                       [] c = "c2" -> {Arg(5), Arg(7)}
                       [] c = "d1" -> {Arg(7)}]
=============================================================================
