------------------------------ MODULE OnceCell ------------------------------
(***************************************************************************)
(* What RorkHookLocateSharedCache promises ("The result is computed once   *)
(* and cached"): a value is decided at most once, and whoever asks gets    *)
(* that value, never another one and never a part of one.                  *)
(***************************************************************************)
CONSTANTS Askers, Values, Undecided

VARIABLES
    value,   \* the value, once it is decided
    got      \* asker -> the answer it was given

Init == value = Undecided /\ got = [a \in Askers |-> Undecided]

Decide == /\ value = Undecided
          /\ value' \in Values
          /\ UNCHANGED got

Answer(a) == /\ value # Undecided /\ got[a] = Undecided
             /\ got' = [got EXCEPT ![a] = value]
             /\ UNCHANGED value

Next == Decide \/ \E a \in Askers : Answer(a)

Spec == Init /\ [][Next]_<<value, got>>
=============================================================================
