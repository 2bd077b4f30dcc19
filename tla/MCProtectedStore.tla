-------------------------- MODULE MCProtectedStore --------------------------
(***************************************************************************)
(* Instances of ProtectedStore: an address space of four pages of four     *)
(* bytes, the first of them unmapped, and pointers of two bytes.           *)
(***************************************************************************)
EXTENDS ProtectedStore

MCValues == {"old", "new"}
MCProt == [p \in Mapped |-> IF p = 4 THEN {"R"}
                            ELSE IF p = 8 THEN {"R", "X"} ELSE {"R", "W"}]

Store(s, request) == [slot |-> s, value |-> "new", request |-> request]
RW  == {"R", "W"}
RWC == {"R", "W", "C"}

(***************************************************************************)
(* Apart: t1 stores across pages 4 and 8, t2 on page 12, and the kernel    *)
(* may refuse to change any of the three: TPRO guards 4 and 12, and 12 is  *)
(* mapped writable.  The invalid stores are NULL, one that runs over the   *)
(* end of the address space, one that asks for no write permission and one *)
(* on the unmapped page.  t1 takes the right to read away from its second  *)
(* page, and gives it back.                                                *)
(***************************************************************************)
ApartStores == [t \in Threads |->
    IF t = "t1" THEN {Store(7, RWC), Store(0, RW), Store(1, RW)}
                ELSE {Store(13, RW), Store(15, RW), Store(13, {"R"})}]
ApartProtects == [t \in Threads |->
    IF t = "t1" THEN {[address |-> 9, size |-> 1, request |-> {}],
                      [address |-> 9, size |-> 1, request |-> {"R", "X"}]}
                ELSE {}]

\* Together: both threads store on page 4, in slots of their own.
TogetherStores == [t \in Threads |-> IF t = "t1" THEN {Store(4, RW)} ELSE {Store(6, RW)}]
NoProtects == [t \in Threads |-> {}]

\* Refused: one store on page 4, whose protection the kernel may refuse to change.
RefusedStores == [t \in Threads |-> {Store(4, RW)}]
=============================================================================
