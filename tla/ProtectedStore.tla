--------------------------- MODULE ProtectedStore ---------------------------
(***************************************************************************)
(* RorkHookStoreProtectedPointer and the page-protection and TPRO calls it *)
(* is made of (RorkHookMemory.c).                                          *)
(*                                                                         *)
(* Threads store pointers into pages that are normally read-only.  A store *)
(* reads the protections of the one or two pages under the slot, makes     *)
(* them writable, opens the thread's TPRO window if the process enforces   *)
(* TPRO, writes, closes the window and puts the protections back.  Every   *)
(* kernel call is a step of its own: other threads run between them, and   *)
(* the kernel may refuse a change of protection.                           *)
(***************************************************************************)
EXTENDS Integers, FiniteSets

CONSTANTS
    Threads,
    PageSize,       \* vm_page_size, a power of two (the code checks it)
    SlotSize,       \* sizeof(void *)
    Limit,          \* the size of the address space: addresses wrap around here
    Mapped,         \* the mapped pages, by their first address
    Refusable,      \* pages whose protection the kernel may refuse to change
    Gated,          \* pages that TPRO guards in a process that enforces it
    Values,         \* pointer values
    InitialValue,   \* what every byte belongs to at first
    InitialProt,    \* page -> its protection at first
    Stores,         \* thread -> the [slot, value, request] it may store
    Protects,       \* thread -> the [address, size, request] it may protect
    None            \* no result yet

Rights == {"R", "W", "X"}
Requests == SUBSET (Rights \union {"C"})       \* "C" is VM_PROT_COPY
Addresses == 0 .. Limit - 1

ASSUME SizesAssumption ==
    /\ PageSize \in Nat /\ SlotSize \in Nat /\ Limit \in Nat
    /\ 0 < SlotSize /\ SlotSize <= PageSize /\ 2 * PageSize <= Limit
    /\ Limit % PageSize = 0

ASSUME PagesAssumption ==
    /\ Mapped \subseteq {p \in Addresses : p % PageSize = 0}
    /\ Refusable \subseteq Mapped /\ Gated \subseteq Mapped
    /\ InitialProt \in [Mapped -> SUBSET Rights]
    /\ InitialValue \in Values

ASSUME CallsAssumption ==
    /\ Stores \in [Threads -> SUBSET [slot : Addresses, value : Values,
                                       request : Requests]]
    /\ Protects \in [Threads -> SUBSET [address : Addresses, size : Addresses,
                                         request : Requests]]
    /\ None \notin BOOLEAN

VARIABLES
    env,         \* the device and the process: fixed when the process starts
    mem,         \* mapped byte -> the value whose pointer it belongs to
    prot,        \* mapped page -> its protection
    window,      \* thread -> its TPRO write window is open
    pc,          \* thread -> the next step of its store, "idle" between calls
    frame,       \* thread -> the local variables of its store
    result,      \* thread -> what its last store returned
    before,      \* history: the memory when the thread's store was called
    asked,       \* history: the protections and windows the callers set themselves
    unrestored   \* history: pages whose restoration the kernel refused

vars == <<env, mem, prot, window, pc, frame, result, before, asked, unrestored>>

-----------------------------------------------------------------------------
(* Pages.                                                                  *)

PageOf(a)  == a - (a % PageSize)
SlotEnd(s) == (s + SlotSize - 1) % Limit
FirstPage(s) == PageOf(s)
LastPage(s)  == PageOf(SlotEnd(s))
SpansPages(s) == FirstPage(s) # LastPage(s)
PagesUnder(s) == {FirstPage(s), LastPage(s)}
SlotBytes(s)  == s .. s + SlotSize - 1

\* The bytes of the slot on its first and on its last page.
FirstPageBytes(s) == IF SpansPages(s) THEN LastPage(s) - s ELSE SlotSize
LastPageBytes(s)  == SlotSize - FirstPageBytes(s)

\* The kernel rounds a range out to the pages that enclose it.
PagesIn(a, n) == {p \in Addresses : /\ p % PageSize = 0
                                    /\ p + PageSize > a /\ p < a + n}

\* RorkHookMemoryIsReadable: mapped and readable all over.  No page is unmapped,
\* so a region does not wrap and a page that was read keeps a protection to ask for.
Readable(a, n) == \A p \in PagesIn(a, n) : p \in Mapped /\ "R" \in prot[p]

(***************************************************************************)
(* vm_protect on a range: either every page of it takes the new protection *)
(* or the kernel refuses and leaves all of them as they were.              *)
(***************************************************************************)
Protected(a, n, request) ==
    [p \in Mapped |-> IF p \in PagesIn(a, n) THEN request \ {"C"} ELSE prot[p]]

MayProtect(a, n) == PagesIn(a, n) \subseteq Mapped
MayRefuse(a, n)  == ~(PagesIn(a, n) \subseteq Mapped \ Refusable)

-----------------------------------------------------------------------------
(* TPRO.  The window is a register of the thread.                          *)

(***************************************************************************)
(* A process enforces TPRO only on hardware that has it.  iOS 26 tells the *)
(* process whether it does; before that the code finds out by opening the  *)
(* window, which is taken to work in a process that enforces TPRO and to   *)
(* have no effect in one that does not.                                    *)
(***************************************************************************)
Environments ==
    {e \in [hardware : BOOLEAN, enforced : BOOLEAN, opens : BOOLEAN,
            configKnown : BOOLEAN, configEnables : BOOLEAN] :
        /\ e.enforced => e.hardware
        /\ e.opens => e.enforced
        /\ e.configEnables = (e.configKnown /\ e.enforced)
        /\ ~e.configKnown => e.opens = e.enforced}

\* RorkHookProbeProcessTPRO: an open window is left open, a closed one is opened
\* for the readback and closed again.
ProbeProcessTPRO(t) == window[t] \/ env.opens

\* RorkHookSupportsTPRO, through RorkHookProcessUsesTPRO.
SupportsTPRO(t) ==
    /\ env.hardware
    /\ IF env.configKnown THEN env.configEnables ELSE ProbeProcessTPRO(t)

\* Mutant: takes it for granted that the window opened.
Mut_Begun(t) == window[t] \/ SupportsTPRO(t)

\* The window of t after RorkHookBeginThreadTPROWrite, RorkHookEndThreadTPROWrite.
Begun(t) == window[t] \/ (SupportsTPRO(t) /\ env.opens)
Ended(t) == window[t] /\ ~SupportsTPRO(t)

\* The hardware lets t write to page p.  The window is not a change of protection:
\* a page that TPRO guards has to be mapped writable and the window open.
CanWrite(t, p) ==
    /\ "W" \in prot[p]
    /\ p \in Gated /\ env.enforced => window[t]

-----------------------------------------------------------------------------
NoFrame == [slot |-> 0, value |-> InitialValue, request |-> {}, first |-> {},
            last |-> {}, protected |-> FALSE, close |-> FALSE, wrote |-> FALSE,
            restored |-> FALSE]

Init ==
    /\ env \in Environments
    /\ mem = [a \in UNION {p .. p + PageSize - 1 : p \in Mapped} |-> InitialValue]
    /\ prot = InitialProt
    /\ window = [t \in Threads |-> FALSE]
    /\ pc = [t \in Threads |-> "idle"]
    /\ frame = [t \in Threads |-> NoFrame]
    /\ result = [t \in Threads |-> None]
    /\ before = [t \in Threads |-> mem]
    /\ asked = [prot |-> prot, window |-> window]
    /\ unrestored = {}

Goto(t, from, to) == pc[t] = from /\ pc' = [pc EXCEPT ![t] = to]

\* The store of t returns r, having come to step "from"; its frame is gone.
Return(t, from, r) ==
    /\ Goto(t, from, "idle")
    /\ result' = [result EXCEPT ![t] = r]
    /\ frame' = [frame EXCEPT ![t] = NoFrame]

machine == <<mem, prot, window>>
history == <<before, asked, unrestored>>

\* The arguments that are refused before anything is looked at.
Invalid(c) == c.slot = 0 \/ "W" \notin c.request \/ SlotEnd(c.slot) < c.slot

Called(t) ==
    /\ before' = [before EXCEPT ![t] = mem]
    /\ UNCHANGED <<env, machine, asked, unrestored>>

RejectStore(t, c) ==
    /\ Invalid(c)
    /\ Return(t, "idle", FALSE)
    /\ Called(t)

CallStore(t, c) ==
    /\ ~Invalid(c)
    /\ Goto(t, "idle", "readFirst")
    /\ frame' = [frame EXCEPT ![t] = [NoFrame EXCEPT !.slot = c.slot,
                                                     !.value = c.value,
                                                     !.request = c.request]]
    /\ result' = [result EXCEPT ![t] = None]
    /\ Called(t)

\* An unreadable or unmapped part of the slot ends the call.
CheckReadable(t, step, next, a, n) ==
    /\ IF Readable(a, n)
       THEN Goto(t, step, next) /\ UNCHANGED <<frame, result>>
       ELSE Return(t, step, FALSE)
    /\ UNCHANGED <<env, machine, history>>

ReadFirst(t) ==
    LET s == frame[t].slot
    IN  CheckReadable(t, "readFirst", IF SpansPages(s) THEN "readLast" ELSE "queryFirst",
                      s, FirstPageBytes(s))

ReadLast(t) ==
    LET s == frame[t].slot
    IN  CheckReadable(t, "readLast", "queryFirst", LastPage(s), LastPageBytes(s))

\* Mutant: takes it that both pages are protected alike.
Mut_QueryFirst(t) ==
    LET p == FirstPage(frame[t].slot)
    IN  /\ Goto(t, "queryFirst", "protect")
        /\ frame' = [frame EXCEPT ![t].first = prot[p], ![t].last = prot[p]]
        /\ UNCHANGED <<env, machine, result, history>>

\* The original protections; without a second page both are the first's.
QueryFirst(t) ==
    LET s == frame[t].slot
        p == prot[FirstPage(s)]
    IN  /\ Goto(t, "queryFirst", IF SpansPages(s) THEN "queryLast" ELSE "protect")
        /\ frame' = [frame EXCEPT ![t].first = p, ![t].last = p]
        /\ UNCHANGED <<env, machine, result, history>>

QueryLast(t) ==
    /\ Goto(t, "queryLast", "protect")
    /\ frame' = [frame EXCEPT ![t].last = prot[LastPage(frame[t].slot)]]
    /\ UNCHANGED <<env, machine, result, history>>

\* One vm_protect over all the pages of the slot.
ProtectPages(t) ==
    LET s == frame[t].slot
        n == LastPage(s) - FirstPage(s) + PageSize
    IN  /\ Goto(t, "protect", "open")
        /\ \/ /\ MayProtect(FirstPage(s), n)
              /\ prot' = Protected(FirstPage(s), n, frame[t].request)
              /\ frame' = [frame EXCEPT ![t].protected = TRUE]
           \/ /\ MayRefuse(FirstPage(s), n)
              /\ frame' = [frame EXCEPT ![t].protected = FALSE]
              /\ UNCHANGED prot
        /\ UNCHANGED <<env, mem, window, result, history>>

\* Mutant: trusts a vm_protect that succeeded although the window is closed.
Mut_TrustsProtect(t) ==
    LET supports == SupportsTPRO(t)
        opened   == supports /\ Begun(t)
    IN  /\ window' = [window EXCEPT ![t] = IF supports THEN opened ELSE @]
        /\ frame' = [frame EXCEPT ![t].close = opened /\ ~window[t],
                                  ![t].wrote = opened \/ frame[t].protected]
        /\ Goto(t, "open", IF frame'[t].wrote THEN "write" ELSE "close")
        /\ UNCHANGED <<env, mem, prot, result, history>>

\* RorkHookAllowTPROWrites and RorkHookProtectedPointerWriteIsAvailable.  A
\* window that did not open is closed again, one that was open stays the
\* caller's.
OpenWindow(t) ==
    LET supports == SupportsTPRO(t)
        opened   == supports /\ Begun(t)
    IN  /\ window' = [window EXCEPT ![t] = IF supports THEN opened ELSE @]
        /\ frame' = [frame EXCEPT ![t].close = opened /\ ~window[t],
                                  ![t].wrote = IF supports THEN opened
                                               ELSE frame[t].protected]
        /\ Goto(t, "open", IF frame'[t].wrote THEN "write" ELSE "close")
        /\ UNCHANGED <<env, mem, prot, result, history>>

\* The memcpy.  On a page that the hardware does not let t write to, it faults.
Write(t) ==
    LET s == frame[t].slot
    IN  /\ pc[t] = "write"
        /\ IF \A p \in PagesUnder(s) : CanWrite(t, p)
           THEN /\ mem' = [a \in DOMAIN mem |-> IF a \in SlotBytes(s)
                                                THEN frame[t].value ELSE mem[a]]
                /\ Goto(t, "write", "close")
           ELSE Goto(t, "write", "faulted") /\ UNCHANGED mem
        /\ UNCHANGED <<env, prot, window, frame, result, history>>

\* restoreReadOnly; after a refused vm_protect there is nothing to put back.
CloseWindow(t) ==
    /\ window' = [window EXCEPT ![t] = IF frame[t].close THEN Ended(t) ELSE @]
    /\ IF frame[t].protected
       THEN Goto(t, "close", "restoreFirst") /\ UNCHANGED <<frame, result>>
       ELSE Return(t, "close", frame[t].wrote)
    /\ UNCHANGED <<env, mem, prot, history>>

\* vm_protect on one page with the protection that was found; ok is its result.
RestorePage(p, original, ok) ==
    \/ /\ ok
       /\ MayProtect(p, PageSize)
       /\ prot' = Protected(p, PageSize, original)
       /\ UNCHANGED unrestored
    \/ /\ ~ok
       /\ MayRefuse(p, PageSize)
       /\ unrestored' = unrestored \union {p}
       /\ UNCHANGED prot

\* Both pages are attempted, whatever comes of the first.
RestoreFirst(t) ==
    LET s == frame[t].slot
    IN  \E ok \in BOOLEAN :
            /\ RestorePage(FirstPage(s), frame[t].first, ok)
            /\ IF SpansPages(s)
               THEN /\ Goto(t, "restoreFirst", "restoreLast")
                    /\ frame' = [frame EXCEPT ![t].restored = ok]
                    /\ UNCHANGED result
               ELSE Return(t, "restoreFirst", frame[t].wrote /\ ok)
            /\ UNCHANGED <<env, mem, window, before, asked>>

\* Mutant: the second restoration's result hides the first's.
Mut_RestoreLast(t) ==
    \E ok \in BOOLEAN :
        /\ RestorePage(LastPage(frame[t].slot), frame[t].last, ok)
        /\ Return(t, "restoreLast", frame[t].wrote /\ ok)
        /\ UNCHANGED <<env, mem, window, before, asked>>

RestoreLast(t) ==
    \E ok \in BOOLEAN :
        /\ RestorePage(LastPage(frame[t].slot), frame[t].last, ok)
        /\ Return(t, "restoreLast", frame[t].wrote /\ frame[t].restored /\ ok)
        /\ UNCHANGED <<env, mem, window, before, asked>>

(***************************************************************************)
(* The other calls of the module, by a thread that is not in a store.      *)
(***************************************************************************)

\* RorkHookProtectMemory; RorkHookMakeMemoryWritable and -Executable are it with
\* the requests {"R", "W", "C"} and {"R", "X"}.  A refused or an empty range
\* changes nothing.
ProtectMemory(t, c) ==
    /\ pc[t] = "idle"
    /\ c.address # 0 /\ c.size # 0
    /\ MayProtect(c.address, c.size)
    /\ prot' = Protected(c.address, c.size, c.request)
    /\ asked' = [asked EXCEPT !.prot = [p \in Mapped |->
                    IF p \in PagesIn(c.address, c.size) THEN prot'[p] ELSE @[p]]]
    /\ unrestored' = unrestored \ PagesIn(c.address, c.size)
    /\ UNCHANGED <<env, mem, window, pc, frame, result, before>>

\* The caller sets its window to "open".
SetWindow(t, open) ==
    /\ pc[t] = "idle"
    /\ window' = [window EXCEPT ![t] = open]
    /\ asked' = [asked EXCEPT !.window[t] = open]
    /\ UNCHANGED <<env, mem, prot, pc, frame, result, before, unrestored>>

BeginThreadTPROWrite(t) == SetWindow(t, Begun(t))
EndThreadTPROWrite(t)   == SetWindow(t, Ended(t))

StoreStep(t) ==
    \/ ReadFirst(t) \/ ReadLast(t) \/ QueryFirst(t) \/ QueryLast(t)
    \/ ProtectPages(t) \/ OpenWindow(t) \/ Write(t) \/ CloseWindow(t)
    \/ RestoreFirst(t) \/ RestoreLast(t)

Next ==
    \E t \in Threads :
        \/ \E c \in Stores[t] : RejectStore(t, c) \/ CallStore(t, c)
        \/ StoreStep(t)
        \/ \E c \in Protects[t] : ProtectMemory(t, c)
        \/ BeginThreadTPROWrite(t) \/ EndThreadTPROWrite(t)

Spec == Init /\ [][Next]_vars

-----------------------------------------------------------------------------
(* Properties.                                                             *)

Steps == {"idle", "readFirst", "readLast", "queryFirst", "queryLast", "protect",
          "open", "write", "close", "restoreFirst", "restoreLast", "faulted"}

\* Type correctness; a window is open only where the hardware opens it.
TypeOK ==
    /\ env \in Environments
    /\ mem \in [UNION {p .. p + PageSize - 1 : p \in Mapped} -> Values]
    /\ prot \in [Mapped -> SUBSET Rights]
    /\ window \in [Threads -> BOOLEAN]
    /\ pc \in [Threads -> Steps]
    /\ frame \in [Threads -> [slot : Addresses, value : Values, request : Requests,
                              first : SUBSET Rights, last : SUBSET Rights,
                              protected : BOOLEAN, close : BOOLEAN, wrote : BOOLEAN,
                              restored : BOOLEAN]]
    /\ result \in [Threads -> BOOLEAN \union {None}]
    /\ before \in [Threads -> [DOMAIN mem -> Values]]
    /\ asked \in [prot : [Mapped -> SUBSET Rights], window : [Threads -> BOOLEAN]]
    /\ unrestored \subseteq Mapped
    /\ \A t \in Threads : window[t] => env.opens

(***************************************************************************)
(* What the comment on RorkHookProtectedPointerWriteIsAvailable says: it   *)
(* lets the memcpy run only when "the normal VM path or a verified TPRO    *)
(* window makes the pending pointer store safe to execute", so no store    *)
(* writes to a page that the hardware does not let it write to.            *)
(***************************************************************************)
NoFault == \A t \in Threads : pc[t] # "faulted"

(***************************************************************************)
(* The one way in which a store by itself can fault.  The kernel refused   *)
(* the vm_protect, a page under the slot is still not mapped writable, and *)
(* RorkHookProtectedPointerWriteIsAvailable took the open TPRO window for  *)
(* permission.  A store whose vm_protect succeeded, and every store in a   *)
(* process that does not use TPRO, runs the memcpy on writable pages only. *)
(***************************************************************************)
FaultsOnlyWhenRefused ==
    \A t \in Threads : pc[t] = "faulted" =>
        /\ ~frame[t].protected
        /\ window[t]
        /\ \E p \in PagesUnder(frame[t].slot) : "W" \notin prot[p]

InUse(p) == \E t \in Threads : pc[t] # "idle" /\ p \in PagesUnder(frame[t].slot)

(***************************************************************************)
(* RorkHookStoreProtectedPointer is a balanced transaction: a page under   *)
(* no store has the protection its owner last gave it, unless the kernel   *)
(* refused a restoration, and a thread that is in no store has its TPRO    *)
(* window as it left it.                                                   *)
(***************************************************************************)
Balanced ==
    /\ \A p \in Mapped : InUse(p) \/ p \in unrestored \/ prot[p] = asked.prot[p]
    /\ \A t \in Threads : pc[t] = "idle" => window[t] = asked.window[t]

(***************************************************************************)
(* What RorkHookStoreProtectedPointer returns is what it did: after true   *)
(* the slot holds the value and, if the call changed the protections, the  *)
(* pages under it are as the call found them; after false the slot is as   *)
(* it was, or a restoration was refused.                                   *)
(***************************************************************************)
ResultHolds(t) ==
    LET s == frame[t].slot
    IN  IF result'[t]
        THEN /\ \A a \in SlotBytes(s) : mem'[a] = frame[t].value
             /\ frame[t].protected => /\ prot'[FirstPage(s)] = frame[t].first
                                      /\ prot'[LastPage(s)] = frame[t].last
        ELSE \/ \A a \in SlotBytes(s) \intersect DOMAIN mem : mem'[a] = before[t][a]
             \/ PagesUnder(s) \intersect unrestored' # {}
Truthful ==
    [][\A t \in Threads : (pc[t] # "idle" /\ pc'[t] = "idle") => ResultHolds(t)]_vars
=============================================================================
