------------------------------- MODULE Detour -------------------------------
(***************************************************************************)
(* RorkHookReplaceFunctionWithSize (RorkHookFunction.c): the destructive   *)
(* detour that writes an absolute jump over the first instructions of a    *)
(* function, while other threads run code.                                 *)
(*                                                                         *)
(* Addresses count instructions.  An instruction is "Original" or belongs  *)
(* to the jump that a call writes; memcpy writes one instruction per step, *)
(* and a core may fetch what an instruction was until the instruction      *)
(* cache is invalidated.  The kernel may refuse a change of protection.    *)
(***************************************************************************)
EXTENDS Integers, Sequences

CONSTANTS
    Calls,        \* the calls of the API, one thread each
    Runners,      \* threads that run functions
    Functions,    \* the functions they run, by their first address
    PageWords,    \* instructions per page
    JumpWords,    \* RORK_HOOK_ABSOLUTE_JUMP_WORDS
    Pages,        \* the mapped pages, by their first address
    InitialProt,  \* page -> its protection at first
    Refusable,    \* pages whose protection the kernel may refuse to change
    Arguments,    \* call -> the [function, aligned, room, replacement] it may pass
    KeptAway,     \* "range" or "page": where the callers let no other thread in
    Original      \* an instruction of the program as it was loaded

Null == 0
Words == UNION {p .. p + PageWords - 1 : p \in Pages}
Instructions == Calls \union {Original}

ASSUME WordsAssumption ==
    /\ PageWords \in Nat \ {0} /\ JumpWords \in Nat \ {0}
    /\ JumpWords <= PageWords
    /\ \A p \in Pages : p \in Nat /\ p % PageWords = 0
    /\ InitialProt \in [Pages -> SUBSET {"R", "W", "X"}]
    /\ Refusable \subseteq Pages

ASSUME UseAssumption ==
    /\ Original \notin Calls
    /\ Functions \subseteq Words \ {Null}
    /\ \A f \in Functions : \A a \in f .. f + JumpWords - 1 :
          a \in Words /\ "X" \in InitialProt[a - (a % PageWords)]
    /\ Arguments \in [Calls -> SUBSET [function : Nat, aligned : BOOLEAN, room : Nat,
                                       replacement : BOOLEAN]]
    /\ KeptAway \in {"range", "page"}

VARIABLES
    mem,        \* address -> its instruction
    fetchable,  \* address -> the instructions a core may fetch there
    prot,       \* page -> its protection
    pc,         \* call -> its next step
    frame,      \* call -> [function, word, prot, saved]: its local variables
    result,     \* call -> the kern_return_t it returned
    run,        \* runner -> [function, seen], function = Null between runs
    down,       \* runners that faulted
    latest,     \* history: address -> what its last successful call left there
    unrestored  \* history: pages left as they were by a call's last vm_protect

vars == <<mem, fetchable, prot, pc, frame, result, run, down, latest, unrestored>>
code == <<mem, fetchable, prot>>
history == <<latest, unrestored>>

PageOf(a) == a - (a % PageWords)
Range(f) == f .. f + JumpWords - 1
PagesOf(f) == {PageOf(a) : a \in Range(f)}
Function(c) == frame[c].function

(***************************************************************************)
(* What the callers keep other threads out of: by the header the range     *)
(* that is overwritten, until the call returns.                            *)
(***************************************************************************)
Near(f, g) ==
    IF KeptAway = "page" THEN PagesOf(f) \intersect PagesOf(g) # {}
                         ELSE Range(f) \intersect Range(g) # {}
Active(c) == pc[c] \notin {"call", "returned"}

-----------------------------------------------------------------------------
NotReturned == "none"
NotRunning == [function |-> Null, seen |-> <<>>]

Init ==
    /\ mem = [a \in Words |-> Original]
    /\ fetchable = [a \in Words |-> {Original}]
    /\ prot = InitialProt
    /\ pc = [c \in Calls |-> "call"]
    /\ frame = [c \in Calls |-> [function |-> Null, word |-> 0, prot |-> {},
                                 saved |-> [i \in 1 .. JumpWords |-> Original]]]
    /\ result = [c \in Calls |-> NotReturned]
    /\ run = [r \in Runners |-> NotRunning]
    /\ down = {}
    /\ latest = mem
    /\ unrestored = {}

Goto(c, from, to) == pc[c] = from /\ pc' = [pc EXCEPT ![c] = to]

Return(c, from, kr) ==
    /\ Goto(c, from, "returned")
    /\ result' = [result EXCEPT ![c] = kr]

\* Mutant: the patch may end on the next page.
Mut_InvalidArgument(x) ==
    x.function = Null \/ ~x.replacement \/ x.room < JumpWords \/ ~x.aligned

\* NULL pointers, too little room, misaligned, or not within one page.
InvalidArgument(x) ==
    \/ x.function = Null \/ ~x.replacement \/ x.room < JumpWords
    \/ ~x.aligned \/ x.function % PageWords > PageWords - JumpWords

RejectArguments(c, x) ==
    /\ InvalidArgument(x)
    /\ Return(c, "call", "KERN_INVALID_ARGUMENT")
    /\ UNCHANGED <<code, frame, run, down, history>>

\* The caller makes the call once it has kept the other threads away.
Call(c, x) ==
    /\ ~InvalidArgument(x)
    /\ \A r \in Runners : run[r].function = Null \/ ~Near(x.function, run[r].function)
    /\ \A d \in Calls : Active(d) => ~Near(x.function, Function(d))
    /\ Goto(c, "call", "readable")
    /\ frame' = [frame EXCEPT ![c].function = x.function]
    /\ UNCHANGED <<code, result, run, down, history>>

CheckReadable(c) ==
    LET p == PageOf(Function(c))
        readable == p \in Pages /\ "R" \in prot[p]
    IN  /\ \/ readable /\ Goto(c, "readable", "query") /\ UNCHANGED result
           \/ ~readable /\ Return(c, "readable", "KERN_INVALID_ADDRESS")
        /\ UNCHANGED <<code, frame, run, down, history>>

\* The protection to put back, and the instructions to put back.
QueryProtection(c) ==
    LET p == prot[PageOf(Function(c))]
    IN  /\ pc[c] = "query"
        /\ \/ /\ "X" \in p
              /\ Goto(c, "query", "writable")
              /\ frame' = [frame EXCEPT ![c] =
                    [function |-> Function(c), word |-> 0, prot |-> p,
                     saved |-> [i \in 1 .. JumpWords |-> mem[Function(c) + i - 1]]]]
              /\ UNCHANGED result
           \/ /\ "X" \notin p
              /\ Return(c, "query", "KERN_PROTECTION_FAILURE")
              /\ UNCHANGED frame
        /\ UNCHANGED <<code, run, down, history>>

Accepted(c, p) == prot' = [prot EXCEPT ![PageOf(Function(c))] = p]
Refused(c)     == PageOf(Function(c)) \in Refusable /\ UNCHANGED prot

\* RorkHookMakeMemoryWritable: takes the page's right to execute away as well.
MakeWritable(c) ==
    /\ \/ /\ Accepted(c, {"R", "W"})
          /\ Goto(c, "writable", "copy")
          /\ UNCHANGED result
       \/ /\ Refused(c)
          /\ Return(c, "writable", "KERN_FAILURE")
    /\ UNCHANGED <<mem, fetchable, frame, run, down, history>>

\* Mutant: copies one instruction too many.
Mut_CopyWord(c, step, next, instruction) ==
    LET i == frame[c].word
        a == Function(c) + i
    IN  /\ pc[c] = step
        /\ mem' = [mem EXCEPT ![a] = instruction]
        /\ fetchable' = [fetchable EXCEPT ![a] = @ \union {instruction}]
        /\ frame' = [frame EXCEPT ![c].word = (i + 1) % (JumpWords + 1)]
        /\ Goto(c, step, IF i = JumpWords THEN next ELSE step)
        /\ UNCHANGED <<prot, result, run, down, history>>

(***************************************************************************)
(* One instruction of a memcpy and of the sys_dcache_flush that follows it *)
(* and makes it fetchable; a page that is not writable stops the thread.   *)
(***************************************************************************)
CopyWord(c, step, next, instruction) ==
    LET i == frame[c].word
        a == Function(c) + i
    IN  /\ pc[c] = step
        /\ IF "W" \in prot[PageOf(a)]
           THEN /\ mem' = [mem EXCEPT ![a] = instruction]
                /\ fetchable' = [fetchable EXCEPT ![a] = @ \union {instruction}]
                /\ frame' = [frame EXCEPT ![c].word = (i + 1) % JumpWords]
                /\ Goto(c, step, IF i + 1 = JumpWords THEN next ELSE step)
           ELSE Goto(c, step, "faulted") /\ UNCHANGED <<mem, fetchable, frame>>
        /\ UNCHANGED <<prot, result, run, down, history>>

WriteJump(c) == CopyWord(c, "copy", "restore", c)

\* Mutant: after a refusal the jump stays.
Mut_Restore(c) ==
    /\ \/ Accepted(c, frame[c].prot) /\ Goto(c, "restore", "invalidate")
       \/ Refused(c) /\ Goto(c, "restore", "restoreAgain")
    /\ UNCHANGED <<mem, fetchable, frame, result, run, down, history>>

Restore(c) ==
    /\ \/ Accepted(c, frame[c].prot) /\ Goto(c, "restore", "invalidate")
       \/ Refused(c) /\ Goto(c, "restore", "copyBack")
    /\ UNCHANGED <<mem, fetchable, frame, result, run, down, history>>

CopyBack(c) ==
    CopyWord(c, "copyBack", "restoreAgain", frame[c].saved[frame[c].word + 1])

\* Mutant: does not try again.
Mut_RestoreAgain(c) ==
    /\ Goto(c, "restoreAgain", "invalidateFailed")
    /\ UNCHANGED <<code, frame, result, run, down, history>>

\* The result of the second attempt is ignored.
RestoreAgain(c) ==
    /\ \/ Accepted(c, frame[c].prot) /\ UNCHANGED unrestored
       \/ Refused(c) /\ unrestored' = unrestored \union {PageOf(Function(c))}
    /\ Goto(c, "restoreAgain", "invalidateFailed")
    /\ UNCHANGED <<mem, fetchable, frame, result, run, down, latest>>

\* sys_icache_invalidate over the patched range.
Invalidated(c) ==
    [a \in Words |-> IF a \in Range(Function(c)) THEN {mem[a]} ELSE fetchable[a]]

Invalidate(c) ==
    /\ Return(c, "invalidate", "KERN_SUCCESS")
    /\ fetchable' = Invalidated(c)
    /\ latest' = [a \in Words |-> IF a \in Range(Function(c)) THEN c ELSE latest[a]]
    /\ UNCHANGED <<mem, prot, frame, run, down, unrestored>>

InvalidateFailed(c) ==
    /\ Return(c, "invalidateFailed", "KERN_FAILURE")
    /\ fetchable' = Invalidated(c)
    /\ UNCHANGED <<mem, prot, frame, run, down, history>>

-----------------------------------------------------------------------------
(* The other threads.                                                      *)

Enter(r, f) ==
    /\ r \notin down
    /\ run[r].function = Null
    /\ \A c \in Calls : Active(c) => ~Near(Function(c), f)
    /\ run' = [run EXCEPT ![r] = [function |-> f, seen |-> <<>>]]
    /\ UNCHANGED <<code, pc, frame, result, down, history>>

\* The next instruction of the function, if its page may be executed.
Fetch(r) ==
    LET a == run[r].function + Len(run[r].seen)
    IN  /\ r \notin down
        /\ run[r].function # Null
        /\ Len(run[r].seen) < JumpWords
        /\ \/ /\ "X" \in prot[PageOf(a)]
              /\ \E i \in fetchable[a] : run' = [run EXCEPT ![r].seen = Append(@, i)]
              /\ UNCHANGED down
           \/ /\ "X" \notin prot[PageOf(a)]
              /\ down' = down \union {r}
              /\ UNCHANGED run
        /\ UNCHANGED <<code, pc, frame, result, history>>

Leave(r) ==
    /\ Len(run[r].seen) = JumpWords
    /\ run' = [run EXCEPT ![r] = NotRunning]
    /\ UNCHANGED <<code, pc, frame, result, down, history>>

CallStep(c) ==
    \/ \E x \in Arguments[c] : RejectArguments(c, x) \/ Call(c, x)
    \/ CheckReadable(c) \/ QueryProtection(c)
    \/ MakeWritable(c) \/ WriteJump(c) \/ Restore(c)
    \/ CopyBack(c) \/ RestoreAgain(c) \/ Invalidate(c) \/ InvalidateFailed(c)

RunnerStep(r) == (\E f \in Functions : Enter(r, f)) \/ Fetch(r) \/ Leave(r)

Next == (\E c \in Calls : CallStep(c)) \/ (\E r \in Runners : RunnerStep(r))

Spec == Init /\ [][Next]_vars

-----------------------------------------------------------------------------
(* Properties.                                                             *)

Steps == {"call", "readable", "query", "writable", "copy", "restore", "copyBack",
          "restoreAgain", "invalidate", "invalidateFailed", "returned", "faulted"}
Codes == {NotReturned, "KERN_SUCCESS", "KERN_INVALID_ARGUMENT", "KERN_INVALID_ADDRESS",
          "KERN_PROTECTION_FAILURE", "KERN_FAILURE"}

\* Type correctness: every write of a detour falls on a mapped instruction.
TypeOK ==
    /\ mem \in [Words -> Instructions]
    /\ fetchable \in [Words -> SUBSET Instructions]
    /\ prot \in [Pages -> SUBSET {"R", "W", "X"}]
    /\ pc \in [Calls -> Steps]
    /\ frame \in [Calls -> [function : Nat, word : 0 .. JumpWords - 1,
                            prot : SUBSET {"R", "W", "X"},
                            saved : [1 .. JumpWords -> Instructions]]]
    /\ result \in [Calls -> Codes]
    /\ \A r \in Runners : /\ run[r].function \in Functions \union {Null}
                          /\ run[r].seen \in Seq(Instructions)
                          /\ Len(run[r].seen) <= JumpWords
    /\ down \subseteq Runners
    /\ latest \in [Words -> Instructions]
    /\ unrestored \subseteq Pages

(***************************************************************************)
(* Whoever runs a function runs what the last successful                   *)
(* RorkHookReplaceFunctionWithSize left there, whole: neither a torn jump, *)
(* nor stale instructions, nor the jump of a call that returned an error.  *)
(***************************************************************************)
RunsLatest ==
    \A r \in Runners : \A i \in 1 .. Len(run[r].seen) :
        run[r].seen[i] = latest[run[r].function + i - 1]

\* No thread that stays out of what the callers protect fetches from a page that
\* a detour made non-executable, unless the kernel refused to restore it twice.
NoFetchFault ==
    \A r \in down : PageOf(run[r].function + Len(run[r].seen)) \in unrestored

\* The memcpy of a detour, and the one that undoes it, find their page writable.
NoStoreFault == \A c \in Calls : pc[c] # "faulted"

\* A page that no call is working on has its original protection, unless the
\* kernel refused to restore it twice.
ProtectionRestored ==
    \A p \in Pages : \/ prot[p] = InitialProt[p]
                     \/ p \in unrestored
                     \/ \E c \in Calls : Active(c) /\ PageOf(Function(c)) = p
=============================================================================
