---------------------------- MODULE DetourProofs ----------------------------
(***************************************************************************)
(* Proofs about Detour, for any number of calls, threads, functions and    *)
(* pages and any size of a page and of a jump: when the callers keep the   *)
(* other threads off the page (KeptAway = "page"), no store of a detour    *)
(* faults, every page gets its protection back, no other thread loses the  *)
(* right to execute, and every thread runs what the last successful call   *)
(* left, whole.                                                            *)
(***************************************************************************)
EXTENDS Detour, TLAPS

\* Where the call has taken the page's right to execute away.
Unlocked == {"copy", "restore", "copyBack", "restoreAgain"}

\* Where the instructions of the range may differ from what was left there last.
Patching == Unlocked \union {"invalidate", "invalidateFailed"}

\* A run that has not begun has seen nothing, one that faulted is not at its end.
RunOK ==
    /\ run \in [Runners -> [function : Functions \union {Null}, seen : Seq(Instructions)]]
    /\ \A r \in Runners : run[r].function = Null => run[r].seen = <<>>
    /\ \A r \in down : Len(run[r].seen) < JumpWords

\* A call that is at work patches one page, which is mapped from its query on.
Placed ==
    \A c \in Calls : pc[c] \notin {"call", "returned"} =>
        /\ frame[c].function % PageWords <= PageWords - JumpWords
        /\ pc[c] # "readable" => PageOf(frame[c].function) \in Pages

\* No two calls work on one page, and no thread runs on a page that a call works on.
Alone ==
    /\ \A c, d \in Calls :
          pc[c] \notin {"call", "returned"} /\ pc[d] \notin {"call", "returned"} /\ c # d
          => PageOf(frame[c].function) # PageOf(frame[d].function)
    /\ \A c \in Calls, r \in Runners :
          pc[c] \notin {"call", "returned"} /\ run[r].function # Null
          => PageOf(frame[c].function) \notin PagesOf(run[r].function)

\* The page is writable from MakeWritable on; what is to be put back is the
\* protection at first, and so is that of every page nobody has unlocked, unless
\* the kernel refused to restore it twice.
ProtOK ==
    /\ \A c \in Calls : pc[c] \in Unlocked =>
          prot[PageOf(frame[c].function)] = {"R", "W"}
    /\ \A c \in Calls : pc[c] \in Unlocked \union {"writable"} =>
          \/ frame[c].prot = InitialProt[PageOf(frame[c].function)]
          \/ PageOf(frame[c].function) \in unrestored
    /\ \A p \in Pages :
          \/ prot[p] = InitialProt[p]
          \/ p \in unrestored
          \/ \E c \in Calls : pc[c] \in Unlocked /\ PageOf(frame[c].function) = p
    /\ NoStoreFault

\* What the range of a call holds at each of its steps.
CodeOf(c) ==
    /\ pc[c] \in {"writable", "restore"} => frame[c].word = 0
    /\ pc[c] \in Unlocked \union {"writable"} =>
          \A i \in 1 .. JumpWords :
              frame[c].saved[i] = latest[frame[c].function + i - 1]
    /\ \A a \in Range(frame[c].function) :
          /\ pc[c] = "copy" /\ a < frame[c].function + frame[c].word => mem[a] = c
          /\ pc[c] \in {"restore", "invalidate"} => mem[a] = c
          /\ pc[c] = "copyBack" /\ a < frame[c].function + frame[c].word
                => mem[a] = latest[a]
          /\ pc[c] \in {"restoreAgain", "invalidateFailed"} => mem[a] = latest[a]

\* The instruction at a is the one left there last, in memory and in every cache.
Settled(a) == mem[a] = latest[a] /\ fetchable[a] = {latest[a]}

CodeOK ==
    /\ \A c \in Calls : CodeOf(c)
    /\ \A a \in Words :
          \/ Settled(a)
          \/ \E c \in Calls : pc[c] \in Patching /\ a \in Range(frame[c].function)

TypeInv == TypeOK /\ RunOK /\ Placed
PageInv == TypeInv /\ Alone /\ ProtOK
IInv == PageInv /\ CodeOK /\ RunsLatest /\ NoFetchFault

-----------------------------------------------------------------------------
(* Pages, ranges and the index of a copy.                                  *)

LEMMA Counting == ASSUME NEW i \in 0 .. JumpWords - 1
                  PROVE  /\ i + 1 # JumpWords => (i + 1) % JumpWords = i + 1
                         /\ i + 1 = JumpWords => (i + 1) % JumpWords = 0
                         /\ (i + 1) % JumpWords \in 0 .. JumpWords - 1
<1>1. JumpWords \in Nat \ {0}
  BY WordsAssumption
<1>2. ASSUME NEW W \in Nat \ {0}, NEW k \in 0 .. W - 1 PROVE k % W = k
  OBVIOUS
<1>3. ASSUME NEW W \in Nat \ {0} PROVE W % W = 0
  OBVIOUS
<1>4. CASE i + 1 = JumpWords
  BY <1>1, <1>3, <1>4
<1>5. CASE i + 1 # JumpWords
  BY <1>1, <1>2, <1>5
<1> QED
  BY <1>4, <1>5

LEMMA PageOfWord == ASSUME NEW a \in Words PROVE PageOf(a) \in Pages /\ a \in Nat
<1>1. PICK p \in Pages : a \in p .. p + PageWords - 1
  BY DEF Words
<1>2. PageWords \in Nat \ {0} /\ p \in Nat /\ p % PageWords = 0
  BY WordsAssumption
<1>3. ASSUME NEW W \in Nat \ {0}, NEW q \in Nat, q % W = 0, NEW i \in 0 .. W - 1
      PROVE  (q + i) % W = i
  BY <1>3
<1>4. a - p \in 0 .. PageWords - 1 /\ p + (a - p) = a
  BY <1>1, <1>2
<1>5. a % PageWords = a - p
  BY <1>2, <1>3, <1>4
<1> QED
  BY <1>1, <1>2, <1>5 DEF PageOf

LEMMA OnePage ==
    ASSUME NEW f \in Nat, f % PageWords <= PageWords - JumpWords, NEW a \in Range(f)
    PROVE  /\ PageOf(a) = PageOf(f)
           /\ PageOf(f) \in Pages => a \in Words
<1>1. PageWords \in Nat \ {0} /\ JumpWords \in Nat /\ a - f \in 0 .. PageWords - 1
  BY WordsAssumption DEF Range
<1>2. ASSUME NEW W \in Nat \ {0}, NEW q \in Nat, NEW i \in 0 .. W - 1, (q % W) + i < W
      PROVE  (q + i) % W = (q % W) + i
  BY <1>2
<1>3. f % PageWords \in 0 .. PageWords - 1
  BY <1>1
<1>4. (f % PageWords) + (a - f) < PageWords
  BY <1>1, <1>3 DEF Range
<1>5. a % PageWords = (f % PageWords) + (a - f)
  <2>1. f + (a - f) = a
    BY <1>1 DEF Range
  <2> QED
    BY <1>1, <1>2, <1>4, <2>1
<1>6. PageOf(a) = PageOf(f)
  BY <1>1, <1>3, <1>5 DEF PageOf, Range
<1>7. a \in PageOf(f) .. PageOf(f) + PageWords - 1
  BY <1>1, <1>3, <1>4 DEF PageOf, Range
<1> QED
  BY <1>6, <1>7 DEF Words

LEMMA InRange ==
    ASSUME NEW f \in Nat, NEW i \in 0 .. JumpWords - 1
    PROVE  f + i \in Range(f)
BY WordsAssumption DEF Range

-----------------------------------------------------------------------------
(* Types.                                                                  *)

Frames == [function : Nat, word : 0 .. JumpWords - 1, prot : SUBSET {"R", "W", "X"},
           saved : [1 .. JumpWords -> Instructions]]

LEMMA InitType == Init => TypeInv
<1> SUFFICES ASSUME Init PROVE TypeInv
  OBVIOUS
<1>1. frame \in [Calls -> Frames]
  <2>1. 0 \in 0 .. JumpWords - 1 /\ Null \in Nat
    BY WordsAssumption DEF Null
  <2>2. [i \in 1 .. JumpWords |-> Original] \in [1 .. JumpWords -> Instructions]
    BY DEF Instructions
  <2> QED
    BY <2>1, <2>2 DEF Init, Frames
<1>2. RunOK /\ \A r \in Runners : run[r].seen = <<>> /\ run[r].function = Null
  BY DEF Init, RunOK, NotRunning
<1>3. TypeOK
  <2>1. mem \in [Words -> Instructions] /\ fetchable \in [Words -> SUBSET Instructions]
        /\ latest \in [Words -> Instructions]
    BY DEF Init, Instructions
  <2>2. pc \in [Calls -> Steps] /\ result \in [Calls -> Codes]
    BY DEF Init, Steps, Codes, NotReturned
  <2>3. \A r \in Runners : Len(run[r].seen) <= JumpWords /\ run[r].seen \in Seq(Instructions)
    <3>1. Len(<<>>) = 0 /\ <<>> \in Seq(Instructions)
      OBVIOUS
    <3>2. 0 <= JumpWords
      BY WordsAssumption
    <3> QED
      BY <1>2, <3>1, <3>2
  <2> QED
    BY <1>1, <1>2, <2>1, <2>2, <2>3, WordsAssumption DEF Init, TypeOK, Frames
<1>4. Placed
  BY DEF Init, Placed
<1> QED
  BY <1>2, <1>3, <1>4 DEF TypeInv

LEMMA CallType ==
    ASSUME TypeInv, NEW c \in Calls, CallStep(c) PROVE TypeInv'
<1> USE DEF TypeInv
<1>1. ASSUME NEW x \in Arguments[c], RejectArguments(c, x) PROVE TypeInv'
  BY <1>1 DEF RejectArguments, Return, Goto, code, history, TypeOK, RunOK, Placed, Steps, Codes
<1>2. ASSUME NEW x \in Arguments[c], Call(c, x) PROVE TypeInv'
  <2>1. x.function \in Nat /\ x.function % PageWords <= PageWords - JumpWords
    <3>1. x.function \in Nat
      BY UseAssumption
    <3>2. x.function % PageWords \in Nat
      BY <3>1, WordsAssumption
    <3> QED
      BY <1>2, <3>1, <3>2, WordsAssumption DEF Call, InvalidArgument
  <2>2. TypeOK'
    <3>1. frame' \in [Calls -> Frames]
      <4>1. frame \in [Calls -> Frames]
        BY DEF TypeOK, Frames
      <4>2. ASSUME NEW g \in Nat, NEW fr \in Frames PROVE [fr EXCEPT !.function = g] \in Frames
        BY DEF Frames
      <4>3. frame' = [frame EXCEPT ![c] = [frame[c] EXCEPT !.function = x.function]]
        BY <1>2 DEF Call
      <4>4. [frame[c] EXCEPT !.function = x.function] \in Frames
        BY <2>1, <4>1, <4>2
      <4> QED
        BY <4>1, <4>3, <4>4
    <3>2. pc' \in [Calls -> Steps]
      BY <1>2 DEF Call, Goto, TypeOK, Steps
    <3> QED
      BY <1>2, <3>1, <3>2 DEF Call, code, history, TypeOK, Frames
  <2>3. RunOK'
    BY <1>2 DEF Call, code, history, RunOK
  <2>4. Placed'
    BY <1>2, <2>1 DEF Call, Goto, Placed, TypeOK
  <2> QED
    BY <2>2, <2>3, <2>4
<1>3. CASE CheckReadable(c)
  <2>1. TypeOK' /\ RunOK'
    BY <1>3 DEF CheckReadable, Return, Goto, code, history, TypeOK, RunOK, Steps, Codes
  <2>2. Placed'
    BY <1>3 DEF CheckReadable, Return, Goto, code, history, TypeOK, Placed, Function
  <2> QED
    BY <2>1, <2>2
<1>4. CASE QueryProtection(c)
  <2> DEFINE f == frame[c].function
  <2>1. pc[c] = "query" /\ f \in Nat /\ f % PageWords <= PageWords - JumpWords
        /\ PageOf(f) \in Pages
    BY <1>4 DEF QueryProtection, Placed, TypeOK
  <2>2. \A i \in 1 .. JumpWords : mem[f + i - 1] \in Instructions
    <3> TAKE i \in 1 .. JumpWords
    <3>1. f + i - 1 \in Range(f)
      BY <2>1, WordsAssumption DEF Range
    <3> QED
      BY <2>1, <3>1, OnePage DEF TypeOK
  <2>3. 0 \in 0 .. JumpWords - 1
    BY WordsAssumption
  <2> DEFINE new == [function |-> f, word |-> 0, prot |-> prot[PageOf(f)],
                     saved |-> [i \in 1 .. JumpWords |-> mem[f + i - 1]]]
  <2>4. new \in Frames
    BY <2>1, <2>2, <2>3 DEF Frames, TypeOK
  <2>5. CASE frame' = [frame EXCEPT ![c] = new] /\ pc' = [pc EXCEPT ![c] = "writable"]
             /\ UNCHANGED result
    <3> HIDE DEF new
    <3>1. frame' \in [Calls -> Frames] /\ pc' \in [Calls -> Steps]
      BY <2>4, <2>5 DEF TypeOK, Frames, Steps
    <3>2. frame'[c].function = f /\ pc'[c] = "writable"
      BY <2>5 DEF TypeOK, new
    <3> HIDE DEF f
    <3>3. Placed'
      BY <2>1, <2>5, <3>2 DEF Placed, TypeOK, f
    <3>4. TypeOK' /\ RunOK'
      BY <1>4, <2>5, <3>1 DEF QueryProtection, code, history, TypeOK, RunOK, Frames
    <3> QED
      BY <3>3, <3>4
  <2>6. CASE pc' = [pc EXCEPT ![c] = "returned"] /\ UNCHANGED frame
             /\ result' = [result EXCEPT ![c] = "KERN_PROTECTION_FAILURE"]
    BY <1>4, <2>6 DEF QueryProtection, code, history, TypeOK, RunOK, Placed, Steps, Codes
  <2> QED
    BY <1>4, <2>5, <2>6 DEF QueryProtection, Return, Goto, Function
<1>5. CASE MakeWritable(c)
  <2>1. prot' \in [Pages -> SUBSET {"R", "W", "X"}]
    BY <1>5 DEF MakeWritable, Accepted, Refused, TypeOK
  <2>2. pc' \in [Calls -> Steps] /\ result' \in [Calls -> Codes]
    BY <1>5 DEF MakeWritable, Return, Goto, TypeOK, Steps, Codes
  <2>3. TypeOK' /\ RunOK'
    BY <1>5, <2>1, <2>2 DEF MakeWritable, history, TypeOK, RunOK
  <2>4. Placed'
    BY <1>5 DEF MakeWritable, Return, Goto, Placed, TypeOK
  <2> QED
    BY <2>3, <2>4
<1>6. ASSUME NEW step \in Steps, NEW next \in Steps, NEW ins \in Instructions,
             CopyWord(c, step, next, ins),
             step \notin {"call", "returned", "readable"},
             next \notin {"call", "returned", "readable"}
      PROVE  TypeInv'
  <2>1. frame[c].word \in 0 .. JumpWords - 1
    BY DEF TypeOK
  <2>2. (frame[c].word + 1) % JumpWords \in 0 .. JumpWords - 1
    BY <2>1, Counting
  <2>3. CASE "W" \in prot[PageOf(Function(c) + frame[c].word)]
    <3> DEFINE i == frame[c].word
               a == frame[c].function + i
               k == (i + 1) % JumpWords
    <3>1. k \in 0 .. JumpWords - 1
      BY <2>2
    <3>2. PICK to \in {step, next} : pc' = [pc EXCEPT ![c] = to]
      BY <1>6, <2>3 DEF CopyWord, Goto
    <3>3. /\ mem' = [mem EXCEPT ![a] = ins]
          /\ fetchable' = [fetchable EXCEPT ![a] = fetchable[a] \union {ins}]
          /\ frame' = [frame EXCEPT ![c].word = k]
          /\ UNCHANGED <<prot, result, run, down, latest, unrestored>>
          /\ pc[c] = step
      BY <1>6, <2>3 DEF CopyWord, history, Function
    <3> HIDE DEF i, a, k
    <3>4. frame' \in [Calls -> Frames] /\ \A d \in Calls : frame'[d].function = frame[d].function
      BY <3>1, <3>3 DEF TypeOK, Frames
    <3>5. fetchable' \in [Words -> SUBSET Instructions] /\ mem' \in [Words -> Instructions]
      BY <1>6, <3>3 DEF TypeOK
    <3>6. pc' \in [Calls -> Steps]
      BY <1>6, <3>2 DEF TypeOK
    <3>7. TypeOK'
      BY <3>3, <3>4, <3>5, <3>6 DEF TypeOK, Frames
    <3>8. RunOK'
      BY <3>3 DEF RunOK
    <3>9. Placed'
      BY <1>6, <3>2, <3>3, <3>4 DEF Placed, TypeOK
    <3> QED
      BY <3>7, <3>8, <3>9
  <2>4. CASE ~("W" \in prot[PageOf(Function(c) + frame[c].word)])
    BY <1>6, <2>4 DEF CopyWord, Goto, history, TypeOK, RunOK, Placed, Steps
  <2> QED
    BY <2>3, <2>4
<1>7. CASE WriteJump(c)
  BY <1>6, <1>7 DEF WriteJump, Steps, Instructions
<1>8. CASE Restore(c)
  BY <1>8 DEF Restore, Accepted, Refused, Goto, history, TypeOK, RunOK, Placed, Steps, Function
<1>9. CASE CopyBack(c)
  <2>1. frame[c].saved[frame[c].word + 1] \in Instructions
    BY WordsAssumption DEF TypeOK
  <2> QED
    BY <1>6, <1>9, <2>1 DEF CopyBack, Steps
<1>10. CASE RestoreAgain(c)
  BY <1>10, WordsAssumption
  DEF RestoreAgain, Accepted, Refused, Goto, TypeOK, RunOK, Placed, Steps, Function
<1>11. CASE Invalidate(c)
  <2>1. TypeOK'
    BY <1>11 DEF Invalidate, Invalidated, Return, Goto, TypeOK, Steps, Codes, Instructions
  <2>2. RunOK' /\ Placed'
    BY <1>11 DEF Invalidate, Return, Goto, TypeOK, RunOK, Placed
  <2> QED
    BY <2>1, <2>2
<1>12. CASE InvalidateFailed(c)
  <2>1. TypeOK'
    BY <1>12 DEF InvalidateFailed, Invalidated, Return, Goto, history, TypeOK, Steps, Codes, Instructions
  <2>2. RunOK' /\ Placed'
    BY <1>12 DEF InvalidateFailed, Return, Goto, history, TypeOK, RunOK, Placed
  <2> QED
    BY <2>1, <2>2
<1> QED
  BY <1>1, <1>2, <1>3, <1>4, <1>5, <1>7, <1>8, <1>9, <1>10, <1>11, <1>12 DEF CallStep

LEMMA RunnerType ==
    ASSUME TypeInv, NEW r \in Runners, RunnerStep(r) PROVE TypeInv'
<1> USE DEF TypeInv
<1>1. ASSUME NEW f \in Functions, Enter(r, f) PROVE TypeInv'
  BY <1>1, WordsAssumption DEF Enter, code, history, TypeOK, RunOK, Placed, UseAssumption, Null
<1>2. CASE Fetch(r)
  <2> DEFINE a == run[r].function + Len(run[r].seen)
  <2>1. a \in Words /\ Len(run[r].seen) \in Nat /\ Len(run[r].seen) < JumpWords
    <3>1. run[r].function \in Functions /\ Len(run[r].seen) < JumpWords
      BY <1>2 DEF Fetch, TypeOK
    <3>2. run[r].function \in Nat /\ Len(run[r].seen) \in Nat
      BY <3>1, PageOfWord, UseAssumption DEF TypeOK
    <3>3. ASSUME NEW f \in Nat, NEW n \in Nat, n < JumpWords
          PROVE  f + n \in f .. f + JumpWords - 1
      BY <3>3, WordsAssumption
    <3>4. a \in run[r].function .. run[r].function + JumpWords - 1
      BY <3>1, <3>2, <3>3
    <3> QED
      BY <3>1, <3>2, <3>4, UseAssumption
  <2>2. UNCHANGED <<mem, fetchable, prot, pc, frame, result, latest, unrestored>>
    BY <1>2 DEF Fetch, code, history
  <2>3. Placed'
    BY <2>2 DEF Placed
  <2>4. CASE down' = down \union {r} /\ UNCHANGED run
    BY <2>1, <2>2, <2>3, <2>4 DEF TypeOK, RunOK
  <2>5. ASSUME NEW i \in fetchable[a], run' = [run EXCEPT ![r].seen = Append(run[r].seen, i)],
               UNCHANGED down
        PROVE  TypeInv'
    <3>1. i \in Instructions
      BY <2>1 DEF TypeOK
    <3>2. Append(run[r].seen, i) \in Seq(Instructions)
          /\ Len(Append(run[r].seen, i)) = Len(run[r].seen) + 1
      BY <3>1 DEF TypeOK
    <3> DEFINE new == Append(run[r].seen, i)
    <3> HIDE DEF new
    <3>3. run' = [run EXCEPT ![r].seen = new]
      BY <2>5 DEF new
    <3>4. RunOK'
      <4>1. run[r].function # Null /\ r \notin down
        BY <1>2 DEF Fetch
      <4>2. run' \in [Runners -> [function : Functions \union {Null}, seen : Seq(Instructions)]]
        BY <3>2, <3>3 DEF RunOK, new
      <4>3. run'[r].function = run[r].function /\ \A q \in Runners \ {r} : run'[q] = run[q]
        BY <3>3 DEF RunOK
      <4>4. \A q \in down : Len(run'[q].seen) < JumpWords
        BY <4>1, <4>3 DEF RunOK, TypeOK
      <4> QED
        BY <2>5, <4>1, <4>2, <4>3, <4>4 DEF RunOK
    <3>5. Len(new) <= JumpWords /\ new \in Seq(Instructions)
      BY <2>1, <3>2, WordsAssumption DEF new
    <3>6. \A q \in Runners : Len(run'[q].seen) <= JumpWords /\ run'[q].seen \in Seq(Instructions)
                             /\ run'[q].function \in Functions \union {Null}
      BY <3>3, <3>5 DEF RunOK, TypeOK
    <3>7. TypeOK'
      BY <2>2, <2>5, <3>6 DEF TypeOK
    <3> QED
      BY <2>3, <3>4, <3>7
  <2> QED
    BY <1>2, <2>4, <2>5 DEF Fetch
<1>3. CASE Leave(r)
  BY <1>3, WordsAssumption DEF Leave, NotRunning, code, history, TypeOK, RunOK, Placed
<1> QED
  BY <1>1, <1>2, <1>3 DEF RunnerStep

\* Every variable keeps its type, and a call writes on one mapped page only, the
\* checks of RorkHookReplaceFunctionWithSize; whatever the callers keep away.
THEOREM TypeCorrect == Spec => [](TypeOK /\ RunOK /\ Placed)
<1>1. TypeInv /\ [Next]_vars => TypeInv'
  <2>1. TypeInv /\ UNCHANGED vars => TypeInv'
    BY DEF vars, TypeInv, TypeOK, RunOK, Placed
  <2> QED
    BY <2>1, CallType, RunnerType DEF Next
<1>2. TypeInv <=> TypeOK /\ RunOK /\ Placed
  BY DEF TypeInv
<1> QED
  BY <1>1, <1>2, InitType, PTL DEF Spec

-----------------------------------------------------------------------------
(* Nobody else is on the page of a call.                                   *)

\* What every step of a call but its first leaves alone.
LEMMA CallFrame ==
    ASSUME TypeInv, NEW c \in Calls, CallStep(c), ~\E x \in Arguments[c] : Call(c, x)
    PROVE  /\ \E to \in Steps : /\ pc' = [pc EXCEPT ![c] = to]
                                /\ to # "call"
                                /\ pc[c] \in {"call", "returned"} => to = "returned"
           /\ \A d \in Calls : frame'[d].function = frame[d].function
           /\ \A d \in Calls \ {c} : frame'[d] = frame[d]
           /\ UNCHANGED <<run, down>>
<1> DEFINE G == /\ \E to \in Steps : /\ pc' = [pc EXCEPT ![c] = to]
                                     /\ to # "call"
                                     /\ pc[c] \in {"call", "returned"} => to = "returned"
                /\ \A d \in Calls : frame'[d].function = frame[d].function
                /\ \A d \in Calls \ {c} : frame'[d] = frame[d]
                /\ UNCHANGED <<run, down>>
<1>1. ASSUME NEW x \in Arguments[c], RejectArguments(c, x) PROVE G
  BY <1>1 DEF RejectArguments, Return, Goto, Steps
<1>2. CASE CheckReadable(c)
  BY <1>2 DEF CheckReadable, Return, Goto, Steps
<1>3. CASE QueryProtection(c)
  <2>1. ASSUME NEW p, NEW s,
               frame' = [frame EXCEPT ![c] = [function |-> frame[c].function, word |-> 0,
                                              prot |-> p, saved |-> s]]
        PROVE  /\ \A d \in Calls : frame'[d].function = frame[d].function
               /\ \A d \in Calls \ {c} : frame'[d] = frame[d]
    BY <2>1 DEF TypeInv, TypeOK
  <2>2. \/ UNCHANGED frame
        \/ \E p, s : frame' = [frame EXCEPT ![c] = [function |-> frame[c].function, word |-> 0,
                                                   prot |-> p, saved |-> s]]
    BY <1>3, Zenon DEF QueryProtection, Function
  <2>3. /\ pc[c] = "query" /\ UNCHANGED <<run, down>>
        /\ \E to \in {"writable", "returned"} : pc' = [pc EXCEPT ![c] = to]
    BY <1>3 DEF QueryProtection, Return, Goto
  <2> QED
    BY <2>1, <2>2, <2>3 DEF Steps
<1>4. CASE MakeWritable(c)
  BY <1>4 DEF MakeWritable, Return, Goto, Steps
<1>5. ASSUME NEW step \in Steps, NEW next \in Steps, NEW ins,
             CopyWord(c, step, next, ins), step \notin {"call", "returned"}, next # "call"
      PROVE  G
  <2>1. ASSUME NEW w, frame' = [frame EXCEPT ![c].word = w]
        PROVE  /\ \A d \in Calls : frame'[d].function = frame[d].function
               /\ \A d \in Calls \ {c} : frame'[d] = frame[d]
    BY <2>1 DEF TypeInv, TypeOK
  <2>2. UNCHANGED frame \/ \E w : frame' = [frame EXCEPT ![c].word = w]
    BY <1>5, Zenon DEF CopyWord
  <2>3. /\ pc[c] = step /\ UNCHANGED <<run, down>>
        /\ \E to \in {step, next, "faulted"} : pc' = [pc EXCEPT ![c] = to]
    BY <1>5 DEF CopyWord, Goto
  <2> QED
    BY <1>5, <2>1, <2>2, <2>3 DEF Steps
<1>6. CASE WriteJump(c)
  BY <1>5, <1>6 DEF WriteJump, Steps
<1>7. CASE Restore(c)
  BY <1>7 DEF Restore, Goto, Steps
<1>8. CASE CopyBack(c)
  BY <1>5, <1>8 DEF CopyBack, Steps
<1>9. CASE RestoreAgain(c)
  BY <1>9 DEF RestoreAgain, Goto, Steps
<1>10. CASE Invalidate(c)
  BY <1>10 DEF Invalidate, Return, Goto, Steps
<1>11. CASE InvalidateFailed(c)
  BY <1>11 DEF InvalidateFailed, Return, Goto, Steps
<1> QED
  BY <1>1, <1>2, <1>3, <1>4, <1>6, <1>7, <1>8, <1>9, <1>10, <1>11 DEF CallStep

LEMMA FirstPage == ASSUME NEW f \in Nat PROVE PageOf(f) \in PagesOf(f)
BY WordsAssumption DEF PagesOf, Range

LEMMA InitPage == Init => Alone /\ ProtOK
BY DEF Init, Alone, ProtOK, Unlocked, NoStoreFault, NotRunning

LEMMA CallAlone ==
    ASSUME KeptAway = "page", TypeInv, Alone, NEW c \in Calls, CallStep(c) PROVE Alone'
<1>1. ASSUME NEW x \in Arguments[c], Call(c, x) PROVE Alone'
  <2> DEFINE f == x.function
  <2>1. f \in Nat
    BY UseAssumption
  <2>2. /\ pc[c] = "call" /\ pc' = [pc EXCEPT ![c] = "readable"]
        /\ frame' = [frame EXCEPT ![c].function = f]
        /\ UNCHANGED run
    BY <1>1 DEF Call, Goto
  <2>3. \A r \in Runners : run[r].function # Null => PageOf(f) \notin PagesOf(run[r].function)
    BY <1>1, <2>1, FirstPage DEF Call, Near
  <2>4. \A d \in Calls : pc[d] \notin {"call", "returned"} => PageOf(f) # PageOf(frame[d].function)
    <3> SUFFICES ASSUME NEW d \in Calls, pc[d] \notin {"call", "returned"}
                 PROVE  PageOf(f) # PageOf(frame[d].function)
      OBVIOUS
    <3>1. frame[d].function \in Nat
      BY DEF TypeInv, TypeOK
    <3>2. ~Near(f, frame[d].function)
      BY <1>1 DEF Call, Active, Function
    <3> QED
      BY <2>1, <3>1, <3>2, FirstPage DEF Near
  <2> HIDE DEF f
  <2>5. frame'[c].function = f /\ \A d \in Calls \ {c} : frame'[d] = frame[d] /\ pc'[d] = pc[d]
    BY <2>2 DEF TypeInv, TypeOK
  <2> QED
    BY <2>2, <2>3, <2>4, <2>5 DEF Alone
<1>2. CASE ~\E x \in Arguments[c] : Call(c, x)
  <2>1. PICK to \in Steps : /\ pc' = [pc EXCEPT ![c] = to]
                            /\ pc[c] \in {"call", "returned"} => to = "returned"
    BY <1>2, CallFrame
  <2>2. \A d \in Calls : pc'[d] \notin {"call", "returned"} => pc[d] \notin {"call", "returned"}
    BY <2>1 DEF TypeInv, TypeOK
  <2>3. (\A d \in Calls : frame'[d].function = frame[d].function) /\ UNCHANGED run
    BY <1>2, CallFrame
  <2> QED
    BY <2>2, <2>3 DEF Alone
<1> QED
  BY <1>1, <1>2

LEMMA RunnerAlone ==
    ASSUME KeptAway = "page", TypeInv, Alone, NEW r \in Runners, RunnerStep(r) PROVE Alone'
<1>1. UNCHANGED <<pc, frame>>
  BY DEF RunnerStep, Enter, Fetch, Leave
<1>2. ASSUME NEW f \in Functions, Enter(r, f) PROVE Alone'
  <2>1. \A c \in Calls : pc[c] \notin {"call", "returned"} => PageOf(frame[c].function) \notin PagesOf(f)
    <3> SUFFICES ASSUME NEW c \in Calls, pc[c] \notin {"call", "returned"}
                 PROVE  PageOf(frame[c].function) \notin PagesOf(f)
      OBVIOUS
    <3>1. frame[c].function \in Nat
      BY DEF TypeInv, TypeOK
    <3>2. ~Near(frame[c].function, f)
      BY <1>2 DEF Enter, Active, Function
    <3> QED
      BY <3>1, <3>2, FirstPage DEF Near
  <2>2. run' = [run EXCEPT ![r] = [function |-> f, seen |-> <<>>]]
    BY <1>2 DEF Enter
  <2>3. run'[r].function = f /\ \A q \in Runners \ {r} : run'[q] = run[q]
    BY <2>2 DEF TypeInv, RunOK
  <2> QED
    BY <1>1, <2>1, <2>3 DEF Alone
<1>3. CASE Fetch(r) \/ Leave(r)
  <2>1. \A q \in Runners : run'[q].function # Null => run'[q].function = run[q].function
    <3>1. ASSUME NEW i, run' = [run EXCEPT ![r].seen = i]
          PROVE  \A q \in Runners : run'[q].function = run[q].function
      BY <3>1 DEF TypeInv, RunOK
    <3>2. CASE run' = [run EXCEPT ![r] = NotRunning]
      BY <3>2 DEF NotRunning, TypeInv, RunOK
    <3>3. Fetch(r) => UNCHANGED run \/ \E i : run' = [run EXCEPT ![r].seen = i]
      BY Zenon DEF Fetch
    <3> QED
      BY <1>3, <3>1, <3>2, <3>3 DEF Leave
  <2> QED
    BY <1>1, <2>1 DEF Alone
<1> QED
  BY <1>2, <1>3 DEF RunnerStep

-----------------------------------------------------------------------------
(* Protections.                                                            *)

\* A step that neither touches a protection nor enters or leaves an unlocked page.
LEMMA ProtKept ==
    ASSUME TypeInv, ProtOK, NEW c \in Calls, NEW to \in Steps \ {"faulted"},
           UNCHANGED <<prot, unrestored>>, pc' = [pc EXCEPT ![c] = to],
           \/ to \in Unlocked /\ pc[c] \in Unlocked
           \/ to \notin Unlocked \union {"writable"} /\ pc[c] \notin Unlocked,
           \A d \in Calls \ {c} : frame'[d] = frame[d],
           pc[c] \in Unlocked => /\ frame'[c].function = frame[c].function
                                 /\ frame'[c].prot = frame[c].prot
    PROVE  ProtOK'
<1>1. pc'[c] = to /\ \A d \in Calls \ {c} : pc'[d] = pc[d]
  BY DEF TypeInv, TypeOK
<1>2. NoStoreFault'
  BY <1>1 DEF ProtOK, NoStoreFault
<1>3. \A d \in Calls : pc'[d] \in Unlocked \union {"writable"} =>
          /\ pc[d] \in Unlocked <=> pc'[d] \in Unlocked
          /\ pc[d] \in Unlocked \union {"writable"}
          /\ frame'[d].function = frame[d].function /\ frame'[d].prot = frame[d].prot
  BY <1>1
<1>4. \A d \in Calls : pc[d] \in Unlocked =>
          pc'[d] \in Unlocked /\ frame'[d].function = frame[d].function
  BY <1>1
<1>5. \A d \in Calls : pc'[d] \in Unlocked => prot'[PageOf(frame'[d].function)] = {"R", "W"}
  BY <1>3 DEF ProtOK
<1>6. \A d \in Calls : pc'[d] \in Unlocked \union {"writable"} =>
          \/ frame'[d].prot = InitialProt[PageOf(frame'[d].function)]
          \/ PageOf(frame'[d].function) \in unrestored'
  BY <1>3 DEF ProtOK
<1>7. \A p \in Pages :
          \/ prot'[p] = InitialProt[p]
          \/ p \in unrestored'
          \/ \E d \in Calls : pc'[d] \in Unlocked /\ PageOf(frame'[d].function) = p
  BY <1>4 DEF ProtOK
<1> QED
  BY <1>2, <1>5, <1>6, <1>7 DEF ProtOK

LEMMA CopyProt ==
    ASSUME PageInv, NEW c \in Calls, NEW step \in {"copy", "copyBack"},
           NEW next \in Unlocked, NEW ins, CopyWord(c, step, next, ins)
    PROVE  /\ ProtOK'
           /\ mem' = [mem EXCEPT ![frame[c].function + frame[c].word] = ins]
           /\ \A a \in Words \ {frame[c].function + frame[c].word} : fetchable'[a] = fetchable[a]
           /\ frame' = [frame EXCEPT ![c].word = (frame[c].word + 1) % JumpWords]
           /\ pc' = [pc EXCEPT ![c] = IF frame[c].word + 1 = JumpWords THEN next ELSE step]
<1> DEFINE f == frame[c].function
           i == frame[c].word
<1>1. pc[c] = step /\ f \in Nat /\ i \in 0 .. JumpWords - 1
  BY DEF CopyWord, PageInv, TypeInv, TypeOK
<1>2. PageOf(f + i) = PageOf(f)
  BY <1>1, InRange, OnePage DEF PageInv, TypeInv, Placed
<1>3. "W" \in prot[PageOf(f + i)]
  BY <1>1, <1>2 DEF PageInv, ProtOK, Unlocked
<1>4. /\ mem' = [mem EXCEPT ![f + i] = ins]
      /\ fetchable' = [fetchable EXCEPT ![f + i] = fetchable[f + i] \union {ins}]
      /\ frame' = [frame EXCEPT ![c].word = (i + 1) % JumpWords]
      /\ pc' = [pc EXCEPT ![c] = IF i + 1 = JumpWords THEN next ELSE step]
      /\ UNCHANGED <<prot, unrestored>>
  BY <1>3 DEF CopyWord, Goto, Function, history
<1>5. PICK to \in {step, next} : pc' = [pc EXCEPT ![c] = to]
  BY <1>4
<1>6. ASSUME NEW k, frame' = [frame EXCEPT ![c].word = k]
      PROVE  /\ \A d \in Calls \ {c} : frame'[d] = frame[d]
             /\ frame'[c].function = frame[c].function /\ frame'[c].prot = frame[c].prot
  BY <1>6 DEF PageInv, TypeInv, TypeOK
<1>7. ProtOK'
  BY <1>1, <1>4, <1>5, <1>6, ProtKept DEF PageInv, Steps, Unlocked
<1>8. \A a \in Words \ {f + i} : fetchable'[a] = fetchable[a]
  BY <1>4 DEF PageInv, TypeInv, TypeOK
<1> QED
  BY <1>4, <1>7, <1>8

LEMMA CallProt ==
    ASSUME PageInv, NEW c \in Calls, CallStep(c) PROVE ProtOK'
<1> USE DEF PageInv
<1> DEFINE f == frame[c].function
           p == PageOf(f)
<1>1. ASSUME NEW x \in Arguments[c], RejectArguments(c, x) PROVE ProtOK'
  BY <1>1, ProtKept DEF RejectArguments, Return, Goto, code, history, Steps, Unlocked
<1>2. ASSUME NEW x \in Arguments[c], Call(c, x) PROVE ProtOK'
  <2>1. \A d \in Calls \ {c} : frame'[d] = frame[d]
    BY <1>2 DEF Call, TypeInv, TypeOK
  <2> QED
    BY <1>2, <2>1, ProtKept DEF Call, Goto, code, history, Steps, Unlocked
<1>3. CASE CheckReadable(c)
  <2>1. PICK to \in {"query", "returned"} : pc[c] = "readable" /\ pc' = [pc EXCEPT ![c] = to]
    BY <1>3 DEF CheckReadable, Return, Goto
  <2> QED
    BY <1>3, <2>1, ProtKept DEF CheckReadable, code, history, Steps, Unlocked
<1>4. CASE QueryProtection(c)
  <2>1. pc[c] = "query" /\ p \in Pages
    BY <1>4 DEF QueryProtection, TypeInv, Placed
  <2>2. ~\E d \in Calls : pc[d] \in Unlocked /\ PageOf(frame[d].function) = p
    BY <2>1 DEF Alone, Unlocked
  <2>3. prot[p] = InitialProt[p] \/ p \in unrestored
    BY <2>1, <2>2 DEF ProtOK
  <2>4. ASSUME NEW s, pc' = [pc EXCEPT ![c] = "writable"], UNCHANGED <<prot, unrestored>>,
               frame' = [frame EXCEPT ![c] = [function |-> f, word |-> 0,
                                              prot |-> prot[p], saved |-> s]]
        PROVE  ProtOK'
    <3>1. frame'[c].function = f /\ frame'[c].prot = prot[p]
          /\ \A d \in Calls \ {c} : frame'[d] = frame[d]
      BY <2>4 DEF TypeInv, TypeOK
    <3>2. pc'[c] = "writable" /\ \A d \in Calls \ {c} : pc'[d] = pc[d]
      BY <2>4 DEF TypeInv, TypeOK
    <3>3. pc[c] \notin Unlocked /\ "writable" \notin Unlocked
      BY <2>1 DEF Unlocked
    <3> HIDE DEF p, f
    <3>4. \A d \in Calls : pc'[d] \in Unlocked => d # c /\ pc[d] \in Unlocked
      BY <3>2, <3>3
    <3>5. \A d \in Calls : pc[d] \in Unlocked => d # c /\ pc'[d] \in Unlocked
      BY <3>2, <3>3
    <3>6. frame'[c].prot = InitialProt[PageOf(frame'[c].function)]
          \/ PageOf(frame'[c].function) \in unrestored
      BY <2>3, <3>1 DEF p
    <3>7. NoStoreFault'
      BY <3>2 DEF ProtOK, NoStoreFault
    <3> QED
      BY <2>4, <3>1, <3>2, <3>4, <3>5, <3>6, <3>7 DEF ProtOK
  <2>5. CASE pc' = [pc EXCEPT ![c] = "returned"] /\ UNCHANGED <<frame, prot, unrestored>>
    BY <2>1, <2>5, ProtKept DEF Steps, Unlocked
  <2>6. UNCHANGED <<prot, unrestored>>
    BY <1>4 DEF QueryProtection, code, history
  <2> QED
    BY <1>4, <2>4, <2>5, <2>6 DEF QueryProtection, Return, Goto, Function
<1>5. CASE MakeWritable(c)
  <2>1. pc[c] = "writable" /\ p \in Pages /\ UNCHANGED <<frame, unrestored>>
    BY <1>5 DEF MakeWritable, Return, Goto, TypeInv, Placed, history
  <2>2. CASE prot' = [prot EXCEPT ![p] = {"R", "W"}] /\ pc' = [pc EXCEPT ![c] = "copy"]
    <3>1. pc'[c] = "copy" /\ \A d \in Calls \ {c} : pc'[d] = pc[d]
      BY <2>2 DEF TypeInv, TypeOK
    <3>2. prot'[p] = {"R", "W"} /\ \A q \in Pages \ {p} : prot'[q] = prot[q]
      BY <2>1, <2>2 DEF TypeInv, TypeOK
    <3>3. \A d \in Calls : pc[d] \in Unlocked => pc'[d] \in Unlocked
      BY <3>1 DEF Unlocked
    <3>4. \A d \in Calls \ {c} : pc[d] \in Unlocked =>
              PageOf(frame[d].function) # p /\ PageOf(frame[d].function) \in Pages
      BY <2>1 DEF Alone, Unlocked, TypeInv, Placed
    <3>5. NoStoreFault'
      BY <3>1 DEF ProtOK, NoStoreFault
    <3>6. "copy" \in Unlocked
      BY DEF Unlocked
    <3> HIDE DEF p
    <3>7. \A d \in Calls : pc'[d] \in Unlocked => prot'[PageOf(frame'[d].function)] = {"R", "W"}
      BY <2>1, <3>1, <3>2, <3>4 DEF ProtOK, p
    <3>8. \A d \in Calls : pc'[d] \in Unlocked \union {"writable"} =>
              \/ frame'[d].prot = InitialProt[PageOf(frame'[d].function)]
              \/ PageOf(frame'[d].function) \in unrestored'
      BY <2>1, <3>1 DEF ProtOK
    <3>9. \A q \in Pages :
          \/ prot'[q] = InitialProt[q]
          \/ q \in unrestored'
          \/ \E d \in Calls : pc'[d] \in Unlocked /\ PageOf(frame'[d].function) = q
      BY <2>1, <3>1, <3>2, <3>3, <3>6 DEF ProtOK, p
    <3> QED
      BY <3>5, <3>7, <3>8, <3>9 DEF ProtOK
  <2>3. CASE UNCHANGED prot /\ pc' = [pc EXCEPT ![c] = "returned"]
    BY <2>1, <2>3, ProtKept DEF Steps, Unlocked
  <2> QED
    BY <1>5, <2>2, <2>3 DEF MakeWritable, Accepted, Refused, Return, Goto, Function
<1>6. CASE WriteJump(c)
  BY <1>6, CopyProt DEF WriteJump, Unlocked
<1>7. CASE CopyBack(c)
  BY <1>7, CopyProt DEF CopyBack, Unlocked
<1>8. ASSUME NEW from \in {"restore", "restoreAgain"}, NEW to \in {"invalidate", "invalidateFailed"},
             pc[c] = from, pc' = [pc EXCEPT ![c] = to], UNCHANGED frame,
             \/ prot' = [prot EXCEPT ![p] = frame[c].prot] /\ UNCHANGED unrestored
             \/ UNCHANGED prot /\ unrestored' = unrestored \union {p}
      PROVE  ProtOK'
  <2>1. p \in Pages /\ pc[c] \in Unlocked /\ to \notin Unlocked \union {"writable"}
    BY <1>8 DEF TypeInv, Placed, Unlocked
  <2>2. pc'[c] = to /\ \A d \in Calls \ {c} : pc'[d] = pc[d]
    BY <1>8 DEF TypeInv, TypeOK
  <2>3. \A q \in Pages \ {p} : prot'[q] = prot[q]
    BY <1>8 DEF TypeInv, TypeOK
  <2>4. prot'[p] = InitialProt[p] \/ p \in unrestored'
    <3>1. frame[c].prot = InitialProt[p] \/ p \in unrestored
      BY <2>1 DEF ProtOK
    <3> QED
      BY <1>8, <2>1, <3>1 DEF TypeInv, TypeOK
  <2>5. \A d \in Calls \ {c} : pc[d] \in Unlocked =>
              PageOf(frame[d].function) # p /\ PageOf(frame[d].function) \in Pages
    BY <1>8 DEF Alone, Unlocked, TypeInv, Placed
  <2>6. unrestored \subseteq unrestored'
    BY <1>8
  <2>7. NoStoreFault'
    BY <1>8, <2>2 DEF ProtOK, NoStoreFault
  <2> HIDE DEF p
  <2>8. \A d \in Calls : pc'[d] \in Unlocked => prot'[PageOf(frame'[d].function)] = {"R", "W"}
    BY <1>8, <2>1, <2>2, <2>3, <2>5 DEF ProtOK
  <2>9. \A d \in Calls : pc'[d] \in Unlocked \union {"writable"} =>
              \/ frame'[d].prot = InitialProt[PageOf(frame'[d].function)]
              \/ PageOf(frame'[d].function) \in unrestored'
    BY <1>8, <2>1, <2>2, <2>6 DEF ProtOK
  <2>10. \A q \in Pages :
          \/ prot'[q] = InitialProt[q]
          \/ q \in unrestored'
          \/ \E d \in Calls : pc'[d] \in Unlocked /\ PageOf(frame'[d].function) = q
    BY <1>8, <2>2, <2>3, <2>4, <2>6 DEF ProtOK, p
  <2> QED
    BY <2>7, <2>8, <2>9, <2>10 DEF ProtOK
<1>9. CASE Restore(c)
  <2>1. CASE UNCHANGED prot /\ pc' = [pc EXCEPT ![c] = "copyBack"]
    BY <1>9, <2>1, ProtKept DEF Restore, Goto, history, Steps, Unlocked
  <2>2. CASE prot' = [prot EXCEPT ![p] = frame[c].prot] /\ pc' = [pc EXCEPT ![c] = "invalidate"]
    <3>1. pc[c] = "restore" /\ UNCHANGED <<frame, unrestored>>
      BY <1>9 DEF Restore, Goto, history
    <3> QED
      BY <1>8, <2>2, <3>1
  <2> QED
    BY <1>9, <2>1, <2>2 DEF Restore, Accepted, Refused, Goto, Function
<1>10. CASE RestoreAgain(c)
  <2>1. /\ pc[c] = "restoreAgain" /\ pc' = [pc EXCEPT ![c] = "invalidateFailed"]
        /\ UNCHANGED frame
        /\ \/ prot' = [prot EXCEPT ![p] = frame[c].prot] /\ UNCHANGED unrestored
           \/ UNCHANGED prot /\ unrestored' = unrestored \union {p}
    BY <1>10 DEF RestoreAgain, Accepted, Refused, Goto, Function
  <2> QED
    BY <1>8, <2>1
<1>11. CASE Invalidate(c)
  BY <1>11, ProtKept DEF Invalidate, Return, Goto, Steps, Unlocked
<1>12. CASE InvalidateFailed(c)
  BY <1>12, ProtKept DEF InvalidateFailed, Return, Goto, history, Steps, Unlocked
<1> QED
  BY <1>1, <1>2, <1>3, <1>4, <1>5, <1>6, <1>7, <1>9, <1>10, <1>11, <1>12 DEF CallStep

-----------------------------------------------------------------------------
(* Instructions.                                                           *)

LEMMA InitCode == Init => CodeOK
BY DEF Init, CodeOK, CodeOf, Settled, Unlocked, Patching

\* The ranges of two calls at work have no instruction in common.
LEMMA Separate ==
    ASSUME PageInv, NEW c \in Calls, NEW d \in Calls, c # d,
           pc[c] \notin {"call", "returned"}, pc[d] \notin {"call", "returned"},
           NEW a \in Range(frame[c].function)
    PROVE  a \notin Range(frame[d].function)
<1>1. /\ frame[c].function \in Nat /\ frame[d].function \in Nat
      /\ frame[c].function % PageWords <= PageWords - JumpWords
      /\ frame[d].function % PageWords <= PageWords - JumpWords
      /\ PageOf(frame[c].function) # PageOf(frame[d].function)
  BY DEF PageInv, TypeInv, TypeOK, Placed, Alone
<1> QED
  BY <1>1, OnePage

\* A call that has not begun to patch finds its range as it was left.
LEMMA Untouched ==
    ASSUME PageInv, CodeOK, NEW c \in Calls,
           pc[c] \notin Patching, pc[c] \notin {"call", "returned"},
           NEW a \in Range(frame[c].function), a \in Words
    PROVE  Settled(a)
<1>1. ASSUME NEW d \in Calls, pc[d] \in Patching, a \in Range(frame[d].function) PROVE FALSE
  BY <1>1, Separate DEF Patching, Unlocked
<1> QED
  BY <1>1 DEF CodeOK

\* A step of c that keeps to its own range has only that range to answer for.
LEMMA Elsewhere ==
    ASSUME PageInv, CodeOK, NEW c \in Calls, pc[c] \notin {"call", "returned"},
           \A d \in Calls \ {c} : pc'[d] = pc[d] /\ frame'[d] = frame[d],
           frame'[c].function = frame[c].function,
           \A a \in Words \ Range(frame[c].function) :
               mem'[a] = mem[a] /\ fetchable'[a] = fetchable[a] /\ latest'[a] = latest[a],
           CodeOf(c)',
           \/ pc'[c] \in Patching
           \/ \A a \in Words \intersect Range(frame[c].function) :
                  mem'[a] = latest'[a] /\ fetchable'[a] = {latest'[a]}
    PROVE  CodeOK'
<1>1. ASSUME NEW d \in Calls, d # c PROVE CodeOf(d)'
  <2>1. CASE pc[d] \in {"call", "returned", "readable", "query", "faulted"}
    BY <1>1, <2>1 DEF CodeOf, Unlocked
  <2>2. CASE pc[d] \notin {"call", "returned", "readable", "query", "faulted"}
    <3>1. ASSUME NEW a \in Range(frame[d].function) PROVE mem'[a] = mem[a] /\ latest'[a] = latest[a]
      <4>1. a \in Words
        BY <2>2, OnePage DEF PageInv, TypeInv, TypeOK, Placed
      <4>2. a \notin Range(frame[c].function)
        BY <1>1, <2>2, Separate
      <4> QED
        BY <4>1, <4>2
    <3>2. ASSUME NEW i \in 1 .. JumpWords PROVE frame[d].function + i - 1 \in Range(frame[d].function)
      BY WordsAssumption DEF PageInv, TypeInv, TypeOK, Range
    <3>3. CodeOf(d)
      BY DEF CodeOK
    <3> QED
      BY <1>1, <3>1, <3>2, <3>3 DEF CodeOf
  <2> QED
    BY <2>1, <2>2
<1>2. ASSUME NEW a \in Words
      PROVE  \/ Settled(a)'
             \/ \E d \in Calls : pc'[d] \in Patching /\ a \in Range(frame'[d].function)
  <2>1. CASE a \in Range(frame[c].function)
    BY <2>1 DEF Settled
  <2>2. CASE a \notin Range(frame[c].function)
    <3>1. CASE Settled(a)
      BY <2>2, <3>1 DEF Settled
    <3>2. ASSUME NEW d \in Calls, pc[d] \in Patching, a \in Range(frame[d].function)
          PROVE  pc'[d] \in Patching /\ a \in Range(frame'[d].function)
      BY <2>2, <3>2
    <3> QED
      BY <3>1, <3>2 DEF CodeOK
  <2> QED
    BY <2>1, <2>2
<1> QED
  BY <1>1, <1>2 DEF CodeOK

LEMMA CopyCode ==
    ASSUME PageInv, CodeOK, NEW c \in Calls, NEW step \in {"copy", "copyBack"},
           NEW next \in {"restore", "restoreAgain"}, NEW ins, CopyWord(c, step, next, ins),
           \/ step = "copy" /\ next = "restore" /\ ins = c
           \/ step = "copyBack" /\ next = "restoreAgain" /\ ins = frame[c].saved[frame[c].word + 1]
    PROVE  CodeOK'
<1> DEFINE f == frame[c].function
           i == frame[c].word
           to == IF i + 1 = JumpWords THEN next ELSE step
           k == (i + 1) % JumpWords
<1>1. /\ pc[c] = step /\ UNCHANGED latest
      /\ f \in Nat /\ i \in 0 .. JumpWords - 1 /\ JumpWords \in Nat
      /\ f % PageWords <= PageWords - JumpWords /\ PageOf(f) \in Pages
  BY WordsAssumption DEF CopyWord, history, PageInv, TypeInv, TypeOK, Placed
<1>2. /\ mem' = [mem EXCEPT ![f + i] = ins]
      /\ \A a \in Words \ {f + i} : fetchable'[a] = fetchable[a]
      /\ frame' = [frame EXCEPT ![c].word = k]
      /\ pc' = [pc EXCEPT ![c] = to]
  <2>1. next \in Unlocked
    BY DEF Unlocked
  <2> QED
    BY <2>1, CopyProt
<1>3. /\ i + 1 # JumpWords => to = step /\ k = i + 1
      /\ i + 1 = JumpWords => to = next /\ k = 0
  BY <1>1, Counting
<1>4. f + i \in Words /\ f + i \in Range(f)
  BY <1>1, InRange, OnePage
<1> HIDE DEF k, to
<1>5. /\ frame'[c].function = f /\ frame'[c].word = k /\ frame'[c].saved = frame[c].saved
      /\ \A d \in Calls \ {c} : frame'[d] = frame[d]
  BY <1>2 DEF PageInv, TypeInv, TypeOK
<1>6. pc'[c] = to /\ \A d \in Calls \ {c} : pc'[d] = pc[d]
  BY <1>2 DEF PageInv, TypeInv, TypeOK
<1>7. mem'[f + i] = ins /\ \A a \in Words \ {f + i} : mem'[a] = mem[a] /\ fetchable'[a] = fetchable[a]
  BY <1>2, <1>4 DEF PageInv, TypeInv, TypeOK
<1>8. to \in Unlocked /\ pc[c] \in Unlocked /\ to # "writable" /\ to # "invalidate"
  BY <1>1, <1>3 DEF Unlocked
<1>9. CodeOf(c)
  BY DEF CodeOK
<1>10. CodeOf(c)'
  <2>1. to \in {"writable", "restore"} => k = 0
    BY <1>3, <1>8
  <2>2. \A j \in 1 .. JumpWords : frame'[c].saved[j] = latest'[frame'[c].function + j - 1]
    BY <1>1, <1>5, <1>8, <1>9 DEF CodeOf
  <2>3. ASSUME NEW a \in Range(f)
        PROVE  /\ to = "copy" /\ a < f + k => mem'[a] = c
               /\ to = "restore" => mem'[a] = c
               /\ to = "copyBack" /\ a < f + k => mem'[a] = latest'[a]
               /\ to = "restoreAgain" => mem'[a] = latest'[a]
    <3>1. a \in Int /\ f <= a /\ a <= f + JumpWords - 1 /\ a \in Words
      BY <1>1, OnePage DEF Range
    <3>2. CASE step = "copy"
      <4>1. a < f + i => mem[a] = c
        BY <1>1, <1>9, <3>2 DEF CodeOf
      <4>2. a <= f + i => mem'[a] = c
        BY <1>1, <1>7, <3>1, <3>2, <4>1
      <4>3. to = "copy" /\ a < f + k => a <= f + i
        BY <1>1, <1>3, <3>1
      <4>4. to = "restore" => a <= f + i
        BY <1>1, <1>3, <3>1, <3>2
      <4> QED
        BY <1>3, <3>2, <4>2, <4>3, <4>4
    <3>3. CASE step = "copyBack"
      <4>1. a < f + i => mem[a] = latest[a]
        BY <1>1, <1>9, <3>3 DEF CodeOf
      <4>2. ins = latest[f + i]
        <5>1. i + 1 \in 1 .. JumpWords /\ f + (i + 1) - 1 = f + i
          BY <1>1
        <5> QED
          BY <1>8, <1>9, <3>3, <5>1 DEF CodeOf
      <4>3. a <= f + i => mem'[a] = latest'[a]
        BY <1>1, <1>7, <3>1, <4>1, <4>2
      <4>4. to = "copyBack" /\ a < f + k => a <= f + i
        BY <1>1, <1>3, <3>1
      <4>5. to = "restoreAgain" => a <= f + i
        BY <1>1, <1>3, <3>1, <3>3
      <4> QED
        BY <1>3, <3>3, <4>3, <4>4, <4>5
    <3> QED
      BY <3>2, <3>3
  <2> QED
    BY <1>5, <1>6, <1>8, <2>1, <2>2, <2>3 DEF CodeOf, Unlocked
<1>11. to \in Patching
  BY <1>8 DEF Patching
<1>12. \A a \in Words \ Range(f) : mem'[a] = mem[a] /\ fetchable'[a] = fetchable[a] /\ latest'[a] = latest[a]
  BY <1>1, <1>4, <1>7
<1>13. pc[c] \notin {"call", "returned"}
  BY <1>1
<1> HIDE DEF f, i
<1> QED
  BY <1>5, <1>6, <1>10, <1>11, <1>12, <1>13, Elsewhere DEF f

LEMMA CallCode ==
    ASSUME PageInv, CodeOK, NEW c \in Calls, CallStep(c) PROVE CodeOK'
<1> DEFINE f == frame[c].function
<1>0. f \in Nat /\ CodeOf(c)
  BY DEF PageInv, TypeInv, TypeOK, CodeOK
<1>1. ASSUME NEW to \in {"readable", "returned"}, pc[c] = "call", pc' = [pc EXCEPT ![c] = to],
             UNCHANGED <<mem, fetchable, latest>>,
             \A d \in Calls \ {c} : frame'[d] = frame[d]
      PROVE  CodeOK'
  <2>1. pc'[c] = to /\ \A d \in Calls \ {c} : pc'[d] = pc[d]
    BY <1>1 DEF PageInv, TypeInv, TypeOK
  <2>2. \A d \in Calls : CodeOf(d)'
    <3>1. CodeOf(c)'
      BY <1>1, <2>1 DEF CodeOf, Unlocked
    <3>2. ASSUME NEW d \in Calls, d # c PROVE CodeOf(d)'
      BY <1>1, <2>1, <3>2 DEF CodeOK, CodeOf
    <3> QED
      BY <3>1, <3>2
  <2>3. \A d \in Calls : pc[d] \in Patching => d # c
    BY <1>1 DEF Patching, Unlocked
  <2>4. ASSUME NEW a \in Words
        PROVE  \/ Settled(a)'
               \/ \E d \in Calls : pc'[d] \in Patching /\ a \in Range(frame'[d].function)
    <3>1. CASE Settled(a)
      BY <1>1, <3>1 DEF Settled
    <3>2. CASE \E d \in Calls : pc[d] \in Patching /\ a \in Range(frame[d].function)
      BY <1>1, <2>1, <2>3, <3>2
    <3> QED
      BY <3>1, <3>2 DEF CodeOK
  <2> QED
    BY <2>2, <2>4 DEF CodeOK
\* The steps of c up to MakeWritable, which leave the instructions alone.
<1>2. ASSUME NEW to \in {"query", "writable", "copy", "returned"},
             pc[c] \in {"readable", "query", "writable"}, pc' = [pc EXCEPT ![c] = to],
             UNCHANGED <<mem, fetchable, latest>>,
             frame'[c].function = f, \A d \in Calls \ {c} : frame'[d] = frame[d],
             to \in {"writable", "copy"} => /\ frame'[c].word = 0
                                            /\ \A i \in 1 .. JumpWords :
                                                  frame'[c].saved[i] = latest[f + i - 1]
      PROVE  CodeOK'
  <2>1. pc'[c] = to /\ \A d \in Calls \ {c} : pc'[d] = pc[d]
    BY <1>2 DEF PageInv, TypeInv, TypeOK
  <2>2. \A a \in Words \intersect Range(f) : mem'[a] = latest'[a] /\ fetchable'[a] = {latest'[a]}
    BY <1>2, Untouched DEF Patching, Unlocked, Settled
  <2>3. CodeOf(c)'
    <3>1. \A a \in Range(f) : ~(a < f + 0)
      BY <1>0, WordsAssumption DEF Range
    <3> QED
      BY <1>2, <2>1, <3>1 DEF CodeOf, Unlocked
  <2> HIDE DEF f
  <2> QED
    BY <1>2, <2>1, <2>2, <2>3, Elsewhere DEF f
<1>3. ASSUME NEW x \in Arguments[c], RejectArguments(c, x) PROVE CodeOK'
  BY <1>1, <1>3 DEF RejectArguments, Return, Goto, code, history
<1>4. ASSUME NEW x \in Arguments[c], Call(c, x) PROVE CodeOK'
  <2>1. \A d \in Calls \ {c} : frame'[d] = frame[d]
    BY <1>4 DEF Call, PageInv, TypeInv, TypeOK
  <2> QED
    BY <1>1, <1>4, <2>1 DEF Call, Goto, code, history
<1>5. CASE CheckReadable(c)
  <2>1. PICK to \in {"query", "returned"} : pc[c] = "readable" /\ pc' = [pc EXCEPT ![c] = to]
    BY <1>5 DEF CheckReadable, Return, Goto
  <2>2. UNCHANGED <<mem, fetchable, latest, frame>>
    BY <1>5 DEF CheckReadable, code, history
  <2> QED
    BY <1>2, <2>1, <2>2
<1>6. CASE QueryProtection(c)
  <2>1. pc[c] = "query" /\ UNCHANGED <<mem, fetchable, latest>>
    BY <1>6 DEF QueryProtection, code, history
  <2>2. CASE pc' = [pc EXCEPT ![c] = "returned"] /\ UNCHANGED frame
    BY <1>2, <2>1, <2>2
  <2>3. ASSUME NEW p, pc' = [pc EXCEPT ![c] = "writable"],
               frame' = [frame EXCEPT ![c] = [function |-> f, word |-> 0, prot |-> p,
                             saved |-> [i \in 1 .. JumpWords |-> mem[f + i - 1]]]]
        PROVE  CodeOK'
    <3> DEFINE s == [i \in 1 .. JumpWords |-> mem[f + i - 1]]
    <3>1. \A i \in 1 .. JumpWords : s[i] = latest[f + i - 1]
      <4> TAKE i \in 1 .. JumpWords
      <4>1. f + i - 1 \in Range(f)
        BY <1>0, WordsAssumption DEF Range
      <4>2. f + i - 1 \in Words
        BY <1>0, <2>1, <4>1, OnePage DEF PageInv, TypeInv, Placed
      <4>3. Settled(f + i - 1)
        BY <2>1, <4>1, <4>2, Untouched DEF Patching, Unlocked
      <4> QED
        BY <4>3 DEF Settled
    <3> HIDE DEF s
    <3>2. frame' = [frame EXCEPT ![c] = [function |-> f, word |-> 0, prot |-> p, saved |-> s]]
      BY <2>3 DEF s
    <3>3. /\ frame'[c].function = f /\ frame'[c].word = 0 /\ frame'[c].saved = s
          /\ \A d \in Calls \ {c} : frame'[d] = frame[d]
      BY <3>2 DEF PageInv, TypeInv, TypeOK
    <3> HIDE DEF f
    <3> QED
      BY <1>2, <2>1, <2>3, <3>1, <3>3
  <2> QED
    BY <1>6, <2>2, <2>3 DEF QueryProtection, Return, Goto, Function
<1>7. CASE MakeWritable(c)
  <2>1. PICK to \in {"copy", "returned"} : pc[c] = "writable" /\ pc' = [pc EXCEPT ![c] = to]
    BY <1>7 DEF MakeWritable, Return, Goto
  <2>2. UNCHANGED <<mem, fetchable, latest, frame>>
    BY <1>7 DEF MakeWritable, history
  <2>3. frame[c].word = 0 /\ \A i \in 1 .. JumpWords : frame[c].saved[i] = latest[f + i - 1]
    BY <1>0, <2>1 DEF CodeOf
  <2> HIDE DEF f
  <2> QED
    BY <1>2, <2>1, <2>2, <2>3 DEF f
<1>8. CASE WriteJump(c)
  BY <1>8, CopyCode DEF WriteJump
<1>9. CASE CopyBack(c)
  BY <1>9, CopyCode DEF CopyBack
<1>10. CASE Restore(c) \/ RestoreAgain(c)
  <2>1. PICK to \in {"invalidate", "copyBack", "invalidateFailed"} :
            /\ pc' = [pc EXCEPT ![c] = to]
            /\ \/ pc[c] = "restore" /\ to \in {"invalidate", "copyBack"}
               \/ pc[c] = "restoreAgain" /\ to = "invalidateFailed"
    BY <1>10 DEF Restore, RestoreAgain, Goto
  <2>2. UNCHANGED <<mem, fetchable, latest, frame>>
    BY <1>10 DEF Restore, RestoreAgain, history
  <2>3. pc'[c] = to /\ \A d \in Calls \ {c} : pc'[d] = pc[d]
    BY <2>1 DEF PageInv, TypeInv, TypeOK
  <2>4. CodeOf(c)'
    <3>1. \A a \in Range(f) : ~(a < f + 0)
      BY <1>0, WordsAssumption DEF Range
    <3> QED
      BY <1>0, <2>1, <2>2, <2>3, <3>1 DEF CodeOf, Unlocked
  <2>5. to \in Patching /\ pc[c] \notin {"call", "returned"}
    BY <2>1 DEF Patching, Unlocked
  <2> HIDE DEF f
  <2> QED
    BY <2>2, <2>3, <2>4, <2>5, Elsewhere
<1>11. CASE Invalidate(c) \/ InvalidateFailed(c)
  <2>1. /\ pc' = [pc EXCEPT ![c] = "returned"] /\ pc[c] \in {"invalidate", "invalidateFailed"}
        /\ UNCHANGED <<mem, frame>>
        /\ fetchable' = [a \in Words |-> IF a \in Range(f) THEN {mem[a]} ELSE fetchable[a]]
    BY <1>11 DEF Invalidate, InvalidateFailed, Return, Goto, Invalidated, Function
  <2>2. \/ /\ pc[c] = "invalidate"
           /\ latest' = [a \in Words |-> IF a \in Range(f) THEN c ELSE latest[a]]
        \/ pc[c] = "invalidateFailed" /\ UNCHANGED latest
    BY <1>11 DEF Invalidate, InvalidateFailed, Return, Goto, Function, history
  <2>3. pc'[c] = "returned" /\ \A d \in Calls \ {c} : pc'[d] = pc[d]
    BY <2>1 DEF PageInv, TypeInv, TypeOK
  <2>4. CodeOf(c)'
    BY <2>3 DEF CodeOf, Unlocked
  <2>5. \A a \in Words \intersect Range(f) : mem'[a] = latest'[a] /\ fetchable'[a] = {latest'[a]}
    BY <1>0, <2>1, <2>2 DEF CodeOf
  <2>6. \A a \in Words \ Range(f) :
            mem'[a] = mem[a] /\ fetchable'[a] = fetchable[a] /\ latest'[a] = latest[a]
    BY <2>1, <2>2
  <2>7. pc[c] \notin {"call", "returned"}
    BY <2>1
  <2> HIDE DEF f
  <2> QED
    BY <2>1, <2>3, <2>4, <2>5, <2>6, <2>7, Elsewhere DEF f
<1> QED
  BY <1>3, <1>4, <1>5, <1>6, <1>7, <1>8, <1>9, <1>10, <1>11 DEF CallStep

-----------------------------------------------------------------------------
(* The threads that run the functions.                                     *)

\* What a thread has run or runs next is on no page that a call works on.
LEMMA RunnerAway ==
    ASSUME PageInv, NEW r \in Runners, run[r].function # Null, NEW c \in Calls,
           pc[c] \notin {"call", "returned"}, NEW a \in Range(run[r].function)
    PROVE  a \notin Range(frame[c].function) /\ PageOf(a) # PageOf(frame[c].function)
<1>1. PageOf(a) \in PagesOf(run[r].function)
  BY DEF PagesOf
<1>2. PageOf(a) # PageOf(frame[c].function)
  BY <1>1 DEF PageInv, Alone
<1> QED
  BY <1>2, OnePage DEF PageInv, TypeInv, TypeOK, Placed

\* The address of the i-th instruction of a run is in the range of its function.
LEMMA SeenInRange ==
    ASSUME TypeInv, NEW r \in Runners, NEW i \in 1 .. Len(run[r].seen)
    PROVE  /\ run[r].function # Null
           /\ run[r].function + i - 1 \in Range(run[r].function)
           /\ run[r].function + i - 1 \in Words
<1>1. run[r].seen # <<>> /\ Len(run[r].seen) \in Nat /\ Len(run[r].seen) <= JumpWords
  BY DEF TypeInv, TypeOK
<1>2. run[r].function # Null /\ run[r].function \in Functions
  BY <1>1 DEF TypeInv, TypeOK, RunOK
<1>3. run[r].function \in Nat
  BY <1>2, UseAssumption, PageOfWord
<1>4. run[r].function + i - 1 \in run[r].function .. run[r].function + JumpWords - 1
  BY <1>1, <1>3, WordsAssumption
<1> QED
  BY <1>2, <1>4, UseAssumption DEF Range

LEMMA CallRuns ==
    ASSUME PageInv, RunsLatest, NoFetchFault, NEW c \in Calls, CallStep(c)
    PROVE  RunsLatest' /\ NoFetchFault'
<1>1. UNCHANGED <<run, down>> /\ unrestored \subseteq unrestored'
  BY DEF CallStep, RejectArguments, Call, CheckReadable, QueryProtection, MakeWritable, WriteJump,
      Restore, CopyBack, CopyWord, RestoreAgain, Invalidate, InvalidateFailed, history
<1>2. NoFetchFault'
  BY <1>1 DEF NoFetchFault
<1>3. CASE UNCHANGED latest
  BY <1>1, <1>2, <1>3 DEF RunsLatest
<1>4. CASE Invalidate(c)
  <2>1. /\ pc[c] = "invalidate"
        /\ latest' = [a \in Words |-> IF a \in Range(frame[c].function) THEN c ELSE latest[a]]
    BY <1>4 DEF Invalidate, Return, Goto, Function
  <2>2. ASSUME NEW r \in Runners, NEW i \in 1 .. Len(run[r].seen)
        PROVE  latest'[run[r].function + i - 1] = latest[run[r].function + i - 1]
    <3>1. /\ run[r].function # Null
          /\ run[r].function + i - 1 \in Range(run[r].function)
          /\ run[r].function + i - 1 \in Words
      BY SeenInRange DEF PageInv
    <3>2. run[r].function + i - 1 \notin Range(frame[c].function)
      BY <2>1, <3>1, RunnerAway
    <3> QED
      BY <2>1, <3>1, <3>2
  <2> QED
    BY <1>1, <1>2, <2>2 DEF RunsLatest
<1> QED
  BY <1>3, <1>4 DEF CallStep, RejectArguments, Call, CheckReadable, QueryProtection, MakeWritable,
      WriteJump, Restore, CopyBack, CopyWord, RestoreAgain, InvalidateFailed, history

LEMMA RunnerRuns ==
    ASSUME IInv, NEW r \in Runners, RunnerStep(r)
    PROVE  RunsLatest' /\ NoFetchFault'
<1> USE DEF IInv
<1>1. UNCHANGED <<latest, unrestored>>
  BY DEF RunnerStep, Enter, Fetch, Leave, history
<1>2. ASSUME NEW f \in Functions, Enter(r, f) PROVE RunsLatest' /\ NoFetchFault'
  <2>1. run' = [run EXCEPT ![r] = [function |-> f, seen |-> <<>>]] /\ r \notin down /\ UNCHANGED down
    BY <1>2 DEF Enter
  <2>2. run'[r].seen = <<>> /\ \A q \in Runners \ {r} : run'[q] = run[q]
    BY <2>1 DEF PageInv, TypeInv, RunOK
  <2>3. 1 .. Len(<<>>) = {}
    OBVIOUS
  <2>4. down \subseteq Runners
    BY DEF PageInv, TypeInv, TypeOK
  <2> QED
    BY <1>1, <2>1, <2>2, <2>3, <2>4 DEF RunsLatest, NoFetchFault
<1>3. CASE Leave(r)
  <2>1. run' = [run EXCEPT ![r] = NotRunning] /\ UNCHANGED down /\ Len(run[r].seen) = JumpWords
    BY <1>3 DEF Leave
  <2>2. run'[r].seen = <<>> /\ \A q \in Runners \ {r} : run'[q] = run[q]
    BY <2>1 DEF PageInv, TypeInv, RunOK, NotRunning
  <2>3. 1 .. Len(<<>>) = {}
    OBVIOUS
  <2>4. down \subseteq Runners /\ r \notin down
    BY <2>1, WordsAssumption DEF PageInv, TypeInv, TypeOK, RunOK
  <2> QED
    BY <1>1, <2>1, <2>2, <2>3, <2>4 DEF RunsLatest, NoFetchFault
<1>4. CASE Fetch(r)
  <2> DEFINE n == Len(run[r].seen)
             a == run[r].function + n
  <2>1. /\ run[r].function \in Functions /\ run[r].function # Null /\ run[r].function \in Nat
        /\ n \in Nat /\ n < JumpWords /\ r \notin down
    <3>1. run[r].function \in Functions /\ run[r].function # Null /\ n < JumpWords /\ r \notin down
      BY <1>4 DEF Fetch, PageInv, TypeInv, TypeOK
    <3> QED
      BY <3>1, UseAssumption, PageOfWord DEF PageInv, TypeInv, TypeOK
  <2>2. a \in Range(run[r].function) /\ a \in Words /\ "X" \in InitialProt[PageOf(a)]
    <3>1. a \in run[r].function .. run[r].function + JumpWords - 1
      BY <2>1, WordsAssumption
    <3> QED
      BY <2>1, <3>1, UseAssumption DEF Range, PageOf
  <2>3. \A c \in Calls : pc[c] \notin {"call", "returned"} =>
            a \notin Range(frame[c].function) /\ PageOf(a) # PageOf(frame[c].function)
    BY <2>1, <2>2, RunnerAway
  <2>4. fetchable[a] = {latest[a]}
    BY <2>2, <2>3 DEF CodeOK, Settled, Patching, Unlocked
  <2>5. "X" \in prot[PageOf(a)] \/ PageOf(a) \in unrestored
    <3>1. PageOf(a) \in Pages
      BY <2>2, PageOfWord
    <3> QED
      BY <2>2, <2>3, <3>1 DEF PageInv, ProtOK, Unlocked
  <2>6. CASE "X" \notin prot[PageOf(a)] /\ down' = down \union {r} /\ UNCHANGED run
    BY <1>1, <2>5, <2>6 DEF RunsLatest, NoFetchFault
  <2>7. CASE run' = [run EXCEPT ![r].seen = Append(run[r].seen, latest[a])] /\ UNCHANGED down
    <3>1. /\ run[r].seen \in Seq(Instructions) /\ latest[a] \in Instructions
      BY <2>2 DEF PageInv, TypeInv, TypeOK
    <3> DEFINE new == Append(run[r].seen, latest[a])
    <3>2. /\ Len(new) = n + 1 /\ new[n + 1] = latest[a]
          /\ \A i \in 1 .. n : new[i] = run[r].seen[i]
      BY <3>1
    <3> HIDE DEF new
    <3>3. run' = [run EXCEPT ![r].seen = new]
      BY <2>7 DEF new
    <3>4. run'[r].seen = new /\ run'[r].function = run[r].function
          /\ \A q \in Runners \ {r} : run'[q] = run[q]
      BY <3>3 DEF PageInv, TypeInv, RunOK
    <3>5. ASSUME NEW i \in 1 .. Len(new) PROVE new[i] = latest[run[r].function + i - 1]
      <4>1. i \in 1 .. n \/ i = n + 1
        BY <2>1, <3>2
      <4>2. CASE i \in 1 .. n
        BY <3>2, <4>2 DEF RunsLatest
      <4>3. CASE i = n + 1
        BY <2>1, <3>2, <4>3
      <4> QED
        BY <4>1, <4>2, <4>3
    <3>6. RunsLatest'
      BY <1>1, <3>4, <3>5 DEF RunsLatest
    <3>7. NoFetchFault'
      BY <1>1, <2>1, <2>7, <3>4 DEF NoFetchFault, PageInv, TypeInv, TypeOK
    <3> QED
      BY <3>6, <3>7
  <2> QED
    BY <1>4, <2>4, <2>6, <2>7 DEF Fetch
<1> QED
  BY <1>2, <1>3, <1>4 DEF RunnerStep

-----------------------------------------------------------------------------
LEMMA NextIInv == ASSUME KeptAway = "page" PROVE IInv /\ [Next]_vars => IInv'
<1> SUFFICES ASSUME IInv, [Next]_vars PROVE IInv'
  OBVIOUS
<1> USE DEF IInv, PageInv
<1>1. ASSUME NEW c \in Calls, CallStep(c) PROVE IInv'
  BY <1>1, CallType, CallAlone, CallProt, CallCode, CallRuns
<1>2. ASSUME NEW r \in Runners, RunnerStep(r) PROVE IInv'
  <2>1. UNCHANGED <<mem, fetchable, prot, pc, frame, latest, unrestored>>
    BY <1>2 DEF RunnerStep, Enter, Fetch, Leave, code, history
  <2>2. ProtOK'
    BY <2>1 DEF ProtOK, NoStoreFault
  <2>3. CodeOK'
    BY <2>1 DEF CodeOK, CodeOf, Settled
  <2> QED
    BY <1>2, <2>2, <2>3, RunnerType, RunnerAlone, RunnerRuns
<1>3. CASE UNCHANGED vars
  <2> USE <1>3 DEF vars
  <2>1. TypeInv' /\ Alone'
    BY DEF TypeInv, TypeOK, RunOK, Placed, Alone
  <2>2. ProtOK'
    BY DEF ProtOK, NoStoreFault
  <2>3. CodeOK'
    BY DEF CodeOK, CodeOf, Settled
  <2>4. RunsLatest' /\ NoFetchFault'
    BY DEF RunsLatest, NoFetchFault
  <2> QED
    BY <2>1, <2>2, <2>3, <2>4
<1> QED
  BY <1>1, <1>2, <1>3 DEF Next

LEMMA InitIInv == Init => IInv
<1>1. Init => RunsLatest /\ NoFetchFault
  <2>1. 1 .. Len(<<>>) = {}
    OBVIOUS
  <2> QED
    BY <2>1 DEF Init, RunsLatest, NoFetchFault, NotRunning
<1> QED
  BY <1>1, InitType, InitPage, InitCode DEF IInv, PageInv

LEMMA Invariance == ASSUME KeptAway = "page" PROVE Spec => []IInv
BY InitIInv, NextIInv, PTL DEF Spec

\* Whoever stays off the page runs the jump of the last successful detour, or the
\* original instructions, and never a mixture of the two: the order of copy,
\* restore and sys_icache_invalidate in RorkHookReplaceFunctionWithSize, with its
\* undoing after a refusal.
THEOREM DetoursAreSeenWhole ==
    ASSUME KeptAway = "page"
    PROVE  Spec => []RunsLatest
<1>1. IInv => RunsLatest
  BY DEF IInv
<1> QED
  BY <1>1, Invariance, PTL

\* ... and is never found on a page that lost its right to execute, unless the
\* kernel refused the restoring vm_protect twice.
THEOREM NobodyLosesExecution ==
    ASSUME KeptAway = "page"
    PROVE  Spec => []NoFetchFault
<1>1. IInv => NoFetchFault
  BY DEF IInv
<1> QED
  BY <1>1, Invariance, PTL

\* The two memcpy of RorkHookReplaceFunctionWithSize never meet a page that
\* another call has meanwhile made read-only.
THEOREM StoresDoNotFault ==
    ASSUME KeptAway = "page"
    PROVE  Spec => []NoStoreFault
<1>1. IInv => NoStoreFault
  BY DEF IInv, PageInv, ProtOK
<1> QED
  BY <1>1, Invariance, PTL

\* Whatever call succeeded, failed or was undone, a page that nobody works on has
\* the protection it had at first, unless the kernel refused it twice.
THEOREM ProtectionComesBack ==
    ASSUME KeptAway = "page"
    PROVE  Spec => []ProtectionRestored
<1>1. IInv => ProtectionRestored
  BY DEF IInv, PageInv, ProtOK, ProtectionRestored, Active, Function, Unlocked
<1> QED
  BY <1>1, Invariance, PTL
=============================================================================
