------------------------ MODULE ProtectedStoreProofs ------------------------
(***************************************************************************)
(* Proofs about ProtectedStore.                                            *)
(*                                                                         *)
(* TypeCorrect holds however the threads use the pages.  That no store     *)
(* faults, that stores are balanced and that their results are truthful    *)
(* holds for stores that keep apart (KeptApart).  The inductive invariant  *)
(* IInv says, for every step a store can be at, what its frame knows: the  *)
(* protections it found are the owner's, the pages carry the request, the  *)
(* window is the caller's or its own, the slot is untouched or written.    *)
(***************************************************************************)
EXTENDS ProtectedStore, TLAPS

-----------------------------------------------------------------------------
(* Pages.                                                                  *)

LEMMA Sizes == /\ PageSize \in Nat \ {0} /\ SlotSize \in Nat \ {0} /\ Limit \in Nat \ {0}
               /\ SlotSize <= PageSize /\ PageSize < Limit
BY SizesAssumption

\* Division by W.
LEMMA ModAdd ==
    ASSUME NEW W \in Nat \ {0}, NEW a \in Nat, a % W = 0, NEW i \in 0 .. W - 1
    PROVE  (a + i) % W = i
OBVIOUS

LEMMA Division ==
    ASSUME NEW W \in Nat \ {0}, NEW a \in Nat
    PROVE  /\ a - (a % W) = W * (a \div W) /\ a \div W \in Nat
           /\ a % W \in 0 .. W - 1 /\ a - (a % W) \in Nat
OBVIOUS

LEMMA ModTimes == ASSUME NEW W \in Nat \ {0}, NEW k \in Nat PROVE (W * k) % W = 0
OBVIOUS

LEMMA ModNext ==
    ASSUME NEW W \in Nat \ {0}, NEW a \in Nat, a % W = 0
    PROVE  (a + W) % W = 0
<1> DEFINE k == a \div W
<1>1. a - (a % W) = W * k /\ k \in Nat
  BY Division
<1>2. a = W * k
  BY <1>1
<1> HIDE DEF k
<1>3. a + W = W * (k + 1) /\ k + 1 \in Nat
  BY <1>1, <1>2
<1>4. (W * (k + 1)) % W = 0
  BY <1>3, ModTimes
<1> QED
  BY <1>3, <1>4

\* Two multiples of the page size less than a page apart are equal.
LEMMA Multiples ==
    ASSUME NEW p \in Nat, NEW q \in Nat, p % PageSize = 0, q % PageSize = 0,
           p < q + PageSize, q < p + PageSize
    PROVE  p = q
<1>1. ASSUME NEW a \in Nat, NEW b \in Nat, a % PageSize = 0, b % PageSize = 0,
             a <= b, b < a + PageSize
      PROVE  a = b
  <2>1. PICK i \in 0 .. PageSize - 1 : b = a + i
    <3>1. b - a \in 0 .. PageSize - 1 /\ b = a + (b - a)
      BY <1>1, Sizes
    <3> QED
      BY <3>1
  <2>2. (a + i) % PageSize = i
    BY <1>1, ModAdd, Sizes
  <2>3. i = 0
    BY <1>1, <2>1, <2>2
  <2> QED
    BY <2>1, <2>3
<1>2. CASE p <= q
  BY <1>1, <1>2
<1>3. CASE ~(p <= q)
  <2>1. q <= p
    BY <1>3
  <2>2. q = p
    BY <1>1, <2>1
  <2> QED
    BY <2>2
<1> QED
  BY <1>2, <1>3

LEMMA Aligned ==
    ASSUME NEW a \in Nat
    PROVE  /\ PageOf(a) \in Nat /\ PageOf(a) % PageSize = 0
           /\ PageOf(a) <= a /\ a < PageOf(a) + PageSize
<1>1. /\ PageOf(a) = PageSize * (a \div PageSize) /\ a \div PageSize \in Nat
      /\ a % PageSize \in 0 .. PageSize - 1 /\ PageOf(a) \in Nat
  BY Division, Sizes DEF PageOf
<1>2. (PageSize * (a \div PageSize)) % PageSize = 0
  BY <1>1, ModTimes, Sizes
<1>3. PageOf(a) <= a /\ a < PageOf(a) + PageSize
  BY <1>1, Sizes DEF PageOf
<1> QED
  BY <1>1, <1>2, <1>3

\* The page that holds an address is the only multiple around it.
LEMMA PageIs ==
    ASSUME NEW a \in Nat, NEW p \in Nat, p % PageSize = 0, p <= a, a < p + PageSize
    PROVE  PageOf(a) = p
<1>1. PageOf(a) < p + PageSize /\ p < PageOf(a) + PageSize
  BY Aligned, Sizes
<1> QED
  BY <1>1, Aligned, Multiples

\* A slot that a store accepts does not wrap around.
Fits(s) == s \in Addresses /\ ~(SlotEnd(s) < s)

LEMMA SlotPages ==
    ASSUME NEW s, Fits(s)
    PROVE  /\ SlotEnd(s) = s + SlotSize - 1 /\ SlotEnd(s) \in Addresses /\ s \in Addresses
           /\ FirstPage(s) \in Nat /\ FirstPage(s) % PageSize = 0
           /\ LastPage(s) \in Nat /\ LastPage(s) % PageSize = 0
           /\ FirstPage(s) \in Addresses /\ LastPage(s) \in Addresses
           /\ FirstPage(s) <= s /\ s < FirstPage(s) + PageSize
           /\ LastPage(s) <= s + SlotSize - 1 /\ s + SlotSize - 1 < LastPage(s) + PageSize
           /\ FirstPage(s) <= LastPage(s)
           /\ SpansPages(s) => LastPage(s) = FirstPage(s) + PageSize /\ LastPage(s) > s
<1>1. s \in Nat /\ s < Limit /\ s + SlotSize - 1 \in Nat
  BY Sizes DEF Fits, Addresses
<1>2. s + SlotSize - 1 < Limit
  <2> SUFFICES ASSUME s + SlotSize - 1 >= Limit PROVE FALSE
    BY <1>1, Sizes
  <2> DEFINE k == s + SlotSize - 1 - Limit
  <2>1. k \in 0 .. Limit - 1 /\ k < s /\ s + SlotSize - 1 = Limit + k
    BY <1>1, Sizes
  <2>2. Limit % Limit = 0
    <3>1. ASSUME NEW W \in Nat \ {0} PROVE W % W = 0
      OBVIOUS
    <3> QED
      BY <3>1, Sizes
  <2>3. (Limit + k) % Limit = k
    <3> HIDE DEF k
    <3> QED
      BY <2>1, <2>2, ModAdd, Sizes
  <2>4. SlotEnd(s) = k
    BY <2>1, <2>3 DEF SlotEnd
  <2> QED
    BY <2>1, <2>4 DEF Fits
<1>3. SlotEnd(s) = s + SlotSize - 1
  <2>1. ASSUME NEW W \in Nat \ {0}, NEW i \in 0 .. W - 1 PROVE i % W = i
    OBVIOUS
  <2>2. s + SlotSize - 1 \in 0 .. Limit - 1
    BY <1>1, <1>2, Sizes
  <2> QED
    BY <2>1, <2>2, Sizes DEF SlotEnd
<1>4. /\ FirstPage(s) \in Nat /\ FirstPage(s) % PageSize = 0
      /\ FirstPage(s) <= s /\ s < FirstPage(s) + PageSize
  BY <1>1, Aligned DEF FirstPage
<1>5. /\ LastPage(s) \in Nat /\ LastPage(s) % PageSize = 0
      /\ LastPage(s) <= s + SlotSize - 1 /\ s + SlotSize - 1 < LastPage(s) + PageSize
  BY <1>1, <1>3, Aligned DEF LastPage
<1>6. (FirstPage(s) + PageSize) % PageSize = 0 /\ FirstPage(s) + PageSize \in Nat
  BY <1>4, ModNext, Sizes
<1>7. FirstPage(s) # LastPage(s) => LastPage(s) = FirstPage(s) + PageSize
  <2> SUFFICES ASSUME FirstPage(s) # LastPage(s) PROVE LastPage(s) = FirstPage(s) + PageSize
    OBVIOUS
  <2>1. LastPage(s) >= FirstPage(s) + PageSize
    <3> SUFFICES ASSUME LastPage(s) < FirstPage(s) + PageSize PROVE FALSE
      BY <1>4, <1>5, Sizes
    <3>1. FirstPage(s) < LastPage(s) + PageSize
      BY <1>1, <1>4, <1>5, Sizes
    <3> QED
      BY <1>4, <1>5, <3>1, Multiples
  <2>2. LastPage(s) < FirstPage(s) + PageSize + PageSize
    BY <1>1, <1>4, <1>5, Sizes
  <2>3. FirstPage(s) + PageSize < LastPage(s) + PageSize
    BY <1>4, <1>5, <2>1, Sizes
  <2> QED
    BY <1>4, <1>5, <1>6, <2>2, <2>3, Multiples
<1>8. FirstPage(s) <= LastPage(s) /\ (SpansPages(s) => LastPage(s) > s)
  BY <1>1, <1>4, <1>5, <1>7, Sizes DEF SpansPages
<1>9. SlotEnd(s) \in Addresses /\ s \in Addresses /\ FirstPage(s) \in Addresses /\ LastPage(s) \in Addresses
  BY <1>1, <1>2, <1>3, <1>4, <1>5, Sizes DEF Addresses
<1> QED
  BY <1>3, <1>4, <1>5, <1>7, <1>8, <1>9 DEF SpansPages

\* vm_protect of one page, of the pages of a slot, and the pages that are read.
LEMMA OnePage ==
    ASSUME NEW p \in Addresses, p % PageSize = 0
    PROVE  PagesIn(p, PageSize) = {p}
<1>1. p \in Nat
  BY DEF Addresses
<1>2. ASSUME NEW q \in PagesIn(p, PageSize) PROVE q = p
  <2>1. q \in Nat /\ q % PageSize = 0 /\ q + PageSize > p /\ q < p + PageSize
    BY <1>2 DEF PagesIn, Addresses
  <2>2. p < q + PageSize
    BY <1>1, <2>1, Sizes
  <2> QED
    BY <1>1, <2>1, <2>2, Multiples
<1>3. p \in PagesIn(p, PageSize)
  BY <1>1, Sizes DEF PagesIn
<1> QED
  BY <1>2, <1>3

LEMMA SlotRange ==
    ASSUME NEW s, Fits(s)
    PROVE  PagesIn(FirstPage(s), LastPage(s) - FirstPage(s) + PageSize) = PagesUnder(s)
<1> DEFINE f == FirstPage(s)
           l == LastPage(s)
           n == l - f + PageSize
<1>1. /\ f \in Nat /\ l \in Nat /\ f \in Addresses /\ l \in Addresses /\ n \in Nat
      /\ f % PageSize = 0 /\ l % PageSize = 0 /\ f <= l /\ f + n = l + PageSize
      /\ (f # l => l = f + PageSize)
  BY SlotPages, Sizes DEF SpansPages
<1> HIDE DEF f, l, n
<1>2. ASSUME NEW q \in PagesIn(f, n) PROVE q \in {f, l}
  <2>1. q \in Nat /\ q % PageSize = 0 /\ f < q + PageSize /\ q < l + PageSize
    BY <1>1, <1>2, Sizes DEF PagesIn, Addresses
  <2>2. CASE q < f + PageSize
    BY <1>1, <2>1, <2>2, Multiples
  <2>3. CASE ~(q < f + PageSize)
    <3>1. l < q + PageSize
      BY <1>1, <2>1, <2>3, Sizes
    <3> QED
      BY <1>1, <2>1, <3>1, Multiples
  <2> QED
    BY <2>2, <2>3
<1>3. f \in PagesIn(f, n) /\ l \in PagesIn(f, n)
  BY <1>1, Sizes DEF PagesIn
<1> QED
  BY <1>2, <1>3 DEF PagesUnder, f, l, n

LEMMA ReadPages ==
    ASSUME NEW s, Fits(s)
    PROVE  /\ FirstPage(s) \in PagesIn(s, FirstPageBytes(s))
           /\ SpansPages(s) => LastPage(s) \in PagesIn(LastPage(s), LastPageBytes(s))
           /\ ~SpansPages(s) => LastPage(s) = FirstPage(s)
<1>1. s \in Nat /\ SpansPages(s) \in BOOLEAN
  BY DEF Fits, Addresses, SpansPages
<1>2. FirstPageBytes(s) \in Nat \ {0}
  BY <1>1, SlotPages, Sizes DEF FirstPageBytes
<1>3. FirstPage(s) + PageSize > s /\ FirstPage(s) < s + FirstPageBytes(s)
  BY <1>1, <1>2, SlotPages, Sizes
<1>4. SpansPages(s) => LastPageBytes(s) \in Nat \ {0}
  BY <1>1, SlotPages, Sizes DEF FirstPageBytes, LastPageBytes
<1>5. SpansPages(s) => LastPage(s) \in PagesIn(LastPage(s), LastPageBytes(s))
  BY <1>1, <1>4, SlotPages, Sizes DEF PagesIn
<1> QED
  BY <1>3, <1>5, SlotPages DEF PagesIn, SpansPages

LEMMA SlotBytesOnPages ==
    ASSUME NEW s, Fits(s), NEW a \in SlotBytes(s)
    PROVE  a \in Nat /\ PageOf(a) \in PagesUnder(s)
<1>1. a \in Nat /\ s \in Nat /\ s <= a /\ a <= s + SlotSize - 1
  BY Sizes DEF SlotBytes, Fits, Addresses
<1>2. CASE a < FirstPage(s) + PageSize
  <2>1. FirstPage(s) <= a
    BY <1>1, SlotPages
  <2> QED
    BY <1>1, <1>2, <2>1, SlotPages, PageIs DEF PagesUnder
<1>3. CASE ~(a < FirstPage(s) + PageSize)
  <2>1. LastPage(s) <= a /\ a < LastPage(s) + PageSize
    BY <1>1, <1>3, SlotPages, Sizes DEF SpansPages
  <2> QED
    BY <1>1, <2>1, SlotPages, PageIs DEF PagesUnder
<1> QED
  BY <1>2, <1>3

\* A mapped byte, by its page.
Bytes == UNION {p .. p + PageSize - 1 : p \in Mapped}

LEMMA MappedBytes ==
    ASSUME NEW a \in Nat, PageOf(a) \in Mapped
    PROVE  a \in Bytes
BY Aligned, Sizes DEF Bytes

-----------------------------------------------------------------------------
(* Types.                                                                  *)

Frames == [slot : Addresses, value : Values, request : Requests,
           first : SUBSET Rights, last : SUBSET Rights,
           protected : BOOLEAN, close : BOOLEAN, wrote : BOOLEAN, restored : BOOLEAN]

\* The slots that t may store to.
Slots(t) == {c.slot : c \in {d \in Stores[t] : ~Invalid(d)}}

\* A store in progress has a slot that fits, whose pages are mapped once they have
\* been read.
SlotsOK ==
    \A t \in Threads : pc[t] # "idle" =>
        /\ frame[t].slot \in Slots(t)
        /\ "W" \in frame[t].request
        /\ pc[t] # "readFirst" => FirstPage(frame[t].slot) \in Mapped
        /\ pc[t] \notin {"readFirst", "readLast"} => LastPage(frame[t].slot) \in Mapped

TypeInv == TypeOK /\ SlotsOK

LEMMA SlotsFit == ASSUME NEW t \in Threads, NEW s \in Slots(t) PROVE Fits(s)
BY CallsAssumption DEF Slots, Invalid, Fits

LEMMA NoFrameType == NoFrame \in Frames
BY PagesAssumption, Sizes DEF NoFrame, Frames, Addresses, Requests

LEMMA InitType == Init => TypeInv
<1> SUFFICES ASSUME Init PROVE TypeInv
  OBVIOUS
<1>1. frame \in [Threads -> Frames]
  BY NoFrameType DEF Init
<1>2. mem \in [UNION {p .. p + PageSize - 1 : p \in Mapped} -> Values]
  BY PagesAssumption DEF Init
<1>3. before \in [Threads -> [DOMAIN mem -> Values]]
  BY <1>2 DEF Init
<1>4. prot \in [Mapped -> SUBSET Rights] /\ window \in [Threads -> BOOLEAN]
  BY PagesAssumption DEF Init
<1>5. asked \in [prot : [Mapped -> SUBSET Rights], window : [Threads -> BOOLEAN]]
  BY <1>4 DEF Init
<1>6. pc \in [Threads -> Steps] /\ result \in [Threads -> BOOLEAN \union {None}]
  BY DEF Init, Steps
<1>7. \A t \in Threads : ~window[t] /\ pc[t] = "idle"
  BY DEF Init
<1>8. TypeOK
  BY <1>1, <1>2, <1>3, <1>4, <1>5, <1>6, <1>7 DEF Init, TypeOK, Frames
<1> QED
  BY <1>7, <1>8 DEF TypeInv, SlotsOK

\* A step of t within its store, by what becomes of its frame and step.
LEMMA StepType ==
    ASSUME TypeInv, NEW t \in Threads, NEW fr \in Frames, NEW to \in Steps,
           frame' = [frame EXCEPT ![t] = fr], pc' = [pc EXCEPT ![t] = to],
           to # "idle" => /\ fr.slot \in Slots(t)
                          /\ "W" \in fr.request
                          /\ to # "readFirst" => FirstPage(fr.slot) \in Mapped
                          /\ to \notin {"readFirst", "readLast"} => LastPage(fr.slot) \in Mapped,
           env' = env, mem' \in [DOMAIN mem -> Values], prot' \in [Mapped -> SUBSET Rights],
           window' \in [Threads -> BOOLEAN], \A u \in Threads : window'[u] => env.opens,
           result' \in [Threads -> BOOLEAN \union {None}],
           before' \in [Threads -> [DOMAIN mem -> Values]],
           asked' = asked, unrestored' \subseteq Mapped
    PROVE  TypeInv'
<1>1. frame' \in [Threads -> Frames] /\ pc' \in [Threads -> Steps]
  BY DEF TypeInv, TypeOK, Frames
<1>2. /\ frame'[t] = fr /\ pc'[t] = to
      /\ \A u \in Threads \ {t} : frame'[u] = frame[u] /\ pc'[u] = pc[u]
  BY DEF TypeInv, TypeOK
<1>3. SlotsOK'
  BY <1>2 DEF TypeInv, SlotsOK
<1>4. DOMAIN mem' = DOMAIN mem /\ DOMAIN mem = UNION {p .. p + PageSize - 1 : p \in Mapped}
  BY DEF TypeInv, TypeOK
<1>5. TypeOK'
  BY <1>1, <1>4 DEF TypeInv, TypeOK, Frames
<1> QED
  BY <1>3, <1>5 DEF TypeInv

\* What the steps of a store do to the frame of t.
LEMMA FirstUpdate ==
    ASSUME NEW fr \in Frames, NEW p \in SUBSET Rights
    PROVE  LET g == [fr EXCEPT !.first = p, !.last = p]
           IN  /\ g \in Frames
               /\ g.slot = fr.slot /\ g.value = fr.value /\ g.request = fr.request
               /\ g.first = p /\ g.last = p
               /\ g.protected = fr.protected /\ g.close = fr.close
               /\ g.wrote = fr.wrote /\ g.restored = fr.restored
BY DEF Frames

LEMMA LastUpdate ==
    ASSUME NEW fr \in Frames, NEW q \in SUBSET Rights
    PROVE  LET g == [fr EXCEPT !.last = q]
           IN  /\ g \in Frames
               /\ g.slot = fr.slot /\ g.value = fr.value /\ g.request = fr.request
               /\ g.first = fr.first /\ g.last = q
               /\ g.protected = fr.protected /\ g.close = fr.close
               /\ g.wrote = fr.wrote /\ g.restored = fr.restored
BY DEF Frames

LEMMA ProtectedUpdate ==
    ASSUME NEW fr \in Frames, NEW b \in BOOLEAN
    PROVE  LET g == [fr EXCEPT !.protected = b]
           IN  /\ g \in Frames
               /\ g.slot = fr.slot /\ g.value = fr.value /\ g.request = fr.request
               /\ g.first = fr.first /\ g.last = fr.last
               /\ g.protected = b /\ g.close = fr.close
               /\ g.wrote = fr.wrote /\ g.restored = fr.restored
BY DEF Frames

LEMMA RestoredUpdate ==
    ASSUME NEW fr \in Frames, NEW b \in BOOLEAN
    PROVE  LET g == [fr EXCEPT !.restored = b]
           IN  /\ g \in Frames
               /\ g.slot = fr.slot /\ g.value = fr.value /\ g.request = fr.request
               /\ g.first = fr.first /\ g.last = fr.last
               /\ g.protected = fr.protected /\ g.close = fr.close
               /\ g.wrote = fr.wrote /\ g.restored = b
BY DEF Frames

LEMMA Typed ==
    ASSUME TypeInv, NEW t \in Threads
    PROVE  /\ frame[t] \in Frames /\ frame = [frame EXCEPT ![t] = frame[t]]
           /\ frame[t].slot \in Addresses /\ frame[t].value \in Values
           /\ frame[t].request \in Requests
           /\ frame[t].first \in SUBSET Rights /\ frame[t].last \in SUBSET Rights
           /\ frame[t].protected \in BOOLEAN /\ frame[t].close \in BOOLEAN
           /\ frame[t].wrote \in BOOLEAN /\ frame[t].restored \in BOOLEAN
           /\ window[t] \in BOOLEAN /\ pc[t] \in Steps
BY DEF TypeInv, TypeOK, Frames

\* RorkHookSupportsTPRO finds out whether the process enforces TPRO.
LEMMA Supports ==
    ASSUME TypeInv, NEW t \in Threads
    PROVE  /\ SupportsTPRO(t) <=> env.enforced
           /\ env.opens => env.enforced
           /\ window[t] => env.opens
           /\ env.opens \in BOOLEAN /\ env.enforced \in BOOLEAN
<1>1. env \in Environments /\ (window[t] => env.opens) /\ window[t] \in BOOLEAN
  BY DEF TypeInv, TypeOK
<1>2. /\ env.hardware \in BOOLEAN /\ env.enforced \in BOOLEAN /\ env.opens \in BOOLEAN
      /\ env.configKnown \in BOOLEAN /\ env.configEnables \in BOOLEAN
      /\ env.enforced => env.hardware
      /\ env.opens => env.enforced
      /\ env.configEnables = (env.configKnown /\ env.enforced)
      /\ ~env.configKnown => env.opens = env.enforced
  BY <1>1 DEF Environments
<1> QED
  BY <1>1, <1>2 DEF SupportsTPRO, ProbeProcessTPRO

LEMMA ProtectedType ==
    ASSUME TypeInv, NEW a, NEW n, NEW request, request \subseteq Rights \union {"C"}
    PROVE  Protected(a, n, request) \in [Mapped -> SUBSET Rights]
BY DEF Protected, TypeInv, TypeOK, Rights

\* The types of what a step of the store of t leaves alone.
LEMMA KeptTypes ==
    ASSUME TypeInv
    PROVE  /\ mem \in [DOMAIN mem -> Values] /\ prot \in [Mapped -> SUBSET Rights]
           /\ window \in [Threads -> BOOLEAN] /\ \A u \in Threads : window[u] => env.opens
           /\ result \in [Threads -> BOOLEAN \union {None}]
           /\ before \in [Threads -> [DOMAIN mem -> Values]]
           /\ unrestored \subseteq Mapped
BY DEF TypeInv, TypeOK

LEMMA CallType ==
    ASSUME TypeInv, NEW t \in Threads, NEW c \in Stores[t], RejectStore(t, c) \/ CallStore(t, c)
    PROVE  TypeInv'
<1>1. before' \in [Threads -> [DOMAIN mem -> Values]]
  BY KeptTypes DEF RejectStore, CallStore, Called
<1>2. UNCHANGED <<env, mem, prot, window, asked, unrestored>>
  BY DEF RejectStore, CallStore, Called, machine
<1>3. CASE RejectStore(t, c)
  <2>1. result' \in [Threads -> BOOLEAN \union {None}]
    BY <1>3, KeptTypes DEF RejectStore, Return
  <2>2. frame' = [frame EXCEPT ![t] = NoFrame] /\ pc' = [pc EXCEPT ![t] = "idle"]
    BY <1>3 DEF RejectStore, Return, Goto
  <2>3. "idle" \in Steps
    BY DEF Steps
  <2> QED
    BY <1>1, <1>2, <2>1, <2>2, <2>3, NoFrameType, KeptTypes, StepType
<1>4. CASE CallStore(t, c)
  <2> DEFINE fr == [NoFrame EXCEPT !.slot = c.slot, !.value = c.value, !.request = c.request]
  <2>1. c.slot \in Addresses /\ c.value \in Values /\ c.request \in Requests
    BY CallsAssumption
  <2>2. fr \in Frames /\ fr.slot = c.slot /\ fr.request = c.request
    BY <2>1, NoFrameType DEF Frames, NoFrame
  <2>3. c.slot \in Slots(t) /\ "W" \in c.request
    BY <1>4 DEF CallStore, Slots, Invalid
  <2>4. result' \in [Threads -> BOOLEAN \union {None}]
    BY <1>4, KeptTypes DEF CallStore
  <2>5. frame' = [frame EXCEPT ![t] = fr] /\ pc' = [pc EXCEPT ![t] = "readFirst"]
    BY <1>4 DEF CallStore, Goto
  <2>6. "readFirst" \in Steps
    BY DEF Steps
  <2> HIDE DEF fr
  <2> QED
    BY <1>1, <1>2, <2>2, <2>3, <2>4, <2>5, <2>6, KeptTypes, StepType
<1> QED
  BY <1>3, <1>4

\* A store that ends early leaves no frame.
LEMMA ReturnType ==
    ASSUME TypeInv, NEW t \in Threads, NEW from, NEW r \in BOOLEAN, Return(t, from, r),
           UNCHANGED <<env, mem, before, asked>>, prot' \in [Mapped -> SUBSET Rights],
           window' \in [Threads -> BOOLEAN], \A u \in Threads : window'[u] => env.opens,
           unrestored' \subseteq Mapped
    PROVE  TypeInv'
<1>1. result' \in [Threads -> BOOLEAN \union {None}]
  BY KeptTypes DEF Return
<1>2. frame' = [frame EXCEPT ![t] = NoFrame] /\ pc' = [pc EXCEPT ![t] = "idle"] /\ "idle" \in Steps
  BY DEF Return, Goto, Steps
<1> QED
  BY <1>1, <1>2, NoFrameType, KeptTypes, StepType

\* What is known of a store in progress.
LEMMA InStore ==
    ASSUME TypeInv, NEW t \in Threads, pc[t] # "idle"
    PROVE  /\ frame[t].slot \in Slots(t) /\ Fits(frame[t].slot)
           /\ "W" \in frame[t].request
           /\ pc[t] # "readFirst" => FirstPage(frame[t].slot) \in Mapped
           /\ pc[t] \notin {"readFirst", "readLast"} => LastPage(frame[t].slot) \in Mapped
BY SlotsFit DEF TypeInv, SlotsOK

LEMMA ReadType ==
    ASSUME TypeInv, NEW t \in Threads, ReadFirst(t) \/ ReadLast(t)
    PROVE  TypeInv'
<1> DEFINE s == frame[t].slot
<1>1. UNCHANGED <<env, mem, prot, window, before, asked, unrestored>>
  BY DEF ReadFirst, ReadLast, CheckReadable, machine, history
<1>2. ASSUME NEW from, Return(t, from, FALSE) PROVE TypeInv'
  BY <1>1, <1>2, KeptTypes, ReturnType
<1>3. ASSUME NEW to \in {"readLast", "queryFirst"}, UNCHANGED <<frame, result>>,
             pc[t] # "idle", pc' = [pc EXCEPT ![t] = to], FirstPage(s) \in Mapped,
             to = "queryFirst" => LastPage(s) \in Mapped
      PROVE  TypeInv'
  <2>1. frame[t] \in Frames /\ frame' = [frame EXCEPT ![t] = frame[t]] /\ to \in Steps
    BY <1>3, Typed DEF Steps
  <2>2. s \in Slots(t) /\ "W" \in frame[t].request
    BY <1>3, InStore
  <2>3. /\ mem' \in [DOMAIN mem -> Values] /\ prot' \in [Mapped -> SUBSET Rights]
        /\ window' \in [Threads -> BOOLEAN] /\ (\A u \in Threads : window'[u] => env.opens)
        /\ result' \in [Threads -> BOOLEAN \union {None}]
        /\ before' \in [Threads -> [DOMAIN mem -> Values]]
        /\ unrestored' \subseteq Mapped /\ env' = env /\ asked' = asked
    BY <1>1, <1>3, KeptTypes
  <2> QED
    BY <1>3, <2>1, <2>2, <2>3, StepType
<1>4. CASE ReadFirst(t)
  <2>1. CASE Readable(s, FirstPageBytes(s))
    <3>1. pc[t] = "readFirst" /\ Fits(s)
      BY <1>4, InStore DEF ReadFirst, CheckReadable, Goto, Return
    <3>2. FirstPage(s) \in Mapped /\ (~SpansPages(s) => LastPage(s) \in Mapped)
      BY <2>1, <3>1, ReadPages DEF Readable
    <3>3. /\ UNCHANGED <<frame, result>>
          /\ pc' = [pc EXCEPT ![t] = IF SpansPages(s) THEN "readLast" ELSE "queryFirst"]
      BY <1>4, <2>1 DEF ReadFirst, CheckReadable, Goto
    <3> QED
      BY <1>3, <3>1, <3>2, <3>3
  <2>2. CASE ~Readable(s, FirstPageBytes(s))
    BY <1>2, <1>4, <2>2 DEF ReadFirst, CheckReadable
  <2> QED
    BY <2>1, <2>2
<1>5. CASE ReadLast(t)
  <2>1. CASE Readable(LastPage(s), LastPageBytes(s))
    <3>1. pc[t] = "readLast" /\ Fits(s) /\ FirstPage(s) \in Mapped
      BY <1>5, InStore DEF ReadLast, CheckReadable, Goto, Return
    <3>2. LastPage(s) \in Mapped
      BY <2>1, <3>1, ReadPages DEF Readable
    <3>3. UNCHANGED <<frame, result>> /\ pc' = [pc EXCEPT ![t] = "queryFirst"]
      BY <1>5, <2>1 DEF ReadLast, CheckReadable, Goto
    <3> QED
      BY <1>3, <3>1, <3>2, <3>3
  <2>2. CASE ~Readable(LastPage(s), LastPageBytes(s))
    BY <1>2, <1>5, <2>2 DEF ReadLast, CheckReadable
  <2> QED
    BY <2>1, <2>2
<1> QED
  BY <1>4, <1>5

\* A step of t whose pages are known to be mapped.
LEMMA MoveType ==
    ASSUME TypeInv, NEW t \in Threads, pc[t] \notin {"idle", "readFirst", "readLast"},
           NEW fr \in Frames, fr.slot = frame[t].slot, fr.request = frame[t].request,
           NEW to \in Steps,
           frame' = [frame EXCEPT ![t] = fr], pc' = [pc EXCEPT ![t] = to],
           UNCHANGED <<env, result, before, asked>>,
           mem' \in [DOMAIN mem -> Values], prot' \in [Mapped -> SUBSET Rights],
           window' \in [Threads -> BOOLEAN], \A u \in Threads : window'[u] => env.opens,
           unrestored' \subseteq Mapped
    PROVE  TypeInv'
BY InStore, KeptTypes, StepType

LEMMA QueryType ==
    ASSUME TypeInv, NEW t \in Threads, QueryFirst(t) \/ QueryLast(t)
    PROVE  TypeInv'
<1> DEFINE s == frame[t].slot
<1>1. UNCHANGED <<env, mem, prot, window, result, before, asked, unrestored>>
  BY DEF QueryFirst, QueryLast, machine, history
<1>2. /\ pc[t] \in {"queryFirst", "queryLast"}
      /\ prot[FirstPage(s)] \in SUBSET Rights /\ prot[LastPage(s)] \in SUBSET Rights
  BY InStore DEF QueryFirst, QueryLast, Goto, TypeInv, TypeOK
<1>3. ASSUME NEW fr \in Frames, fr.slot = s, fr.request = frame[t].request,
             frame' = [frame EXCEPT ![t] = fr], NEW to \in {"queryLast", "protect"},
             pc' = [pc EXCEPT ![t] = to]
      PROVE  TypeInv'
  BY <1>1, <1>2, <1>3, KeptTypes, MoveType DEF Steps
<1>4. CASE QueryFirst(t)
  <2> DEFINE p == prot[FirstPage(s)]
             fr == [frame[t] EXCEPT !.first = p, !.last = p]
  <2>0. p \in SUBSET Rights /\ frame[t] \in Frames
    BY <1>2, Typed
  <2> HIDE DEF p
  <2>1. fr \in Frames /\ fr.slot = s /\ fr.request = frame[t].request
    BY <2>0, FirstUpdate
  <2>2. frame' = [frame EXCEPT ![t] = fr]
    BY <1>4 DEF QueryFirst, p
  <2>3. \E to \in {"queryLast", "protect"} : pc' = [pc EXCEPT ![t] = to]
    BY <1>4 DEF QueryFirst, Goto
  <2> HIDE DEF fr
  <2> QED
    BY <1>3, <2>1, <2>2, <2>3
<1>5. CASE QueryLast(t)
  <2> DEFINE p == prot[LastPage(s)]
             fr == [frame[t] EXCEPT !.last = p]
  <2>0. p \in SUBSET Rights /\ frame[t] \in Frames
    BY <1>2, Typed
  <2>1. fr \in Frames /\ fr.slot = s /\ fr.request = frame[t].request
    <3> HIDE DEF p
    <3> QED
      BY <2>0, LastUpdate
  <2>2. frame' = [frame EXCEPT ![t] = fr] /\ pc' = [pc EXCEPT ![t] = "protect"]
    BY <1>5 DEF QueryLast, Goto
  <2> HIDE DEF fr
  <2> QED
    BY <1>3, <2>1, <2>2
<1> QED
  BY <1>4, <1>5

\* The first vm_protect either reaches all the pages of the slot or none, and it
\* may be refused only for the sake of a refusable page.
LEMMA ProtectFacts ==
    ASSUME TypeInv, NEW t \in Threads, ProtectPages(t)
    PROVE  /\ pc[t] = "protect" /\ pc' = [pc EXCEPT ![t] = "open"]
           /\ UNCHANGED <<env, mem, window, result, before, asked, unrestored>>
           /\ prot' \in [Mapped -> SUBSET Rights]
           /\ \E b \in BOOLEAN :
                 /\ frame' = [frame EXCEPT ![t] = [frame[t] EXCEPT !.protected = b]]
                 /\ b => prot' = [p \in Mapped |-> IF p \in PagesUnder(frame[t].slot)
                                                   THEN frame[t].request \ {"C"} ELSE prot[p]]
                 /\ ~b => /\ UNCHANGED prot
                          /\ PagesUnder(frame[t].slot) \intersect Refusable # {}
<1> DEFINE s == frame[t].slot
           n == LastPage(s) - FirstPage(s) + PageSize
<1>1. /\ pc[t] = "protect" /\ pc' = [pc EXCEPT ![t] = "open"]
      /\ UNCHANGED <<env, mem, window, result, before, asked, unrestored>>
  BY DEF ProtectPages, Goto, history
<1>2. Fits(s) /\ PagesUnder(s) \subseteq Mapped
  BY <1>1, InStore DEF PagesUnder
<1>3. PagesIn(FirstPage(s), n) = PagesUnder(s)
  BY <1>2, SlotRange
<1>4. CASE prot' = Protected(FirstPage(s), n, frame[t].request)
           /\ frame' = [frame EXCEPT ![t].protected = TRUE]
  <2>1. frame[t].request \subseteq Rights \union {"C"}
    BY Typed DEF Requests
  <2>2. prot' \in [Mapped -> SUBSET Rights]
    BY <1>4, <2>1, ProtectedType
  <2>3. prot' = [p \in Mapped |-> IF p \in PagesUnder(s) THEN frame[t].request \ {"C"} ELSE prot[p]]
    BY <1>3, <1>4 DEF Protected
  <2>4. frame' = [frame EXCEPT ![t] = [frame[t] EXCEPT !.protected = TRUE]]
    BY <1>4
  <2> HIDE DEF s, n
  <2> QED
    BY <1>1, <2>2, <2>3, <2>4 DEF s
<1>5. CASE MayRefuse(FirstPage(s), n) /\ frame' = [frame EXCEPT ![t].protected = FALSE]
           /\ UNCHANGED prot
  <2>1. PagesUnder(s) \intersect Refusable # {}
    BY <1>2, <1>3, <1>5 DEF MayRefuse
  <2>2. frame' = [frame EXCEPT ![t] = [frame[t] EXCEPT !.protected = FALSE]]
    BY <1>5
  <2> HIDE DEF s, n
  <2> QED
    BY <1>1, <1>5, <2>1, <2>2, KeptTypes DEF s
<1> QED
  BY <1>4, <1>5 DEF ProtectPages

\* RorkHookAllowTPROWrites: the window of a process that enforces TPRO.
LEMMA OpenFacts ==
    ASSUME TypeInv, NEW t \in Threads, OpenWindow(t)
    PROVE  /\ pc[t] = "open"
           /\ UNCHANGED <<env, mem, prot, result, before, asked, unrestored>>
           /\ \E b \in BOOLEAN, d \in BOOLEAN, w \in BOOLEAN :
                 /\ frame' = [frame EXCEPT ![t] = [frame[t] EXCEPT !.close = b, !.wrote = d]]
                 /\ window' = [window EXCEPT ![t] = w]
                 /\ pc' = [pc EXCEPT ![t] = IF d THEN "write" ELSE "close"]
                 /\ b <=> (env.enforced /\ env.opens /\ ~window[t])
                 /\ w <=> (window[t] \/ (env.enforced /\ env.opens))
                 /\ d <=> (IF env.enforced THEN w ELSE frame[t].protected)
<1> DEFINE supports == SupportsTPRO(t)
           opened == supports /\ Begun(t)
           b == opened /\ ~window[t]
           d == IF supports THEN opened ELSE frame[t].protected
           w == IF supports THEN opened ELSE window[t]
<1>1. /\ pc[t] = "open"
      /\ UNCHANGED <<env, mem, prot, result, before, asked, unrestored>>
  BY DEF OpenWindow, Goto, history
<1>2. supports \in BOOLEAN /\ window[t] \in BOOLEAN /\ frame[t].protected \in BOOLEAN
  BY Typed DEF SupportsTPRO, ProbeProcessTPRO
<1>3. b \in BOOLEAN /\ d \in BOOLEAN /\ w \in BOOLEAN
  BY <1>2
<1>4. /\ frame' = [frame EXCEPT ![t] = [frame[t] EXCEPT !.close = b, !.wrote = d]]
      /\ window' = [window EXCEPT ![t] = w]
      /\ pc' = [pc EXCEPT ![t] = IF frame'[t].wrote THEN "write" ELSE "close"]
  BY Zenon DEF OpenWindow, Goto
<1>5. frame'[t].wrote = d
  <2>1. frame[t] \in Frames
    BY Typed
  <2> HIDE DEF b, d
  <2>2. frame'[t] = [frame[t] EXCEPT !.close = b, !.wrote = d]
    BY <1>4 DEF TypeInv, TypeOK
  <2>3. b \in BOOLEAN /\ d \in BOOLEAN
    BY <1>3
  <2> QED
    BY <2>1, <2>2, <2>3 DEF Frames
<1>6. /\ b <=> (env.enforced /\ env.opens /\ ~window[t])
      /\ w <=> (window[t] \/ (env.enforced /\ env.opens))
      /\ d <=> (IF env.enforced THEN w ELSE frame[t].protected)
  BY Supports DEF Begun
<1> HIDE DEF b, d, w
<1>7. pc' = [pc EXCEPT ![t] = IF d THEN "write" ELSE "close"]
  BY <1>4, <1>5
<1> QED
  BY <1>1, <1>3, <1>4, <1>6, <1>7, Zenon

LEMMA OpenType ==
    ASSUME TypeInv, NEW t \in Threads, ProtectPages(t) \/ OpenWindow(t)
    PROVE  TypeInv'
<1>1. CASE ProtectPages(t)
  <2>1. PICK b \in BOOLEAN : frame' = [frame EXCEPT ![t] = [frame[t] EXCEPT !.protected = b]]
    BY <1>1, ProtectFacts
  <2> DEFINE fr == [frame[t] EXCEPT !.protected = b]
  <2>2. fr \in Frames /\ fr.slot = frame[t].slot /\ fr.request = frame[t].request
    BY <2>1, Typed, ProtectedUpdate
  <2>3. frame' = [frame EXCEPT ![t] = fr]
    BY <2>1
  <2>4. /\ pc[t] = "protect" /\ pc' = [pc EXCEPT ![t] = "open"]
        /\ UNCHANGED <<env, mem, window, result, before, asked, unrestored>>
        /\ prot' \in [Mapped -> SUBSET Rights]
    BY <1>1, ProtectFacts
  <2>5. "open" \in Steps
    BY DEF Steps
  <2> HIDE DEF fr
  <2> QED
    BY <2>2, <2>3, <2>4, <2>5, KeptTypes, MoveType
<1>2. CASE OpenWindow(t)
  <2>1. PICK b \in BOOLEAN, d \in BOOLEAN, w \in BOOLEAN :
                 /\ frame' = [frame EXCEPT ![t] = [frame[t] EXCEPT !.close = b, !.wrote = d]]
                 /\ window' = [window EXCEPT ![t] = w]
                 /\ pc' = [pc EXCEPT ![t] = IF d THEN "write" ELSE "close"]
                 /\ w <=> (window[t] \/ (env.enforced /\ env.opens))
    BY <1>2, OpenFacts
  <2> DEFINE fr == [frame[t] EXCEPT !.close = b, !.wrote = d]
  <2>2. fr \in Frames /\ fr.slot = frame[t].slot /\ fr.request = frame[t].request
    <3>1. frame[t] \in Frames
      BY Typed
    <3> QED
      BY <3>1 DEF Frames
  <2>3. frame' = [frame EXCEPT ![t] = fr]
    BY <2>1
  <2>4. PICK to \in Steps : pc' = [pc EXCEPT ![t] = to]
    BY <2>1 DEF Steps
  <2>5. pc[t] = "open" /\ UNCHANGED <<env, mem, prot, result, before, asked, unrestored>>
    BY <1>2, OpenFacts
  <2>6. window' \in [Threads -> BOOLEAN]
    BY <2>1, KeptTypes
  <2>7. \A u \in Threads : window'[u] => env.opens
    BY <2>1, KeptTypes, Supports
  <2> HIDE DEF fr
  <2> QED
    BY <2>2, <2>3, <2>4, <2>5, <2>6, <2>7, KeptTypes, MoveType
<1> QED
  BY <1>1, <1>2

LEMMA WriteType == ASSUME TypeInv, NEW t \in Threads, Write(t) PROVE TypeInv'
<1>1. /\ pc[t] = "write" /\ UNCHANGED <<env, prot, window, frame, result, before, asked, unrestored>>
  BY DEF Write, history
<1>2. PICK to \in {"close", "faulted"} : pc' = [pc EXCEPT ![t] = to]
  BY DEF Write, Goto
<1>3. mem' \in [DOMAIN mem -> Values]
  BY Typed, KeptTypes DEF Write
<1> QED
  BY <1>1, <1>2, <1>3, Typed, KeptTypes, MoveType DEF Steps

\* restoreReadOnly: a window that the store opened is closed.
LEMMA CloseFacts ==
    ASSUME TypeInv, NEW t \in Threads, CloseWindow(t)
    PROVE  /\ pc[t] = "close" /\ UNCHANGED <<env, mem, prot, before, asked, unrestored>>
           /\ \E w \in BOOLEAN :
                 /\ window' = [window EXCEPT ![t] = w]
                 /\ w <=> (window[t] /\ ~(frame[t].close /\ env.enforced))
           /\ \/ /\ frame[t].protected
                 /\ pc' = [pc EXCEPT ![t] = "restoreFirst"] /\ UNCHANGED <<frame, result>>
              \/ ~frame[t].protected /\ Return(t, "close", frame[t].wrote)
<1> DEFINE w == IF frame[t].close THEN Ended(t) ELSE window[t]
<1>1. /\ pc[t] = "close" /\ UNCHANGED <<env, mem, prot, before, asked, unrestored>>
      /\ window' = [window EXCEPT ![t] = w]
  BY DEF CloseWindow, Return, Goto, history
<1>2. w \in BOOLEAN /\ (w <=> (window[t] /\ ~(frame[t].close /\ env.enforced)))
  BY Typed, Supports DEF Ended
<1>3. \/ /\ frame[t].protected
         /\ pc' = [pc EXCEPT ![t] = "restoreFirst"] /\ UNCHANGED <<frame, result>>
      \/ ~frame[t].protected /\ Return(t, "close", frame[t].wrote)
  BY DEF CloseWindow, Goto
<1> HIDE DEF w
<1> QED
  BY <1>1, <1>2, <1>3

LEMMA CloseType == ASSUME TypeInv, NEW t \in Threads, CloseWindow(t) PROVE TypeInv'
<1>1. /\ pc[t] = "close" /\ UNCHANGED <<env, mem, prot, before, asked, unrestored>>
  BY CloseFacts
<1>2. PICK w \in BOOLEAN : window' = [window EXCEPT ![t] = w] /\ (w => window[t])
  BY CloseFacts
<1>3. window' \in [Threads -> BOOLEAN] /\ \A u \in Threads : window'[u] => env.opens
  BY <1>2, KeptTypes
<1>4. CASE pc' = [pc EXCEPT ![t] = "restoreFirst"] /\ UNCHANGED <<frame, result>>
  BY <1>1, <1>3, <1>4, Typed, KeptTypes, MoveType DEF Steps
<1>5. CASE Return(t, "close", frame[t].wrote)
  BY <1>1, <1>3, <1>5, Typed, KeptTypes, ReturnType
<1> QED
  BY <1>4, <1>5, CloseFacts

\* The second vm_protect, on one page.
LEMMA RestoreFacts ==
    ASSUME TypeInv, NEW p \in Mapped, p % PageSize = 0, NEW original \in SUBSET Rights,
           NEW ok \in BOOLEAN, RestorePage(p, original, ok)
    PROVE  /\ prot' \in [Mapped -> SUBSET Rights] /\ unrestored' \subseteq Mapped
           /\ ok => /\ prot' = [prot EXCEPT ![p] = original] /\ UNCHANGED unrestored
           /\ ~ok => /\ unrestored' = unrestored \union {p} /\ UNCHANGED prot
<1>1. PagesIn(p, PageSize) = {p}
  BY OnePage, PagesAssumption
<1>2. original \ {"C"} = original
  BY DEF Rights
<1>3. CASE ok
  <2>1. prot' = Protected(p, PageSize, original) /\ UNCHANGED unrestored
    BY <1>3 DEF RestorePage
  <2>2. prot' = [prot EXCEPT ![p] = original]
    BY <1>1, <1>2, <2>1, KeptTypes DEF Protected
  <2> QED
    BY <1>3, <2>1, <2>2, KeptTypes
<1>4. CASE ~ok
  BY <1>4, KeptTypes DEF RestorePage
<1> QED
  BY <1>3, <1>4

LEMMA RestoreType ==
    ASSUME TypeInv, NEW t \in Threads, RestoreFirst(t) \/ RestoreLast(t) PROVE TypeInv'
<1> DEFINE s == frame[t].slot
<1>1. UNCHANGED <<env, mem, window, before, asked>> /\ pc[t] \in {"restoreFirst", "restoreLast"}
  BY DEF RestoreFirst, RestoreLast, Return, Goto
<1>2. /\ FirstPage(s) \in Mapped /\ FirstPage(s) % PageSize = 0
      /\ LastPage(s) \in Mapped /\ LastPage(s) % PageSize = 0
      /\ frame[t].first \in SUBSET Rights /\ frame[t].last \in SUBSET Rights
      /\ frame[t].wrote \in BOOLEAN /\ frame[t].restored \in BOOLEAN
  BY <1>1, InStore, SlotPages, Typed
<1>3. CASE RestoreFirst(t)
  <2>1. PICK ok \in BOOLEAN :
            /\ RestorePage(FirstPage(s), frame[t].first, ok)
            /\ \/ /\ pc' = [pc EXCEPT ![t] = "restoreLast"]
                  /\ frame' = [frame EXCEPT ![t] = [frame[t] EXCEPT !.restored = ok]]
                  /\ UNCHANGED result
               \/ Return(t, "restoreFirst", frame[t].wrote /\ ok)
    BY <1>3, Zenon DEF RestoreFirst, Goto
  <2>2. prot' \in [Mapped -> SUBSET Rights] /\ unrestored' \subseteq Mapped
    BY <1>2, <2>1, RestoreFacts
  <2>3. CASE Return(t, "restoreFirst", frame[t].wrote /\ ok)
    <3>1. (frame[t].wrote /\ ok) \in BOOLEAN
      OBVIOUS
    <3> QED
      BY <1>1, <2>2, <2>3, <3>1, KeptTypes, ReturnType
  <2>4. CASE /\ pc' = [pc EXCEPT ![t] = "restoreLast"]
             /\ frame' = [frame EXCEPT ![t] = [frame[t] EXCEPT !.restored = ok]]
             /\ UNCHANGED result
    <3> DEFINE fr == [frame[t] EXCEPT !.restored = ok]
    <3>1. fr \in Frames /\ fr.slot = frame[t].slot /\ fr.request = frame[t].request
      BY <2>1, Typed, RestoredUpdate
    <3>2. frame' = [frame EXCEPT ![t] = fr] /\ "restoreLast" \in Steps
      BY <2>4 DEF Steps
    <3> HIDE DEF fr
    <3> QED
      BY <1>1, <2>2, <2>4, <3>1, <3>2, KeptTypes, MoveType
  <2> QED
    BY <2>1, <2>3, <2>4
<1>4. CASE RestoreLast(t)
  <2>1. PICK ok \in BOOLEAN :
            /\ RestorePage(LastPage(s), frame[t].last, ok)
            /\ Return(t, "restoreLast", frame[t].wrote /\ frame[t].restored /\ ok)
    BY <1>4 DEF RestoreLast
  <2>2. prot' \in [Mapped -> SUBSET Rights] /\ unrestored' \subseteq Mapped
    BY <1>2, <2>1, RestoreFacts
  <2>3. (frame[t].wrote /\ frame[t].restored /\ ok) \in BOOLEAN
    OBVIOUS
  <2> QED
    BY <1>1, <2>1, <2>2, <2>3, KeptTypes, ReturnType
<1> QED
  BY <1>3, <1>4

LEMMA ProtectMemoryFacts ==
    ASSUME TypeInv, NEW t \in Threads, NEW c \in Protects[t], ProtectMemory(t, c)
    PROVE  /\ pc[t] = "idle" /\ UNCHANGED <<env, mem, window, pc, frame, result, before>>
           /\ prot' \in [Mapped -> SUBSET Rights]
           /\ asked'.prot \in [Mapped -> SUBSET Rights] /\ asked'.window = asked.window
           /\ asked' \in [prot : [Mapped -> SUBSET Rights], window : [Threads -> BOOLEAN]]
           /\ unrestored' = unrestored \ PagesIn(c.address, c.size)
           /\ \A p \in Mapped : p \in PagesIn(c.address, c.size) => asked'.prot[p] = prot'[p]
           /\ \A p \in Mapped : p \notin PagesIn(c.address, c.size) =>
                  asked'.prot[p] = asked.prot[p] /\ prot'[p] = prot[p]
<1> DEFINE P == PagesIn(c.address, c.size)
           A == [p \in Mapped |-> IF p \in P THEN prot'[p] ELSE asked.prot[p]]
<1>1. /\ pc[t] = "idle" /\ UNCHANGED <<env, mem, window, pc, frame, result, before>>
      /\ unrestored' = unrestored \ P
      /\ prot' = Protected(c.address, c.size, c.request)
      /\ asked' = [asked EXCEPT !.prot = A]
  BY DEF ProtectMemory
<1>2. c.request \subseteq Rights \union {"C"}
  BY CallsAssumption DEF Requests
<1>3. prot' \in [Mapped -> SUBSET Rights]
  BY <1>1, <1>2, ProtectedType
<1>4. asked \in [prot : [Mapped -> SUBSET Rights], window : [Threads -> BOOLEAN]]
  BY DEF TypeInv, TypeOK
<1>5. A \in [Mapped -> SUBSET Rights]
  BY <1>3, <1>4
<1>6. \A p \in Mapped : A[p] = IF p \in P THEN prot'[p] ELSE asked.prot[p]
  OBVIOUS
<1>7. \A p \in Mapped : p \notin P => prot'[p] = prot[p]
  BY <1>1 DEF Protected
<1> HIDE DEF A, P
<1>8. asked'.prot = A /\ asked'.window = asked.window
      /\ asked' \in [prot : [Mapped -> SUBSET Rights], window : [Threads -> BOOLEAN]]
  BY <1>1, <1>4, <1>5
<1> QED
  BY <1>1, <1>3, <1>5, <1>6, <1>7, <1>8 DEF P

LEMMA SetWindowFacts ==
    ASSUME TypeInv, NEW t \in Threads, BeginThreadTPROWrite(t) \/ EndThreadTPROWrite(t)
    PROVE  /\ pc[t] = "idle" /\ UNCHANGED <<env, mem, prot, pc, frame, result, before, unrestored>>
           /\ \E w \in BOOLEAN : /\ window' = [window EXCEPT ![t] = w]
                                 /\ asked' = [asked EXCEPT !.window[t] = w]
                                 /\ w => env.opens
<1>1. Begun(t) \in BOOLEAN /\ Ended(t) \in BOOLEAN
  BY Typed DEF Begun, Ended
<1>2. (Begun(t) => env.opens) /\ (Ended(t) => env.opens)
  BY Supports DEF Begun, Ended
<1>3. PICK w \in {Begun(t), Ended(t)} : SetWindow(t, w)
  BY DEF BeginThreadTPROWrite, EndThreadTPROWrite
<1> QED
  BY <1>1, <1>2, <1>3 DEF SetWindow

LEMMA CallersType ==
    ASSUME TypeInv, NEW t \in Threads,
           \/ \E c \in Protects[t] : ProtectMemory(t, c)
           \/ BeginThreadTPROWrite(t) \/ EndThreadTPROWrite(t)
    PROVE  TypeInv'
<1>1. ASSUME NEW c \in Protects[t], ProtectMemory(t, c) PROVE TypeInv'
  <2>1. /\ UNCHANGED <<env, mem, window, pc, frame, result, before>>
        /\ prot' \in [Mapped -> SUBSET Rights]
        /\ asked' \in [prot : [Mapped -> SUBSET Rights], window : [Threads -> BOOLEAN]]
        /\ unrestored' \subseteq unrestored
    BY <1>1, ProtectMemoryFacts
  <2>2. SlotsOK'
    BY <2>1 DEF TypeInv, SlotsOK
  <2> QED
    BY <2>1, <2>2 DEF TypeInv, TypeOK
<1>2. CASE BeginThreadTPROWrite(t) \/ EndThreadTPROWrite(t)
  <2>1. PICK w \in BOOLEAN : /\ window' = [window EXCEPT ![t] = w]
                             /\ asked' = [asked EXCEPT !.window[t] = w]
                             /\ w => env.opens
    BY <1>2, SetWindowFacts
  <2>2. UNCHANGED <<env, mem, prot, pc, frame, result, before, unrestored>>
    BY <1>2, SetWindowFacts
  <2>3. window' \in [Threads -> BOOLEAN] /\ \A u \in Threads : window'[u] => env.opens
    BY <2>1, KeptTypes
  <2>4. asked' \in [prot : [Mapped -> SUBSET Rights], window : [Threads -> BOOLEAN]]
    BY <2>1 DEF TypeInv, TypeOK
  <2>5. SlotsOK'
    BY <2>2 DEF TypeInv, SlotsOK
  <2> QED
    BY <2>2, <2>3, <2>4, <2>5 DEF TypeInv, TypeOK
<1> QED
  BY <1>1, <1>2

LEMMA NextType == TypeInv /\ [Next]_vars => TypeInv'
<1> SUFFICES ASSUME TypeInv, [Next]_vars PROVE TypeInv'
  OBVIOUS
<1>1. CASE UNCHANGED vars
  BY <1>1 DEF vars, TypeInv, TypeOK, SlotsOK
<1>2. ASSUME NEW t \in Threads, StoreStep(t) PROVE TypeInv'
  BY <1>2, ReadType, QueryType, OpenType, WriteType, CloseType, RestoreType DEF StoreStep
<1> QED
  BY <1>1, <1>2, CallType, CallersType DEF Next

\* Every variable keeps its type, however the threads share the pages: a store
\* writes, protects and restores mapped pages only, and no thread has an open
\* window where the hardware has none.
THEOREM TypeCorrect == Spec => []TypeOK
<1>1. TypeInv => TypeOK
  BY DEF TypeInv
<1> QED
  BY <1>1, InitType, NextType, PTL DEF Spec

-----------------------------------------------------------------------------
(***************************************************************************)
(* Stores that keep apart.  Two threads store on different pages, and      *)
(* nobody changes the protection of a page on which another thread may     *)
(* store.  The kernel may refuse any change of protection.                 *)
(***************************************************************************)
Own(t) == UNION {PagesUnder(s) : s \in Slots(t)}

KeptApart ==
    \A t, u \in Threads : t # u =>
        /\ Own(t) \intersect Own(u) = {}
        /\ \A c \in Protects[u] : Own(t) \intersect PagesIn(c.address, c.size) = {}

\* Where a store that made its pages writable has not begun to put them back.
Writable == {"open", "write", "close", "restoreFirst"}

\* The window of t is the one its caller left, but for the time between
\* RorkHookAllowTPROWrites and restoreReadOnly.
WindowOf(t) ==
    /\ pc[t] \notin {"write", "close", "faulted"} => window[t] = asked.window[t]
    /\ pc[t] \in {"write", "close"} =>
          IF frame[t].close THEN env.enforced /\ ~asked.window[t]
                            ELSE window[t] = asked.window[t]
    /\ pc[t] = "write" => IF env.enforced THEN window[t] ELSE frame[t].protected

\* The page p has, or is to get, the protection that its owner gave it.
Right(p, original) == original = asked.prot[p] \/ p \in unrestored

\* What t knows of the pages under its slot.
PagesOf(t) ==
    LET f == FirstPage(frame[t].slot)
        l == LastPage(frame[t].slot)
    IN  /\ pc[t] \in Writable \union {"queryLast", "protect", "restoreLast"} =>
              Right(f, frame[t].first)
        /\ pc[t] \in Writable \union {"protect", "restoreLast"} =>
              Right(l, frame[t].last) /\ (f = l => frame[t].last = frame[t].first)
        /\ pc[t] \in Writable /\ frame[t].protected =>
              prot[f] = frame[t].request \ {"C"} /\ prot[l] = frame[t].request \ {"C"}
        /\ pc[t] \in {"restoreFirst", "restoreLast"} => frame[t].protected
        /\ pc[t] \in {"queryLast", "restoreLast"} => f # l
        /\ pc[t] = "restoreLast" =>
              IF frame[t].restored THEN prot[f] = frame[t].first ELSE f \in unrestored

\* A store that faulted changed no protection, and found a page not writable.
FaultOf(t) ==
    pc[t] = "faulted" =>
        /\ ~frame[t].protected /\ window[t]
        /\ \E p \in PagesUnder(frame[t].slot) : "W" \notin prot[p]

\* What the slot of t holds.
BytesOf(t) ==
    LET written == pc[t] \in {"close", "restoreFirst", "restoreLast"} /\ frame[t].wrote
    IN  \A a \in SlotBytes(frame[t].slot) :
            /\ pc[t] # "idle" /\ ~written => (a \in DOMAIN mem => mem[a] = before[t][a])
            /\ written => mem[a] = frame[t].value

WroteOf(t) == pc[t] = "write" => frame[t].wrote

\* A page that is not as its owner left it is under a store that will restore it.
PagesOK ==
    \A p \in Mapped :
        \/ Right(p, prot[p])
        \/ \E t \in Threads :
              \/ /\ pc[t] \in Writable /\ frame[t].protected
                 /\ p \in PagesUnder(frame[t].slot)
              \/ pc[t] = "restoreLast" /\ p = LastPage(frame[t].slot)

StoreOf(t) == WindowOf(t) /\ PagesOf(t) /\ FaultOf(t) /\ BytesOf(t) /\ WroteOf(t)

IInv == TypeInv /\ PagesOK /\ \A t \in Threads : StoreOf(t)

LEMMA InitIInv == Init => IInv
<1> SUFFICES ASSUME Init PROVE IInv
  OBVIOUS
<1>1. TypeInv
  BY InitType
<1>2. PagesOK
  BY DEF Init, PagesOK, Right
<1>3. ASSUME NEW t \in Threads PROVE StoreOf(t)
  <2>1. pc[t] = "idle" /\ window[t] = asked.window[t]
    BY DEF Init
  <2> QED
    BY <2>1 DEF StoreOf, WindowOf, PagesOf, FaultOf, BytesOf, WroteOf, Writable
<1> QED
  BY <1>1, <1>2, <1>3 DEF IInv

\* The pages and the bytes of two stores in progress are different.
LEMMA Disjoint ==
    ASSUME KeptApart, TypeInv, NEW t \in Threads, NEW u \in Threads, t # u,
           pc[t] # "idle", pc[u] # "idle"
    PROVE  /\ PagesUnder(frame[t].slot) \intersect PagesUnder(frame[u].slot) = {}
           /\ SlotBytes(frame[t].slot) \intersect SlotBytes(frame[u].slot) = {}
<1>1. frame[t].slot \in Slots(t) /\ frame[u].slot \in Slots(u)
      /\ Fits(frame[t].slot) /\ Fits(frame[u].slot)
  BY InStore
<1>2. PagesUnder(frame[t].slot) \intersect PagesUnder(frame[u].slot) = {}
  BY <1>1 DEF KeptApart, Own
<1>3. SlotBytes(frame[t].slot) \intersect SlotBytes(frame[u].slot) = {}
  BY <1>1, <1>2, SlotBytesOnPages
<1> QED
  BY <1>2, <1>3

\* The bytes of a store whose pages are mapped are mapped.
LEMMA SlotMapped ==
    ASSUME TypeInv, NEW t \in Threads, pc[t] \notin {"idle", "readFirst", "readLast"},
           NEW a \in SlotBytes(frame[t].slot)
    PROVE  a \in DOMAIN mem
<1>1. Fits(frame[t].slot) /\ PagesUnder(frame[t].slot) \subseteq Mapped
  BY InStore DEF PagesUnder
<1>2. a \in Bytes
  BY <1>1, SlotBytesOnPages, MappedBytes
<1> QED
  BY <1>2 DEF TypeInv, TypeOK, Bytes

\* A step that touches neither the pages nor the bytes nor the window of u leaves
\* the store of u as it is.
LEMMA Others ==
    ASSUME TypeInv, NEW u \in Threads, StoreOf(u),
           pc'[u] = pc[u], frame'[u] = frame[u], window'[u] = window[u], before'[u] = before[u],
           env' = env, asked'.window[u] = asked.window[u], DOMAIN mem' = DOMAIN mem,
           pc[u] # "idle" =>
               /\ \A p \in PagesUnder(frame[u].slot) \intersect Mapped :
                      /\ prot'[p] = prot[p] /\ asked'.prot[p] = asked.prot[p]
                      /\ p \in unrestored' <=> p \in unrestored
               /\ \A a \in SlotBytes(frame[u].slot) \intersect DOMAIN mem : mem'[a] = mem[a]
    PROVE  StoreOf(u)'
<1>1. WindowOf(u)' /\ WroteOf(u)'
  BY DEF StoreOf, WindowOf, WroteOf
<1>2. BytesOf(u)'
  <2>1. CASE pc[u] = "idle"
    BY <2>1 DEF BytesOf
  <2>2. CASE pc[u] # "idle"
    <3>1. BytesOf(u)
      BY DEF StoreOf
    <3>2. ASSUME NEW a \in SlotBytes(frame[u].slot), pc[u] \in {"close", "restoreFirst", "restoreLast"}
          PROVE  a \in DOMAIN mem
      BY <3>2, SlotMapped
    <3> QED
      BY <2>2, <3>1, <3>2 DEF BytesOf
  <2> QED
    BY <2>1, <2>2
<1>3. PagesOf(u)'
  <2>1. PagesOf(u)
    BY DEF StoreOf
  <2>2. CASE pc[u] \notin Writable \union {"queryLast", "protect", "restoreLast"}
    BY <2>1, <2>2 DEF PagesOf, Writable
  <2>3. CASE pc[u] \in Writable \union {"queryLast", "protect", "restoreLast"}
    <3> DEFINE f == FirstPage(frame[u].slot)
               l == LastPage(frame[u].slot)
    <3>1. f \in Mapped /\ l \in Mapped
      BY <2>3, InStore DEF Writable
    <3>2. /\ prot'[f] = prot[f] /\ asked'.prot[f] = asked.prot[f]
          /\ f \in unrestored' <=> f \in unrestored
          /\ prot'[l] = prot[l] /\ asked'.prot[l] = asked.prot[l]
          /\ l \in unrestored' <=> l \in unrestored
      BY <2>3, <3>1 DEF PagesUnder, Writable
    <3> QED
      BY <2>1, <3>2 DEF PagesOf, Right
  <2> QED
    BY <2>2, <2>3
<1>4. FaultOf(u)'
  <2> SUFFICES ASSUME pc[u] = "faulted" PROVE FaultOf(u)'
    BY DEF FaultOf
  <2>1. PICK p \in PagesUnder(frame[u].slot) : "W" \notin prot[p]
    BY DEF StoreOf, FaultOf
  <2>2. p \in Mapped
    BY InStore DEF PagesUnder
  <2>3. "W" \notin prot'[p]
    BY <2>1, <2>2
  <2> QED
    BY <2>1, <2>3 DEF StoreOf, FaultOf
<1> QED
  BY <1>1, <1>2, <1>3, <1>4 DEF StoreOf

\* The page p is under the store of t, which will restore it.
Dirty(t, p) ==
    \/ pc[t] \in Writable /\ frame[t].protected /\ p \in PagesUnder(frame[t].slot)
    \/ pc[t] = "restoreLast" /\ p = LastPage(frame[t].slot)

LEMMA OwnPage ==
    ASSUME KeptApart, IInv, NEW t \in Threads, pc[t] # "idle",
           NEW p \in Mapped, p \in PagesUnder(frame[t].slot)
    PROVE  Right(p, prot[p]) \/ Dirty(t, p)
<1>1. ASSUME NEW u \in Threads, Dirty(u, p) PROVE u = t
  <2>1. pc[u] # "idle" /\ p \in PagesUnder(frame[u].slot)
    BY <1>1 DEF Dirty, Writable, PagesUnder
  <2> QED
    BY <2>1, Disjoint DEF IInv
<1>2. Right(p, prot[p]) \/ \E u \in Threads : Dirty(u, p)
  BY DEF IInv, PagesOK, Dirty
<1> QED
  BY <1>1, <1>2

\* A step of a store has only its own thread, pages and bytes to answer for.
LEMMA Progress ==
    ASSUME KeptApart, IInv, TypeInv', NEW t \in Threads, pc[t] # "idle", StoreOf(t)',
           env' = env, asked' = asked, before' = before,
           \A u \in Threads \ {t} :
               pc'[u] = pc[u] /\ frame'[u] = frame[u] /\ window'[u] = window[u],
           \A p \in Mapped \ PagesUnder(frame[t].slot) :
               prot'[p] = prot[p] /\ (p \in unrestored' <=> p \in unrestored),
           \A a \in DOMAIN mem \ SlotBytes(frame[t].slot) : mem'[a] = mem[a],
           DOMAIN mem' = DOMAIN mem,
           \A p \in Mapped \intersect PagesUnder(frame[t].slot) :
               (prot'[p] = asked.prot[p] \/ p \in unrestored') \/ Dirty(t, p)'
    PROVE  IInv'
<1>1. ASSUME NEW u \in Threads \ {t} PROVE StoreOf(u)'
  <2>1. StoreOf(u)
    BY DEF IInv
  <2>2. pc[u] # "idle" =>
            /\ PagesUnder(frame[t].slot) \intersect PagesUnder(frame[u].slot) = {}
            /\ SlotBytes(frame[t].slot) \intersect SlotBytes(frame[u].slot) = {}
    BY Disjoint DEF IInv
  <2> QED
    BY <2>1, <2>2, Others DEF IInv
<1>2. PagesOK'
  <2> SUFFICES ASSUME NEW p \in Mapped
               PROVE  \/ prot'[p] = asked.prot[p] \/ p \in unrestored'
                      \/ \E u \in Threads : Dirty(u, p)'
    BY DEF PagesOK, Dirty, Right
  <2>1. CASE p \in PagesUnder(frame[t].slot)
    BY <2>1
  <2>2. CASE p \notin PagesUnder(frame[t].slot)
    <3>1. ASSUME NEW u \in Threads, Dirty(u, p) PROVE Dirty(u, p)'
      <4>1. u # t
        BY <2>2, <3>1 DEF Dirty, PagesUnder
      <4> QED
        BY <3>1, <4>1 DEF Dirty
    <3>2. Right(p, prot[p]) \/ \E u \in Threads : Dirty(u, p)
      BY DEF IInv, PagesOK, Dirty
    <3> QED
      BY <2>2, <3>1, <3>2 DEF Right
  <2> QED
    BY <2>1, <2>2
<1> QED
  BY <1>1, <1>2 DEF IInv

-----------------------------------------------------------------------------
(* The steps of a store.                                                   *)

LEMMA ReturnFacts ==
    ASSUME TypeInv, NEW t \in Threads, NEW from, NEW r, Return(t, from, r)
    PROVE  /\ pc[t] = from /\ pc'[t] = "idle" /\ result'[t] = r
           /\ \A u \in Threads \ {t} : pc'[u] = pc[u] /\ frame'[u] = frame[u]
BY DEF Return, Goto, TypeInv, TypeOK

\* A store that returns with its window and its pages as they were.
LEMMA ReturnInv ==
    ASSUME KeptApart, IInv, TypeInv', NEW t \in Threads, NEW from, NEW r, Return(t, from, r),
           pc[t] # "idle", UNCHANGED <<env, asked, before, mem>>,
           \A u \in Threads \ {t} : window'[u] = window[u],
           window'[t] = asked.window[t],
           \A p \in Mapped \ PagesUnder(frame[t].slot) :
               prot'[p] = prot[p] /\ (p \in unrestored' <=> p \in unrestored),
           \A p \in Mapped \intersect PagesUnder(frame[t].slot) :
               prot'[p] = asked.prot[p] \/ p \in unrestored'
    PROVE  IInv'
<1>1. /\ pc'[t] = "idle" /\ \A u \in Threads \ {t} : pc'[u] = pc[u] /\ frame'[u] = frame[u]
  BY ReturnFacts DEF IInv
<1>2. StoreOf(t)'
  BY <1>1 DEF StoreOf, WindowOf, PagesOf, FaultOf, BytesOf, WroteOf, Writable
<1> QED
  BY <1>1, <1>2, Progress

\* Before the first vm_protect nothing is changed.
LEMMA ReadQueryInv ==
    ASSUME KeptApart, IInv, NEW t \in Threads,
           ReadFirst(t) \/ ReadLast(t) \/ QueryFirst(t) \/ QueryLast(t)
    PROVE  IInv'
<1> DEFINE s == frame[t].slot
<1>1. /\ UNCHANGED <<env, mem, prot, window, before, asked, unrestored>>
      /\ pc[t] \in {"readFirst", "readLast", "queryFirst", "queryLast"}
  BY DEF ReadFirst, ReadLast, QueryFirst, QueryLast, CheckReadable, Return, Goto, machine, history
<1>2. TypeInv /\ TypeInv'
  BY ReadType, QueryType DEF IInv
<1>3. ASSUME NEW p \in Mapped, p \in PagesUnder(s)
      PROVE  Right(p, prot[p])
  BY <1>1, <1>3, OwnPage DEF Dirty, Writable
<1>4. window[t] = asked.window[t] /\ \A a \in SlotBytes(s) : a \in DOMAIN mem => mem[a] = before[t][a]
  BY <1>1 DEF IInv, StoreOf, WindowOf, BytesOf
<1>5. ASSUME NEW from, NEW r, Return(t, from, r) PROVE IInv'
  BY <1>1, <1>2, <1>3, <1>4, <1>5, ReturnInv DEF Right
<1>6. ASSUME NEW fr, fr.slot = s, NEW to \in {"readLast", "queryFirst", "queryLast", "protect"},
             frame' = [frame EXCEPT ![t] = fr], pc' = [pc EXCEPT ![t] = to],
             to \in {"queryLast", "protect"} => Right(FirstPage(s), fr.first),
             to = "queryLast" => FirstPage(s) # LastPage(s),
             to = "protect" => /\ Right(LastPage(s), fr.last)
                               /\ FirstPage(s) = LastPage(s) => fr.last = fr.first
      PROVE  IInv'
  <2>1. /\ frame'[t] = fr /\ pc'[t] = to
        /\ \A u \in Threads \ {t} : pc'[u] = pc[u] /\ frame'[u] = frame[u]
    BY <1>2, <1>6 DEF TypeInv, TypeOK
  <2>2. WindowOf(t)' /\ WroteOf(t)'
    BY <1>1, <1>4, <2>1 DEF WindowOf, WroteOf
  <2>3. PagesOf(t)'
    BY <1>1, <1>6, <2>1 DEF PagesOf, Writable, Right
  <2>4. BytesOf(t)'
    BY <1>1, <1>4, <1>6, <2>1 DEF BytesOf
  <2>5. StoreOf(t)'
    BY <1>6, <2>1, <2>2, <2>3, <2>4 DEF StoreOf, FaultOf
  <2>6. \A p \in Mapped \intersect PagesUnder(s) : prot'[p] = asked.prot[p] \/ p \in unrestored'
    BY <1>1, <1>3 DEF Right
  <2> HIDE DEF s
  <2> QED
    BY <1>1, <1>2, <2>1, <2>5, <2>6, Progress DEF s
<1>7. CASE ReadFirst(t) \/ ReadLast(t)
  <2>1. CASE UNCHANGED frame
    <3>1. frame' = [frame EXCEPT ![t] = frame[t]]
      BY <1>2, <2>1, Typed
    <3>2. \/ \E to \in {"readLast", "queryFirst"} : pc' = [pc EXCEPT ![t] = to]
          \/ \E from \in {"readFirst", "readLast"} : Return(t, from, FALSE)
      BY <1>7 DEF ReadFirst, ReadLast, CheckReadable, Goto
    <3> QED
      BY <1>5, <1>6, <3>1, <3>2
  <2>2. CASE \E from \in {"readFirst", "readLast"} : Return(t, from, FALSE)
    BY <1>5, <2>2
  <2> QED
    BY <1>7, <2>1, <2>2 DEF ReadFirst, ReadLast, CheckReadable
<1>8. pc[t] \in {"queryFirst", "queryLast"} =>
          /\ FirstPage(s) \in Mapped /\ LastPage(s) \in Mapped
          /\ Right(FirstPage(s), prot[FirstPage(s)]) /\ Right(LastPage(s), prot[LastPage(s)])
  BY <1>2, <1>3, InStore DEF PagesUnder
<1>9. CASE QueryFirst(t)
  <2> DEFINE p == prot[FirstPage(s)]
             fr == [frame[t] EXCEPT !.first = p, !.last = p]
  <2>1. pc[t] = "queryFirst" /\ frame' = [frame EXCEPT ![t] = fr]
        /\ pc' = [pc EXCEPT ![t] = IF SpansPages(s) THEN "queryLast" ELSE "protect"]
    BY <1>9 DEF QueryFirst, Goto
  <2>2. fr.slot = s /\ fr.first = p /\ fr.last = p
    <3>1. p \in SUBSET Rights /\ frame[t] \in Frames
      BY <1>2, <1>8, <2>1, Typed, KeptTypes
    <3> HIDE DEF p
    <3> QED
      BY <3>1, FirstUpdate
  <2> HIDE DEF fr
  <2>3. CASE SpansPages(s)
    BY <1>6, <1>8, <2>1, <2>2, <2>3 DEF SpansPages
  <2>4. CASE ~SpansPages(s)
    BY <1>6, <1>8, <2>1, <2>2, <2>4 DEF SpansPages
  <2> QED
    BY <2>3, <2>4
<1>10. CASE QueryLast(t)
  <2> DEFINE p == prot[LastPage(s)]
             fr == [frame[t] EXCEPT !.last = p]
  <2>1. pc[t] = "queryLast" /\ frame' = [frame EXCEPT ![t] = fr]
        /\ pc' = [pc EXCEPT ![t] = "protect"]
    BY <1>10 DEF QueryLast, Goto
  <2>2. fr.slot = s /\ fr.first = frame[t].first /\ fr.last = p
    <3>1. p \in SUBSET Rights /\ frame[t] \in Frames
      BY <1>2, <1>8, <2>1, Typed, KeptTypes
    <3> HIDE DEF p
    <3> QED
      BY <3>1, LastUpdate
  <2>3. Right(FirstPage(s), fr.first)
    BY <2>1, <2>2 DEF IInv, StoreOf, PagesOf
  <2>4. FirstPage(s) # LastPage(s)
    BY <2>1 DEF IInv, StoreOf, PagesOf
  <2> HIDE DEF fr
  <2> QED
    BY <1>6, <1>8, <2>1, <2>2, <2>3, <2>4
<1> QED
  BY <1>7, <1>9, <1>10

\* A step of t changes the place and the frame of t only.
LEMMA StepAt ==
    ASSUME TypeInv, NEW t \in Threads, NEW fr, NEW to,
           frame' = [frame EXCEPT ![t] = fr], pc' = [pc EXCEPT ![t] = to]
    PROVE  /\ frame'[t] = fr /\ pc'[t] = to
           /\ \A u \in Threads \ {t} : pc'[u] = pc[u] /\ frame'[u] = frame[u]
BY DEF TypeInv, TypeOK

\* The pages take the request, or the kernel refuses and they stay as they were.
LEMMA ProtectInv ==
    ASSUME KeptApart, IInv, NEW t \in Threads, ProtectPages(t)
    PROVE  IInv'
<1> DEFINE s == frame[t].slot
<1>1. TypeInv /\ TypeInv'
  BY OpenType DEF IInv
<1>2. PICK b \in BOOLEAN :
          /\ frame' = [frame EXCEPT ![t] = [frame[t] EXCEPT !.protected = b]]
          /\ b => prot' = [p \in Mapped |-> IF p \in PagesUnder(s)
                                            THEN frame[t].request \ {"C"} ELSE prot[p]]
          /\ ~b => UNCHANGED prot
  BY <1>1, ProtectFacts
<1>3. /\ pc[t] = "protect" /\ pc' = [pc EXCEPT ![t] = "open"]
      /\ UNCHANGED <<env, mem, window, before, asked, unrestored>>
  BY <1>1, ProtectFacts
<1> DEFINE fr == [frame[t] EXCEPT !.protected = b]
<1>4. /\ fr.slot = s /\ fr.request = frame[t].request
      /\ fr.first = frame[t].first /\ fr.last = frame[t].last /\ fr.protected = b
  BY <1>1, Typed DEF Frames
<1>5. /\ frame'[t] = fr /\ pc'[t] = "open"
      /\ \A u \in Threads \ {t} : pc'[u] = pc[u] /\ frame'[u] = frame[u]
  BY <1>1, <1>2, <1>3, StepAt
<1>6. FirstPage(s) \in Mapped /\ LastPage(s) \in Mapped /\ s \in Slots(t)
  BY <1>1, <1>3, InStore
<1> HIDE DEF fr
<1>7. WindowOf(t)' /\ WroteOf(t)' /\ BytesOf(t)'
  <2>1. WindowOf(t) /\ BytesOf(t)
    BY DEF IInv, StoreOf
  <2>2. WindowOf(t)' /\ WroteOf(t)'
    BY <1>3, <1>5, <2>1 DEF WindowOf, WroteOf
  <2>3. BytesOf(t)'
    BY <1>3, <1>4, <1>5, <2>1 DEF BytesOf
  <2> QED
    BY <2>2, <2>3
<1>8. PagesOf(t)'
  <2>1. PagesOf(t)
    BY DEF IInv, StoreOf
  <2>2. b => prot'[FirstPage(s)] = frame[t].request \ {"C"} /\ prot'[LastPage(s)] = frame[t].request \ {"C"}
    BY <1>2, <1>6 DEF PagesUnder
  <2> QED
    BY <1>3, <1>4, <1>5, <2>1, <2>2 DEF PagesOf, Writable, Right
<1>9. StoreOf(t)'
  BY <1>5, <1>7, <1>8 DEF StoreOf, FaultOf
<1>10. \A p \in Mapped \ PagesUnder(s) : prot'[p] = prot[p]
  BY <1>2
<1>11. ASSUME NEW p \in Mapped, p \in PagesUnder(s)
       PROVE  (prot'[p] = asked.prot[p] \/ p \in unrestored') \/ Dirty(t, p)'
  <2>1. b => Dirty(t, p)'
    BY <1>4, <1>5, <1>11 DEF Dirty, Writable
  <2>2. Right(p, prot[p])
    BY <1>3, <1>11, OwnPage DEF Dirty, Writable
  <2> QED
    BY <1>2, <1>3, <2>1, <2>2 DEF Right
<1> HIDE DEF s
<1> QED
  BY <1>1, <1>3, <1>5, <1>9, <1>10, <1>11, Progress DEF s

LEMMA OpenInv ==
    ASSUME KeptApart, IInv, NEW t \in Threads, OpenWindow(t)
    PROVE  IInv'
<1> DEFINE s == frame[t].slot
<1>1. TypeInv /\ TypeInv'
  BY OpenType DEF IInv
<1>2. PICK b \in BOOLEAN, d \in BOOLEAN, w \in BOOLEAN :
          /\ frame' = [frame EXCEPT ![t] = [frame[t] EXCEPT !.close = b, !.wrote = d]]
          /\ window' = [window EXCEPT ![t] = w]
          /\ pc' = [pc EXCEPT ![t] = IF d THEN "write" ELSE "close"]
          /\ b <=> (env.enforced /\ env.opens /\ ~window[t])
          /\ w <=> (window[t] \/ (env.enforced /\ env.opens))
          /\ d <=> (IF env.enforced THEN w ELSE frame[t].protected)
  BY <1>1, OpenFacts
<1>3. /\ pc[t] = "open" /\ UNCHANGED <<env, mem, prot, before, asked, unrestored>>
  BY <1>1, OpenFacts
<1> DEFINE fr == [frame[t] EXCEPT !.close = b, !.wrote = d]
           to == IF d THEN "write" ELSE "close"
<1>4. /\ fr.slot = s /\ fr.request = frame[t].request /\ fr.protected = frame[t].protected
      /\ fr.first = frame[t].first /\ fr.last = frame[t].last /\ fr.close = b /\ fr.wrote = d
  BY <1>1, Typed DEF Frames
<1>5. /\ frame'[t] = fr /\ pc'[t] = to
      /\ \A u \in Threads \ {t} : pc'[u] = pc[u] /\ frame'[u] = frame[u]
  <2>1. frame' = [frame EXCEPT ![t] = fr] /\ pc' = [pc EXCEPT ![t] = to]
    BY <1>2
  <2> HIDE DEF fr, to
  <2> QED
    BY <1>1, <2>1, StepAt
<1>6. window'[t] = w /\ \A u \in Threads \ {t} : window'[u] = window[u]
  BY <1>1, <1>2, KeptTypes
<1>7. to \in {"write", "close"} /\ (to = "write" <=> d)
  OBVIOUS
<1> HIDE DEF fr, to
<1>8. WindowOf(t)' /\ WroteOf(t)'
  <2>1. window[t] = asked.window[t] /\ window[t] \in BOOLEAN
    BY <1>1, <1>3, Typed DEF IInv, StoreOf, WindowOf
  <2>2. asked'.window[t] = asked.window[t] /\ env' = env
    BY <1>3
  <2>3. IF b THEN env.enforced /\ ~asked.window[t] ELSE w = asked.window[t]
    BY <1>1, <1>2, <2>1, Supports
  <2>4. d => IF env.enforced THEN w ELSE frame[t].protected
    BY <1>2
  <2> QED
    BY <1>4, <1>5, <1>6, <1>7, <2>2, <2>3, <2>4 DEF WindowOf, WroteOf
<1>9. BytesOf(t)'
  <2>1. BytesOf(t)
    BY DEF IInv, StoreOf
  <2> QED
    BY <1>3, <1>4, <1>5, <1>7, <2>1 DEF BytesOf
<1>10. PagesOf(t)'
  <2>1. PagesOf(t)
    BY DEF IInv, StoreOf
  <2> QED
    BY <1>3, <1>4, <1>5, <1>7, <2>1 DEF PagesOf, Writable, Right
<1>11. StoreOf(t)'
  BY <1>5, <1>7, <1>8, <1>9, <1>10 DEF StoreOf, FaultOf
<1>12. ASSUME NEW p \in Mapped, p \in PagesUnder(s)
       PROVE  (prot'[p] = asked.prot[p] \/ p \in unrestored') \/ Dirty(t, p)'
  <2>1. Right(p, prot[p]) \/ Dirty(t, p)
    BY <1>3, <1>12, OwnPage
  <2> QED
    BY <1>3, <1>4, <1>5, <1>7, <2>1 DEF Right, Dirty, Writable
<1> HIDE DEF s
<1> QED
  BY <1>1, <1>3, <1>5, <1>6, <1>11, <1>12, Progress DEF s

\* Where the memcpy faults, the vm_protect was refused and the page is not mapped
\* writable: pages that took the request have VM_PROT_WRITE, and in a process that
\* enforces TPRO the window is open.
LEMMA WriteIsRefused ==
    ASSUME IInv, NEW t \in Threads, pc[t] = "write", NEW p \in PagesUnder(frame[t].slot),
           ~CanWrite(t, p)
    PROVE  ~frame[t].protected /\ window[t] /\ "W" \notin prot[p]
<1>1. /\ WindowOf(t) /\ PagesOf(t) /\ TypeInv
  BY DEF IInv, StoreOf
<1>2. "W" \in frame[t].request \ {"C"}
  BY <1>1, InStore
<1>3. IF env.enforced THEN window[t] ELSE frame[t].protected
  BY <1>1 DEF WindowOf
<1>4. frame[t].protected => prot[p] = frame[t].request \ {"C"}
  BY <1>1 DEF PagesOf, Writable, PagesUnder
<1> QED
  BY <1>2, <1>3, <1>4 DEF CanWrite

LEMMA WriteInv ==
    ASSUME KeptApart, IInv, NEW t \in Threads, Write(t)
    PROVE  IInv'
<1> DEFINE s == frame[t].slot
<1>1. TypeInv /\ TypeInv'
  BY WriteType DEF IInv
<1>2. /\ pc[t] = "write" /\ UNCHANGED <<env, prot, window, frame, before, asked, unrestored>>
  BY DEF Write, history
<1>3. WindowOf(t) /\ PagesOf(t) /\ BytesOf(t) /\ frame[t].wrote
  BY <1>2 DEF IInv, StoreOf, WroteOf
<1>4. ASSUME NEW p \in Mapped, p \in PagesUnder(s) PROVE Right(p, prot[p]) \/ Dirty(t, p)
  BY <1>2, <1>4, OwnPage
<1>5. CASE \A p \in PagesUnder(s) : CanWrite(t, p)
  <2>1. /\ mem' = [a \in DOMAIN mem |-> IF a \in SlotBytes(s) THEN frame[t].value ELSE mem[a]]
        /\ pc' = [pc EXCEPT ![t] = "close"]
    BY <1>5 DEF Write, Goto
  <2>2. pc'[t] = "close" /\ \A u \in Threads \ {t} : pc'[u] = pc[u]
    BY <1>1, <1>2, <2>1 DEF TypeInv, TypeOK
  <2>3. WindowOf(t)' /\ WroteOf(t)' /\ FaultOf(t)'
    BY <1>2, <1>3, <2>2 DEF WindowOf, WroteOf, FaultOf
  <2>4. PagesOf(t)'
    BY <1>2, <1>3, <2>2 DEF PagesOf, Writable, Right
  <2>5. BytesOf(t)'
    <3>1. \A a \in SlotBytes(s) : a \in DOMAIN mem
      BY <1>1, <1>2, SlotMapped
    <3> QED
      BY <1>2, <1>3, <2>1, <2>2, <3>1 DEF BytesOf
  <2>6. StoreOf(t)'
    BY <2>3, <2>4, <2>5 DEF StoreOf
  <2>7. ASSUME NEW p \in Mapped, p \in PagesUnder(s)
        PROVE  (prot'[p] = asked.prot[p] \/ p \in unrestored') \/ Dirty(t, p)'
    BY <1>2, <1>4, <2>2, <2>7 DEF Right, Dirty, Writable
  <2>8. DOMAIN mem' = DOMAIN mem /\ \A a \in DOMAIN mem \ SlotBytes(s) : mem'[a] = mem[a]
    BY <2>1
  <2> HIDE DEF s
  <2> QED
    BY <1>1, <1>2, <2>2, <2>6, <2>7, <2>8, Progress DEF s
<1>6. CASE ~\A p \in PagesUnder(s) : CanWrite(t, p)
  <2>1. pc' = [pc EXCEPT ![t] = "faulted"] /\ UNCHANGED mem
    BY <1>6 DEF Write, Goto
  <2>2. pc'[t] = "faulted" /\ \A u \in Threads \ {t} : pc'[u] = pc[u]
    BY <1>1, <1>2, <2>1 DEF TypeInv, TypeOK
  <2>3. /\ ~frame[t].protected /\ window[t]
        /\ \E p \in PagesUnder(s) : "W" \notin prot[p]
    BY <1>2, <1>6, WriteIsRefused
  <2>4. WindowOf(t)' /\ WroteOf(t)' /\ FaultOf(t)'
    BY <1>2, <2>2, <2>3 DEF WindowOf, WroteOf, FaultOf
  <2>5. PagesOf(t)'
    BY <2>2 DEF PagesOf, Writable
  <2>6. BytesOf(t)'
    BY <1>2, <1>3, <2>1, <2>2 DEF BytesOf
  <2>7. StoreOf(t)'
    BY <2>4, <2>5, <2>6 DEF StoreOf
  <2>8. ASSUME NEW p \in Mapped, p \in PagesUnder(s)
        PROVE  (prot'[p] = asked.prot[p] \/ p \in unrestored') \/ Dirty(t, p)'
    BY <1>2, <1>4, <2>3, <2>8 DEF Right, Dirty
  <2> HIDE DEF s
  <2> QED
    BY <1>1, <1>2, <2>1, <2>2, <2>7, <2>8, Progress DEF s
<1> QED
  BY <1>5, <1>6

\* restoreReadOnly gives the window back; the pages follow, if they were changed.
LEMMA CloseInv ==
    ASSUME KeptApart, IInv, NEW t \in Threads, CloseWindow(t)
    PROVE  IInv'
<1> DEFINE s == frame[t].slot
<1>1. TypeInv /\ TypeInv'
  BY CloseType DEF IInv
<1>2. /\ pc[t] = "close" /\ UNCHANGED <<env, mem, prot, before, asked, unrestored>>
  BY <1>1, CloseFacts
<1>3. PICK w \in BOOLEAN :
          /\ window' = [window EXCEPT ![t] = w]
          /\ w <=> (window[t] /\ ~(frame[t].close /\ env.enforced))
  BY <1>1, CloseFacts
<1>4. window'[t] = asked.window[t] /\ \A u \in Threads \ {t} : window'[u] = window[u]
  <2>1. window'[t] = w /\ \A u \in Threads \ {t} : window'[u] = window[u]
    BY <1>1, <1>3, KeptTypes
  <2>2. IF frame[t].close THEN env.enforced /\ ~asked.window[t] ELSE window[t] = asked.window[t]
    BY <1>2 DEF IInv, StoreOf, WindowOf
  <2>3. asked.window[t] \in BOOLEAN /\ window[t] \in BOOLEAN
    BY <1>1 DEF TypeInv, TypeOK
  <2> QED
    BY <1>3, <2>1, <2>2, <2>3
<1>5. ASSUME NEW p \in Mapped, p \in PagesUnder(s) PROVE Right(p, prot[p]) \/ Dirty(t, p)
  BY <1>2, <1>5, OwnPage
<1>6. CASE frame[t].protected /\ pc' = [pc EXCEPT ![t] = "restoreFirst"] /\ UNCHANGED frame
  <2>1. pc'[t] = "restoreFirst" /\ \A u \in Threads \ {t} : pc'[u] = pc[u]
    BY <1>1, <1>6 DEF TypeInv, TypeOK
  <2>2. WindowOf(t)' /\ WroteOf(t)'
    BY <1>2, <1>4, <2>1 DEF WindowOf, WroteOf
  <2>3. PagesOf(t)'
    <3>1. PagesOf(t)
      BY DEF IInv, StoreOf
    <3> QED
      BY <1>2, <1>6, <2>1, <3>1 DEF PagesOf, Writable, Right
  <2>4. BytesOf(t)'
    <3>1. BytesOf(t)
      BY DEF IInv, StoreOf
    <3> QED
      BY <1>2, <1>6, <2>1, <3>1 DEF BytesOf
  <2>5. StoreOf(t)'
    BY <2>1, <2>2, <2>3, <2>4 DEF StoreOf, FaultOf
  <2>6. ASSUME NEW p \in Mapped, p \in PagesUnder(s)
        PROVE  (prot'[p] = asked.prot[p] \/ p \in unrestored') \/ Dirty(t, p)'
    BY <1>6, <2>1, <2>6 DEF Dirty, Writable
  <2> HIDE DEF s
  <2> QED
    BY <1>1, <1>2, <1>4, <1>6, <2>1, <2>5, <2>6, Progress DEF s
<1>7. CASE ~frame[t].protected /\ Return(t, "close", frame[t].wrote)
  <2>1. ASSUME NEW p \in Mapped, p \in PagesUnder(s)
        PROVE  prot'[p] = asked.prot[p] \/ p \in unrestored'
    BY <1>2, <1>5, <1>7, <2>1 DEF Dirty, Right
  <2> HIDE DEF s
  <2> QED
    BY <1>1, <1>2, <1>4, <1>7, <2>1, ReturnInv DEF s
<1> QED
  BY <1>1, <1>6, <1>7, CloseFacts

\* What is known where the pages are put back.
LEMMA Restoring ==
    ASSUME IInv, NEW t \in Threads, pc[t] \in {"restoreFirst", "restoreLast"}
    PROVE  LET s == frame[t].slot
           IN  /\ FirstPage(s) \in Mapped /\ FirstPage(s) % PageSize = 0
               /\ LastPage(s) \in Mapped /\ LastPage(s) % PageSize = 0
               /\ frame[t].first \in SUBSET Rights /\ frame[t].last \in SUBSET Rights
               /\ Right(FirstPage(s), frame[t].first) /\ Right(LastPage(s), frame[t].last)
               /\ FirstPage(s) = LastPage(s) => frame[t].last = frame[t].first
               /\ window[t] = asked.window[t] /\ frame[t].protected
               /\ pc[t] = "restoreLast" =>
                     /\ FirstPage(s) # LastPage(s)
                     /\ IF frame[t].restored THEN prot[FirstPage(s)] = frame[t].first
                                             ELSE FirstPage(s) \in unrestored
               /\ \A a \in SlotBytes(s) :
                     IF frame[t].wrote THEN mem[a] = frame[t].value
                                       ELSE a \in DOMAIN mem => mem[a] = before[t][a]
<1>1. TypeInv /\ WindowOf(t) /\ PagesOf(t) /\ BytesOf(t)
  BY DEF IInv, StoreOf
<1>2. frame[t].slot \in Addresses /\ Fits(frame[t].slot)
  BY <1>1, InStore, Typed
<1>3. FirstPage(frame[t].slot) % PageSize = 0 /\ LastPage(frame[t].slot) % PageSize = 0
  BY <1>2, SlotPages
<1>4. window[t] = asked.window[t]
  BY <1>1 DEF WindowOf
<1>5. \A a \in SlotBytes(frame[t].slot) :
          IF frame[t].wrote THEN mem[a] = frame[t].value
                            ELSE a \in DOMAIN mem => mem[a] = before[t][a]
  BY <1>1 DEF BytesOf
<1>6. /\ FirstPage(frame[t].slot) \in Mapped /\ LastPage(frame[t].slot) \in Mapped
      /\ frame[t].first \in SUBSET Rights /\ frame[t].last \in SUBSET Rights
  BY <1>1, InStore, Typed
<1> QED
  BY <1>1, <1>3, <1>4, <1>5, <1>6 DEF PagesOf, Writable

LEMMA RestoreFirstInv ==
    ASSUME KeptApart, IInv, NEW t \in Threads, RestoreFirst(t)
    PROVE  IInv'
<1> DEFINE s == frame[t].slot
<1>1. TypeInv /\ TypeInv'
  BY RestoreType DEF IInv
<1>2. PICK ok \in BOOLEAN :
          /\ RestorePage(FirstPage(s), frame[t].first, ok)
          /\ \/ /\ FirstPage(s) # LastPage(s) /\ pc' = [pc EXCEPT ![t] = "restoreLast"]
                /\ frame' = [frame EXCEPT ![t] = [frame[t] EXCEPT !.restored = ok]]
             \/ /\ FirstPage(s) = LastPage(s)
                /\ Return(t, "restoreFirst", frame[t].wrote /\ ok)
  BY Zenon DEF RestoreFirst, Goto, SpansPages
<1>3. pc[t] = "restoreFirst" /\ UNCHANGED <<env, mem, window, before, asked>>
  BY DEF RestoreFirst, Return, Goto
<1>4. /\ FirstPage(s) \in Mapped /\ LastPage(s) \in Mapped
      /\ Right(FirstPage(s), frame[t].first) /\ Right(LastPage(s), frame[t].last)
      /\ window[t] = asked.window[t]
  BY <1>3, Restoring
<1>5. /\ ok => prot' = [prot EXCEPT ![FirstPage(s)] = frame[t].first] /\ UNCHANGED unrestored
      /\ ~ok => unrestored' = unrestored \union {FirstPage(s)} /\ UNCHANGED prot
  <2>1. FirstPage(s) \in Mapped /\ FirstPage(s) % PageSize = 0 /\ frame[t].first \in SUBSET Rights
    BY <1>3, Restoring
  <2> HIDE DEF s
  <2> QED
    <3>1. RestorePage(FirstPage(s), frame[t].first, ok)
      BY <1>2
    <3> QED
      BY <1>1, <2>1, <3>1, RestoreFacts
<1>6. /\ \A p \in Mapped \ {FirstPage(s)} :
            prot'[p] = prot[p] /\ (p \in unrestored' <=> p \in unrestored)
      /\ IF ok THEN prot'[FirstPage(s)] = frame[t].first ELSE FirstPage(s) \in unrestored'
      /\ unrestored \subseteq unrestored'
  BY <1>1, <1>4, <1>5, KeptTypes
<1>7. /\ \A p \in Mapped \ PagesUnder(s) :
            prot'[p] = prot[p] /\ (p \in unrestored' <=> p \in unrestored)
      /\ prot'[FirstPage(s)] = asked.prot[FirstPage(s)] \/ FirstPage(s) \in unrestored'
  BY <1>4, <1>6 DEF PagesUnder, Right
<1>8. CASE FirstPage(s) = LastPage(s) /\ Return(t, "restoreFirst", frame[t].wrote /\ ok)
  <2>1. \A p \in PagesUnder(s) : prot'[p] = asked.prot[p] \/ p \in unrestored'
    BY <1>7, <1>8 DEF PagesUnder
  <2> HIDE DEF s
  <2> QED
    BY <1>1, <1>3, <1>4, <1>7, <1>8, <2>1, ReturnInv DEF s
<1>9. CASE /\ FirstPage(s) # LastPage(s) /\ pc' = [pc EXCEPT ![t] = "restoreLast"]
           /\ frame' = [frame EXCEPT ![t] = [frame[t] EXCEPT !.restored = ok]]
  <2> DEFINE fr == [frame[t] EXCEPT !.restored = ok]
  <2>1. /\ fr.slot = s /\ fr.first = frame[t].first /\ fr.last = frame[t].last
        /\ fr.restored = ok /\ fr.protected = frame[t].protected
        /\ fr.wrote = frame[t].wrote /\ fr.value = frame[t].value
    BY <1>1, Typed DEF Frames
  <2>2. /\ frame'[t] = fr /\ pc'[t] = "restoreLast"
        /\ \A u \in Threads \ {t} : pc'[u] = pc[u] /\ frame'[u] = frame[u]
    BY <1>1, <1>9, StepAt
  <2> HIDE DEF fr
  <2>3. WindowOf(t)' /\ WroteOf(t)'
    BY <1>3, <1>4, <2>2 DEF WindowOf, WroteOf
  <2>4. BytesOf(t)'
    <3>1. \A a \in SlotBytes(s) :
              IF frame[t].wrote THEN mem[a] = frame[t].value
                                ELSE a \in DOMAIN mem => mem[a] = before[t][a]
      BY <1>3, Restoring
    <3> QED
      BY <1>3, <2>1, <2>2, <3>1 DEF BytesOf
  <2>5. PagesOf(t)'
    <3>1. frame[t].protected
      BY <1>3, Restoring
    <3>2. Right(FirstPage(s), frame[t].first)' /\ Right(LastPage(s), frame[t].last)'
      BY <1>3, <1>4, <1>6, <2>1, <2>2 DEF Right
    <3> QED
      BY <1>4, <1>6, <1>9, <2>1, <2>2, <3>1, <3>2 DEF PagesOf, Writable
  <2>6. StoreOf(t)'
    BY <2>2, <2>3, <2>4, <2>5 DEF StoreOf, FaultOf
  <2>7. ASSUME NEW p \in Mapped, p \in PagesUnder(s)
        PROVE  (prot'[p] = asked.prot[p] \/ p \in unrestored') \/ Dirty(t, p)'
    BY <1>7, <2>1, <2>2, <2>7 DEF Dirty, PagesUnder
  <2> HIDE DEF s
  <2> QED
    BY <1>1, <1>3, <1>7, <2>2, <2>6, <2>7, Progress DEF s
<1> QED
  BY <1>2, <1>8, <1>9

LEMMA RestoreLastInv ==
    ASSUME KeptApart, IInv, NEW t \in Threads, RestoreLast(t)
    PROVE  IInv'
<1> DEFINE s == frame[t].slot
<1>1. TypeInv /\ TypeInv'
  BY RestoreType DEF IInv
<1>2. PICK ok \in BOOLEAN :
          /\ RestorePage(LastPage(s), frame[t].last, ok)
          /\ Return(t, "restoreLast", frame[t].wrote /\ frame[t].restored /\ ok)
  BY DEF RestoreLast
<1>3. pc[t] = "restoreLast" /\ UNCHANGED <<env, mem, window, before, asked>>
  BY DEF RestoreLast, Return, Goto
<1>4. /\ FirstPage(s) \in Mapped /\ LastPage(s) \in Mapped
      /\ Right(FirstPage(s), frame[t].first) /\ Right(LastPage(s), frame[t].last)
      /\ FirstPage(s) # LastPage(s) /\ window[t] = asked.window[t]
      /\ IF frame[t].restored THEN prot[FirstPage(s)] = frame[t].first
                              ELSE FirstPage(s) \in unrestored
  BY <1>3, Restoring
<1>5. /\ ok => prot' = [prot EXCEPT ![LastPage(s)] = frame[t].last] /\ UNCHANGED unrestored
      /\ ~ok => unrestored' = unrestored \union {LastPage(s)} /\ UNCHANGED prot
  <2>1. LastPage(s) \in Mapped /\ LastPage(s) % PageSize = 0 /\ frame[t].last \in SUBSET Rights
    BY <1>3, Restoring
  <2> HIDE DEF s
  <2> QED
    <3>1. RestorePage(LastPage(s), frame[t].last, ok)
      BY <1>2
    <3> QED
      BY <1>1, <2>1, <3>1, RestoreFacts
<1>6. /\ \A p \in Mapped \ {LastPage(s)} :
            prot'[p] = prot[p] /\ (p \in unrestored' <=> p \in unrestored)
      /\ IF ok THEN prot'[LastPage(s)] = frame[t].last ELSE LastPage(s) \in unrestored'
      /\ unrestored \subseteq unrestored'
  BY <1>1, <1>4, <1>5, KeptTypes
<1>7. /\ \A p \in Mapped \ PagesUnder(s) :
            prot'[p] = prot[p] /\ (p \in unrestored' <=> p \in unrestored)
      /\ \A p \in PagesUnder(s) : prot'[p] = asked.prot[p] \/ p \in unrestored'
  BY <1>4, <1>6 DEF PagesUnder, Right
<1> HIDE DEF s
<1> QED
  BY <1>1, <1>2, <1>3, <1>4, <1>7, ReturnInv DEF s

-----------------------------------------------------------------------------
(* The callers.                                                            *)

\* A step of a thread that is in no store, after which its own store is in order.
LEMMA CallerInv ==
    ASSUME KeptApart, IInv, TypeInv', NEW t \in Threads, pc[t] = "idle", StoreOf(t)',
           UNCHANGED <<env, mem, prot, unrestored>>,
           asked'.prot = asked.prot,
           \A u \in Threads \ {t} :
               /\ pc'[u] = pc[u] /\ frame'[u] = frame[u] /\ window'[u] = window[u]
               /\ before'[u] = before[u] /\ asked'.window[u] = asked.window[u]
    PROVE  IInv'
<1>1. ASSUME NEW u \in Threads \ {t} PROVE StoreOf(u)'
  BY Others DEF IInv
<1>2. PagesOK'
  <2>1. ASSUME NEW p \in Mapped, NEW u \in Threads, Dirty(u, p) PROVE Dirty(u, p)'
    BY <2>1 DEF Dirty, Writable
  <2>2. \A p \in Mapped : Right(p, prot[p]) \/ \E u \in Threads : Dirty(u, p)
    BY DEF IInv, PagesOK, Dirty
  <2> QED
    BY <2>1, <2>2 DEF PagesOK, Dirty, Right
<1> QED
  BY <1>1, <1>2 DEF IInv

LEMMA CallInv ==
    ASSUME KeptApart, IInv, NEW t \in Threads, NEW c \in Stores[t],
           RejectStore(t, c) \/ CallStore(t, c)
    PROVE  IInv'
<1>1. TypeInv /\ TypeInv'
  BY CallType DEF IInv
<1>2. /\ pc[t] = "idle" /\ UNCHANGED <<env, mem, prot, window, asked, unrestored>>
      /\ before' = [before EXCEPT ![t] = mem]
  BY DEF RejectStore, CallStore, Called, Return, Goto, machine
<1>3. /\ pc'[t] \in {"idle", "readFirst"} /\ before'[t] = mem
      /\ \A u \in Threads \ {t} :
            pc'[u] = pc[u] /\ frame'[u] = frame[u] /\ before'[u] = before[u]
  BY <1>1, <1>2 DEF RejectStore, CallStore, Return, Goto, TypeInv, TypeOK
<1>4. window[t] = asked.window[t]
  BY <1>2 DEF IInv, StoreOf, WindowOf
<1>5. StoreOf(t)'
  <2>1. WindowOf(t)' /\ WroteOf(t)' /\ BytesOf(t)'
    BY <1>2, <1>3, <1>4 DEF WindowOf, WroteOf, BytesOf
  <2>2. PagesOf(t)'
    BY <1>3 DEF PagesOf, Writable
  <2> QED
    BY <1>3, <2>1, <2>2 DEF StoreOf, FaultOf
<1> QED
  BY <1>1, <1>2, <1>3, <1>5, CallerInv

LEMMA WindowInv ==
    ASSUME KeptApart, IInv, NEW t \in Threads, BeginThreadTPROWrite(t) \/ EndThreadTPROWrite(t)
    PROVE  IInv'
<1>1. TypeInv /\ TypeInv'
  BY CallersType DEF IInv
<1>2. pc[t] = "idle" /\ UNCHANGED <<env, mem, prot, pc, frame, before, unrestored>>
  BY <1>1, SetWindowFacts
<1>3. PICK w \in BOOLEAN : /\ window' = [window EXCEPT ![t] = w]
                           /\ asked' = [asked EXCEPT !.window[t] = w]
  BY <1>1, SetWindowFacts
<1>4. /\ asked'.prot = asked.prot /\ window'[t] = w /\ asked'.window[t] = w
      /\ \A u \in Threads \ {t} : window'[u] = window[u] /\ asked'.window[u] = asked.window[u]
  <2>1. asked \in [prot : [Mapped -> SUBSET Rights], window : [Threads -> BOOLEAN]]
    BY <1>1 DEF TypeInv, TypeOK
  <2>2. /\ asked'.prot = asked.prot /\ asked'.window[t] = w
        /\ \A u \in Threads \ {t} : asked'.window[u] = asked.window[u]
    BY <1>3, <2>1
  <2> QED
    BY <1>1, <1>3, <2>2, KeptTypes
<1>5. StoreOf(t)'
  BY <1>2, <1>4 DEF StoreOf, WindowOf, WroteOf, BytesOf, PagesOf, FaultOf, Writable
<1> QED
  BY <1>1, <1>2, <1>4, <1>5, CallerInv

\* A caller sets the protection of its own pages, which no store is changing.
LEMMA ProtectMemoryInv ==
    ASSUME KeptApart, IInv, NEW t \in Threads, NEW c \in Protects[t], ProtectMemory(t, c)
    PROVE  IInv'
<1> DEFINE P == PagesIn(c.address, c.size)
<1>1. TypeInv /\ TypeInv'
  BY CallersType DEF IInv
<1>2. /\ pc[t] = "idle" /\ UNCHANGED <<env, mem, window, pc, frame, before>>
      /\ asked'.window = asked.window
      /\ unrestored' = unrestored \ P
      /\ \A p \in Mapped : p \in P => asked'.prot[p] = prot'[p]
      /\ \A p \in Mapped : p \notin P => asked'.prot[p] = asked.prot[p] /\ prot'[p] = prot[p]
  BY <1>1, ProtectMemoryFacts
<1>3. ASSUME NEW u \in Threads PROVE StoreOf(u)'
  <2>1. StoreOf(u)
    BY DEF IInv
  <2>2. pc[u] # "idle" => PagesUnder(frame[u].slot) \intersect P = {}
    BY <1>1, <1>2, InStore DEF KeptApart, Own
  <2> HIDE DEF P
  <2> QED
    BY <1>1, <1>2, <2>1, <2>2, Others
<1>4. PagesOK'
  <2> SUFFICES ASSUME NEW p \in Mapped
               PROVE  \/ prot'[p] = asked'.prot[p] \/ p \in unrestored'
                      \/ \E u \in Threads : Dirty(u, p)'
    BY DEF PagesOK, Dirty, Right
  <2>1. Right(p, prot[p]) \/ \E u \in Threads : Dirty(u, p)
    BY DEF IInv, PagesOK, Dirty
  <2>2. ASSUME NEW u \in Threads, Dirty(u, p) PROVE Dirty(u, p)'
    BY <1>2, <2>2 DEF Dirty, Writable
  <2> HIDE DEF P
  <2> QED
    BY <1>2, <2>1, <2>2 DEF Right
<1> QED
  BY <1>1, <1>3, <1>4 DEF IInv

LEMMA NextIInv == ASSUME KeptApart PROVE IInv /\ [Next]_vars => IInv'
<1> SUFFICES ASSUME IInv, [Next]_vars PROVE IInv'
  OBVIOUS
<1>1. CASE UNCHANGED vars
  <2>1. UNCHANGED <<env, mem, prot, window, pc, frame, before, asked, unrestored>> /\ TypeInv'
    BY <1>1, NextType DEF vars, IInv
  <2>2. \A t \in Threads : StoreOf(t)'
    BY <2>1, Others DEF IInv
  <2>3. PagesOK'
    BY <2>1 DEF IInv, PagesOK, Right
  <2> QED
    BY <2>1, <2>2, <2>3 DEF IInv
<1>2. ASSUME NEW t \in Threads, StoreStep(t) PROVE IInv'
  BY <1>2, ReadQueryInv, ProtectInv, OpenInv, WriteInv, CloseInv, RestoreFirstInv, RestoreLastInv
     DEF StoreStep
<1> QED
  BY <1>1, <1>2, CallInv, WindowInv, ProtectMemoryInv DEF Next

LEMMA Invariance == ASSUME KeptApart PROVE Spec => []IInv
BY InitIInv, NextIInv, PTL DEF Spec

-----------------------------------------------------------------------------

\* A store of stores that keep apart faults in one case only: the kernel refused
\* its vm_protect, a page under it is not mapped writable, and the process uses
\* TPRO, so that RorkHookProtectedPointerWriteIsAvailable took the open window for
\* permission.  What it finds out otherwise still holds when the memcpy runs.
THEOREM FaultsAreRefusals == ASSUME KeptApart PROVE Spec => []FaultsOnlyWhenRefused
<1>1. IInv => FaultsOnlyWhenRefused
  BY DEF IInv, StoreOf, FaultOf, FaultsOnlyWhenRefused
<1> QED
  BY <1>1, Invariance, PTL

\* Stores that keep apart leave every page that no store is working on as its
\* owner protected it, or on record as refused, and every idle thread's TPRO
\* window as the thread left it.
THEOREM StoresAreBalanced == ASSUME KeptApart PROVE Spec => []Balanced
<1>1. IInv => Balanced
  <2> SUFFICES ASSUME IInv PROVE Balanced
    OBVIOUS
  <2>1. ASSUME NEW p \in Mapped PROVE InUse(p) \/ p \in unrestored \/ prot[p] = asked.prot[p]
    <3>1. ASSUME NEW t \in Threads, Dirty(t, p) PROVE InUse(p)
      BY <3>1 DEF Dirty, Writable, InUse, PagesUnder
    <3>2. Right(p, prot[p]) \/ \E t \in Threads : Dirty(t, p)
      BY DEF IInv, PagesOK, Dirty
    <3> QED
      BY <3>1, <3>2 DEF Right
  <2>2. \A t \in Threads : pc[t] = "idle" => window[t] = asked.window[t]
    BY DEF IInv, StoreOf, WindowOf
  <2> QED
    BY <2>1, <2>2 DEF Balanced
<1> QED
  BY <1>1, Invariance, PTL

\* Only the last steps of a store end it, and each returns what it did.
LEMMA ReadResult ==
    ASSUME IInv, NEW t \in Threads, ReadFirst(t) \/ ReadLast(t), pc'[t] = "idle"
    PROVE  ResultHolds(t)
<1>1. UNCHANGED mem /\ pc[t] \in {"readFirst", "readLast"}
  BY DEF ReadFirst, ReadLast, CheckReadable, Return, Goto, machine
<1>2. result'[t] = FALSE
  <2>1. TypeInv
    BY DEF IInv
  <2>2. CASE \E from \in {"readFirst", "readLast"} : Return(t, from, FALSE)
    BY <2>1, <2>2, ReturnFacts
  <2>3. CASE \E to \in {"readLast", "queryFirst"} : pc' = [pc EXCEPT ![t] = to]
    BY <2>1, <2>3 DEF TypeInv, TypeOK
  <2> QED
    BY <2>2, <2>3 DEF ReadFirst, ReadLast, CheckReadable, Goto
<1>3. \A a \in SlotBytes(frame[t].slot) : a \in DOMAIN mem => mem[a] = before[t][a]
  BY <1>1 DEF IInv, StoreOf, BytesOf
<1> QED
  BY <1>1, <1>2, <1>3 DEF ResultHolds

LEMMA CloseResult ==
    ASSUME IInv, NEW t \in Threads, CloseWindow(t), pc'[t] = "idle"
    PROVE  ResultHolds(t)
<1>1. TypeInv /\ UNCHANGED mem /\ pc[t] = "close"
  BY CloseFacts DEF IInv
<1>2. ~frame[t].protected /\ result'[t] = frame[t].wrote
  <2>1. CASE pc' = [pc EXCEPT ![t] = "restoreFirst"]
    BY <1>1, <2>1 DEF TypeInv, TypeOK
  <2>2. CASE ~frame[t].protected /\ Return(t, "close", frame[t].wrote)
    BY <1>1, <2>2, ReturnFacts
  <2> QED
    BY <1>1, <2>1, <2>2, CloseFacts
<1>3. \A a \in SlotBytes(frame[t].slot) :
          IF frame[t].wrote THEN mem[a] = frame[t].value
                            ELSE a \in DOMAIN mem => mem[a] = before[t][a]
  BY <1>1 DEF IInv, StoreOf, BytesOf
<1> QED
  BY <1>1, <1>2, <1>3 DEF ResultHolds

LEMMA RestoreFirstResult ==
    ASSUME IInv, NEW t \in Threads, RestoreFirst(t), pc'[t] = "idle"
    PROVE  ResultHolds(t)
<1> DEFINE s == frame[t].slot
<1>1. TypeInv /\ UNCHANGED mem /\ pc[t] = "restoreFirst"
  BY DEF IInv, RestoreFirst, Return, Goto
<1>2. PICK ok \in BOOLEAN :
          /\ RestorePage(FirstPage(s), frame[t].first, ok)
          /\ \/ pc' = [pc EXCEPT ![t] = "restoreLast"]
             \/ /\ FirstPage(s) = LastPage(s)
                /\ Return(t, "restoreFirst", frame[t].wrote /\ ok)
  BY Zenon DEF RestoreFirst, Goto, SpansPages
<1>3. FirstPage(s) = LastPage(s) /\ result'[t] = (frame[t].wrote /\ ok)
  <2>1. CASE pc' = [pc EXCEPT ![t] = "restoreLast"]
    BY <1>1, <2>1 DEF TypeInv, TypeOK
  <2>2. CASE /\ FirstPage(s) = LastPage(s)
             /\ Return(t, "restoreFirst", frame[t].wrote /\ ok)
    BY <1>1, <2>2, ReturnFacts
  <2> QED
    BY <1>2, <2>1, <2>2
<1>4. /\ FirstPage(s) \in Mapped /\ FirstPage(s) % PageSize = 0
      /\ frame[t].first \in SUBSET Rights
      /\ FirstPage(s) = LastPage(s) => frame[t].last = frame[t].first
      /\ \A a \in SlotBytes(s) :
            IF frame[t].wrote THEN mem[a] = frame[t].value
                              ELSE a \in DOMAIN mem => mem[a] = before[t][a]
  BY <1>1, Restoring
<1>5. IF ok THEN prot'[FirstPage(s)] = frame[t].first ELSE FirstPage(s) \in unrestored'
  <2>0. FirstPage(s) \in Mapped /\ FirstPage(s) % PageSize = 0 /\ frame[t].first \in SUBSET Rights
    BY <1>4
  <2> HIDE DEF s
  <2>1. /\ ok => prot' = [prot EXCEPT ![FirstPage(s)] = frame[t].first] /\ UNCHANGED unrestored
        /\ ~ok => unrestored' = unrestored \union {FirstPage(s)} /\ UNCHANGED prot
    <3>1. RestorePage(FirstPage(s), frame[t].first, ok)
      BY <1>2
    <3> QED
      BY <1>1, <2>0, <3>1, RestoreFacts
  <2> QED
    BY <1>1, <1>4, <2>1, KeptTypes
<1> QED
  BY <1>1, <1>3, <1>4, <1>5 DEF ResultHolds, PagesUnder

LEMMA RestoreLastResult ==
    ASSUME IInv, NEW t \in Threads, RestoreLast(t)
    PROVE  ResultHolds(t)
<1> DEFINE s == frame[t].slot
<1>1. TypeInv /\ UNCHANGED mem /\ pc[t] = "restoreLast"
  BY DEF IInv, RestoreLast, Return, Goto
<1>2. PICK ok \in BOOLEAN :
          /\ RestorePage(LastPage(s), frame[t].last, ok)
          /\ Return(t, "restoreLast", frame[t].wrote /\ frame[t].restored /\ ok)
  BY DEF RestoreLast
<1>3. result'[t] = (frame[t].wrote /\ frame[t].restored /\ ok)
  BY <1>1, <1>2, ReturnFacts
<1>4. /\ LastPage(s) \in Mapped /\ LastPage(s) % PageSize = 0
      /\ FirstPage(s) \in Mapped /\ FirstPage(s) # LastPage(s)
      /\ frame[t].last \in SUBSET Rights
      /\ IF frame[t].restored THEN prot[FirstPage(s)] = frame[t].first
                              ELSE FirstPage(s) \in unrestored
      /\ \A a \in SlotBytes(s) :
            IF frame[t].wrote THEN mem[a] = frame[t].value
                              ELSE a \in DOMAIN mem => mem[a] = before[t][a]
  BY <1>1, Restoring
<1>5. /\ IF ok THEN prot'[LastPage(s)] = frame[t].last ELSE LastPage(s) \in unrestored'
      /\ prot'[FirstPage(s)] = prot[FirstPage(s)] /\ unrestored \subseteq unrestored'
  <2> HIDE DEF s
  <2>1. /\ ok => prot' = [prot EXCEPT ![LastPage(s)] = frame[t].last] /\ UNCHANGED unrestored
        /\ ~ok => unrestored' = unrestored \union {LastPage(s)} /\ UNCHANGED prot
    <3>1. RestorePage(LastPage(s), frame[t].last, ok)
      BY <1>2
    <3>2. LastPage(s) \in Mapped /\ LastPage(s) % PageSize = 0 /\ frame[t].last \in SUBSET Rights
      BY <1>4
    <3> QED
      BY <1>1, <3>1, <3>2, RestoreFacts
  <2> QED
    BY <1>1, <1>4, <2>1, KeptTypes
<1> QED
  BY <1>1, <1>3, <1>4, <1>5 DEF ResultHolds, PagesUnder

LEMMA StepResult ==
    ASSUME IInv, Next, NEW t \in Threads, pc[t] # "idle", pc'[t] = "idle"
    PROVE  ResultHolds(t)
<1>1. TypeInv
  BY DEF IInv
<1>2. PICK u \in Threads :
          \/ \E c \in Stores[u] : RejectStore(u, c) \/ CallStore(u, c)
          \/ StoreStep(u)
          \/ \E c \in Protects[u] : ProtectMemory(u, c)
          \/ BeginThreadTPROWrite(u) \/ EndThreadTPROWrite(u)
  BY DEF Next
<1>3. CASE \E c \in Stores[u] : RejectStore(u, c) \/ CallStore(u, c)
  BY <1>1, <1>3 DEF RejectStore, CallStore, Return, Goto, TypeInv, TypeOK
<1>4. CASE \/ \E c \in Protects[u] : ProtectMemory(u, c)
           \/ BeginThreadTPROWrite(u) \/ EndThreadTPROWrite(u)
  BY <1>4 DEF ProtectMemory, BeginThreadTPROWrite, EndThreadTPROWrite, SetWindow
<1>5. CASE StoreStep(u)
  <2>1. PICK to \in Steps : pc' = [pc EXCEPT ![u] = to]
    BY <1>5 DEF StoreStep, ReadFirst, ReadLast, CheckReadable, QueryFirst, QueryLast, ProtectPages,
                OpenWindow, Write, CloseWindow, RestoreFirst, RestoreLast, Return, Goto, Steps
  <2>2. u = t
    BY <1>1, <2>1 DEF TypeInv, TypeOK
  <2>3. CASE QueryFirst(t) \/ QueryLast(t) \/ ProtectPages(t) \/ OpenWindow(t) \/ Write(t)
    <3>1. PICK next \in Steps \ {"idle"} : pc' = [pc EXCEPT ![t] = next]
      BY <2>3 DEF QueryFirst, QueryLast, ProtectPages, OpenWindow, Write, Goto, Steps
    <3> QED
      BY <1>1, <3>1 DEF TypeInv, TypeOK
  <2> QED
    BY <1>5, <2>2, <2>3, ReadResult, CloseResult, RestoreFirstResult, RestoreLastResult
       DEF StoreStep
<1> QED
  BY <1>2, <1>3, <1>4, <1>5

\* What RorkHookStoreProtectedPointer returns is what it did, for stores that
\* keep apart: true means the slot holds the value and the pages are as the call
\* found them, false that the slot is untouched or a restoration was refused.
THEOREM ResultsAreTruthful == ASSUME KeptApart PROVE Spec => Truthful
<1>1. IInv /\ [Next]_vars =>
          [\A t \in Threads : (pc[t] # "idle" /\ pc'[t] = "idle") => ResultHolds(t)]_vars
  BY StepResult
<1> QED
  BY <1>1, Invariance, PTL DEF Spec, Truthful
=============================================================================
