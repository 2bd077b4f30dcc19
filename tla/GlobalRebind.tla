---------------------------- MODULE GlobalRebind ----------------------------
(***************************************************************************)
(* Symbol rebinding: RorkHookRebindSymbolInImage and the process-wide      *)
(* registry behind RorkHookRebindSymbolGlobally (RorkHookRebind.c).        *)
(*                                                                         *)
(* Several threads register rebinds while dyld loads images.  A            *)
(* registration publishes an immutable entry on a lock-free list, makes    *)
(* sure that one add-image callback is registered with dyld, and then      *)
(* enumerates the loaded images itself; the callback applies every listed  *)
(* entry to every image that dyld hands it.  A scan of an image reads each *)
(* symbol pointer and, if it resolves to the replacee, stores the          *)
(* replacement: the read and the store are two steps.                      *)
(*                                                                         *)
(* Atomics are sequentially consistent here.  The code publishes with      *)
(* release and the callback reads with acquire; count and callback of dyld *)
(* synchronise through dyld's own lock.                                    *)
(***************************************************************************)
EXTENDS Integers, Sequences, SequencesExt

CONSTANTS
    Globals,      \* calls of RorkHookRebindSymbolGlobally, one thread each
    Locals,       \* calls of RorkHookRebindSymbolInImage, one thread each
    Images,       \* Mach-O images the process may load
    Addresses,    \* code addresses
    Null,         \* the address of a NULL pointer
    None,         \* no image, no call, a free lock
    Dyld,         \* the thread that loads images
    Unsigned,     \* the signature of a raw pointer
    Foreign,      \* a signature of some other pointer-authentication schema
    PtrAuth,      \* __has_feature(ptrauth_calls)
    Replacee,     \* call -> the pointer to look for
    Replacement,  \* call -> the pointer to install
    Accepts,      \* global call -> the images its filter accepts
    Target,       \* local call -> the image it rebinds
    DefinedIn,    \* address -> the image dladdr reports, or None
    Layout,       \* image -> its symbol-pointer cells in load-command order
    WellFormed,   \* the images whose load-command table passes validation
    Initial,      \* the images loaded when the model starts, in dyld's order
    Unloadable    \* the images that dlclose may unload

Calls  == Globals \union Locals
Actors == Calls \union {Dyld}

(***************************************************************************)
(* A cell is one pointer-sized word of one section of one image.  Its      *)
(* section is scanned when its type is lazy or non-lazy symbol pointers    *)
(* and getsectiondata finds it mapped, sized and readable ("usable").      *)
(* "auth" marks the section __auth_got, "writable" a cell that             *)
(* RorkHookStoreProtectedPointer can write, "binding" what dyld binds.     *)
(***************************************************************************)
Signatures == IF PtrAuth THEN (Images \X (Nat \ {0})) \union {Unsigned, Foreign}
                         ELSE {Unsigned}
Pointers   == [addr : Addresses \union {Null}, sig : Signatures]
CellInfo   == [type : {"lazy", "nonlazy", "other"}, usable : BOOLEAN,
               auth : BOOLEAN, writable : BOOLEAN, binding : Pointers]
Cells      == UNION {{i} \X (DOMAIN Layout[i]) : i \in Images}
Cell(c)    == Layout[c[1]][c[2]]

ASSUME ActorsAssumption ==
    /\ Globals \intersect Locals = {}
    /\ Dyld \notin Calls
    /\ None \notin Calls \union Images \union {Dyld}
    /\ PtrAuth \in BOOLEAN

ASSUME PointersAssumption ==
    /\ Null \notin Addresses
    /\ Unsigned \notin Images \X (Nat \ {0})
    /\ Replacee \in [Calls -> Pointers]
    /\ Replacement \in [Calls -> Pointers]

ASSUME ImagesAssumption ==
    /\ Layout \in [Images -> Seq(CellInfo)]
    /\ Accepts \in [Globals -> SUBSET Images]
    /\ Target \in [Locals -> Images]
    /\ DefinedIn \in [Addresses \union {Null} -> Images \union {None}]
    /\ WellFormed \subseteq Images
    /\ Initial \in Seq(Images)
    /\ \A j, k \in DOMAIN Initial : Initial[j] = Initial[k] => j = k
    /\ Unloadable \subseteq Images

VARIABLES
    slot,        \* the pointer held by every cell of every image
    images,      \* dyld's list of loaded images
    loader,      \* the holder of dyld's loader lock, or None
    registered,  \* dyld knows RorkHookHandleImageAdded
    visit,       \* images that dyld has still to hand to the callback
    inCallback,  \* the callback is running, on Head(visit)
    rest,        \* the part of the list the running callback has not reached
    gRebinds,    \* the list of published entries, newest first
    once,        \* gAddImageCallbackOnce
    pc,          \* where each call stands
    head,        \* the list each publishing call has last observed
    count,       \* imageCount of each enumerating call
    index,       \* the image index each enumerating call looks at next
    scan         \* the image scan each actor is in

registry == <<gRebinds, once>>
dyld     == <<images, loader, registered, visit, inCallback, rest>>
calls    == <<pc, head, count, index>>
vars     == <<slot, dyld, registry, calls, scan>>

Loaded == ToSet(images)

-----------------------------------------------------------------------------
(* Pointers and the test a slot is rewritten by.                           *)

\* RorkHookStripPointer.  Without pointer authentication it is the identity.
Strip(p) == IF PtrAuth THEN [p EXCEPT !.sig = Unsigned] ELSE p

\* The section of c is one that RorkHookRebindSection walks.
IsScanned(c) == Cell(c).type \in {"lazy", "nonlazy"} /\ Cell(c).usable

\* The word p, read from a slot, resolves to the replacee of r.
Resolves(p, r) == p.addr # Null /\ Strip(p) = Strip(Replacee[r])

\* Mutant: signs for the word before the slot.
Mut_FinalValue(r, c) ==
    IF ~PtrAuth        THEN Replacement[r]
    ELSE IF Cell(c).auth
         THEN [Strip(Replacement[r]) EXCEPT !.sig = <<c[1], c[2] - 1>>]
         ELSE Strip(Replacement[r])

\* The value stored in c: signed for the slot's own address in __auth_got.
FinalValue(r, c) ==
    IF ~PtrAuth        THEN Replacement[r]
    ELSE IF Cell(c).auth THEN [Strip(Replacement[r]) EXCEPT !.sig = c]
                         ELSE Strip(Replacement[r])

\* Mutant: forgets to leave out the defining image.
Mut_Applies(r, i) == i \in WellFormed /\ (r \in Globals => i \in Accepts[r])

\* RorkHookApplyRebind: the defining image and filtered images are left out,
\* and RorkHookRebindSymbolInImage does nothing to a malformed image.
Applies(r, i) ==
    /\ i \in WellFormed
    /\ r \in Globals => i # DefinedIn[Replacement[r].addr] /\ i \in Accepts[r]

Idle == [phase |-> "idle", rebind |-> None, image |-> None, next |-> 0]

\* The scan an actor is in after it was asked to apply r to image i.
StartScan(r, i) ==
    IF Applies(r, i)
    THEN [phase |-> "read", rebind |-> r, image |-> i, next |-> 1]
    ELSE Idle

HasArguments(r) == Replacee[r].addr # Null /\ Replacement[r].addr # Null

-----------------------------------------------------------------------------
Init ==
    /\ images = Initial
    /\ slot = [c \in Cells |-> Cell(c).binding]
    /\ loader = None
    /\ registered = FALSE
    /\ visit = <<>>
    /\ inCallback = FALSE
    /\ rest = <<>>
    /\ gRebinds = <<>>
    /\ once = "unset"
    /\ pc = [r \in Calls |-> "idle"]
    /\ head = [r \in Globals |-> <<>>]
    /\ count = [r \in Globals |-> 0]
    /\ index = [r \in Globals |-> 1]
    /\ scan = [a \in Actors |-> Idle]

Goto(r, from, to) == pc[r] = from /\ pc' = [pc EXCEPT ![r] = to]

(***************************************************************************)
(* Registration: publish, make sure of the callback, enumerate.            *)
(***************************************************************************)

\* A NULL argument, a replacement that no loaded image defines, or a failed
\* malloc, which may befall any call: the call returns false.
Reject(r) ==
    /\ Goto(r, "idle", "rejected")
    /\ UNCHANGED <<slot, dyld, registry, head, count, index, scan>>

\* The entry is allocated and the head of the list is loaded.
LoadHead(r) ==
    /\ HasArguments(r)
    /\ DefinedIn[Replacement[r].addr] \in Loaded
    /\ Goto(r, "idle", "publish")
    /\ head' = [head EXCEPT ![r] = gRebinds]
    /\ UNCHANGED <<slot, dyld, registry, count, index, scan>>

\* Mutant: a plain store where the code compares and exchanges.
Mut_Publish(r) ==
    /\ Goto(r, "publish", "once")
    /\ gRebinds' = <<r>> \o head[r]
    /\ UNCHANGED <<slot, dyld, once, head, count, index, scan>>

\* The compare-exchange: the entry in front of the list last observed.  Entries
\* are immutable and never removed, so equal heads are equal lists.
Publish(r) ==
    /\ gRebinds = head[r]
    /\ Goto(r, "publish", "once")
    /\ gRebinds' = <<r>> \o head[r]
    /\ UNCHANGED <<slot, dyld, once, head, count, index, scan>>

\* The compare-exchange fails and reloads the head.  (A spurious failure of
\* the weak form reloads the same head and is a stuttering step.)
PublishFails(r) ==
    /\ pc[r] = "publish"
    /\ gRebinds # head[r]
    /\ head' = [head EXCEPT ![r] = gRebinds]
    /\ UNCHANGED <<slot, dyld, registry, pc, count, index, scan>>

\* dispatch_once: the first call runs the block, the others wait for its end.
OnceEnter(r) ==
    /\ once = "unset"
    /\ Goto(r, "once", "register")
    /\ once' = "running"
    /\ UNCHANGED <<slot, dyld, gRebinds, head, count, index, scan>>

OncePass(r) ==
    /\ once = "done"
    /\ Goto(r, "once", "count")
    /\ UNCHANGED <<slot, dyld, registry, head, count, index, scan>>

\* _dyld_register_func_for_add_image, under the loader lock: later loads will
\* be handed to the callback, and so are all the images loaded so far.
RegisterCallback(r) ==
    /\ loader = None
    /\ Goto(r, "register", "registering")
    /\ loader' = r
    /\ registered' = TRUE
    /\ visit' = images
    /\ UNCHANGED <<slot, images, inCallback, rest, registry, head, count, index,
                   scan>>

RegisterDone(r) ==
    /\ visit = <<>>
    /\ Goto(r, "registering", "count")
    /\ loader' = None
    /\ once' = "done"
    /\ UNCHANGED <<slot, images, registered, visit, inCallback, rest, gRebinds,
                   head, count, index, scan>>

\* Mutant: leaves the images loaded so far to the callback.
Mut_CountNone(r) ==
    /\ Goto(r, "count", "enumerate")
    /\ count' = [count EXCEPT ![r] = 0]
    /\ index' = [index EXCEPT ![r] = 1]
    /\ UNCHANGED <<slot, dyld, registry, head, scan>>

\* _dyld_image_count, before the loop.
CountImages(r) ==
    /\ Goto(r, "count", "enumerate")
    /\ count' = [count EXCEPT ![r] = Len(images)]
    /\ index' = [index EXCEPT ![r] = 1]
    /\ UNCHANGED <<slot, dyld, registry, head, scan>>

\* Mutant: the loop does not advance.
Mut_Enumerate(r) ==
    /\ pc[r] = "enumerate"
    /\ scan[r].phase = "idle"
    /\ index[r] <= count[r]
    /\ scan' = [scan EXCEPT ![r] = IF index[r] \in DOMAIN images
                                   THEN StartScan(r, images[index[r]])
                                   ELSE Idle]
    /\ UNCHANGED <<slot, dyld, registry, calls>>

\* One turn of the loop: the header of the image now at this index, NULL when
\* there are fewer images by now, goes to RorkHookApplyRebind.
Enumerate(r) ==
    /\ pc[r] = "enumerate"
    /\ scan[r].phase = "idle"
    /\ index[r] <= count[r]
    /\ index' = [index EXCEPT ![r] = @ + 1]
    /\ scan' = [scan EXCEPT ![r] = IF index[r] \in DOMAIN images
                                   THEN StartScan(r, images[index[r]])
                                   ELSE Idle]
    /\ UNCHANGED <<slot, dyld, registry, pc, head, count>>

Return(r) ==
    /\ scan[r].phase = "idle"
    /\ index[r] > count[r]
    /\ Goto(r, "enumerate", "returned")
    /\ UNCHANGED <<slot, dyld, registry, head, count, index, scan>>

(***************************************************************************)
(* RorkHookRebindSymbolInImage on its own, for an image its caller found.  *)
(***************************************************************************)
CallInImage(r) ==
    /\ Target[r] \in Loaded
    /\ Goto(r, "idle", "inimage")
    /\ scan' = [scan EXCEPT ![r] = IF HasArguments(r)
                                   THEN StartScan(r, Target[r])
                                   ELSE Idle]
    /\ UNCHANGED <<slot, dyld, registry, head, count, index>>

ReturnInImage(r) ==
    /\ scan[r].phase = "idle"
    /\ Goto(r, "inimage", "returned")
    /\ UNCHANGED <<slot, dyld, registry, head, count, index, scan>>

(***************************************************************************)
(* The scan of one image, by a call or by the callback.                    *)
(***************************************************************************)
Mapped(a)    == scan[a].image \in Loaded
ScanCell(a)  == <<scan[a].image, scan[a].next>>
InLayout(a)  == scan[a].next \in DOMAIN Layout[scan[a].image]
Matches(a)   == /\ IsScanned(ScanCell(a))
                /\ Resolves(slot[ScanCell(a)], scan[a].rebind)
Advanced(a)  == [scan EXCEPT ![a] =
                    [phase |-> "read", rebind |-> scan[a].rebind,
                     image |-> scan[a].image, next |-> scan[a].next + 1]]

\* Read a slot that is to be left alone.
SkipSlot(a) ==
    /\ scan[a].phase = "read" /\ Mapped(a) /\ InLayout(a)
    /\ ~Matches(a)
    /\ scan' = Advanced(a)
    /\ UNCHANGED <<slot, dyld, registry, calls>>

\* Read a slot that resolves to the replacee.
MatchSlot(a) ==
    /\ scan[a].phase = "read" /\ Mapped(a) /\ InLayout(a)
    /\ Matches(a)
    /\ scan' = [scan EXCEPT ![a].phase = "store"]
    /\ UNCHANGED <<slot, dyld, registry, calls>>

\* RorkHookStoreSlot, whose failure is ignored.  What the slot holds by now is
\* not looked at again.
StoreSlot(a) ==
    /\ scan[a].phase = "store" /\ Mapped(a)
    /\ slot' = IF Cell(ScanCell(a)).writable
               THEN [slot EXCEPT ![ScanCell(a)] =
                                     FinalValue(scan[a].rebind, ScanCell(a))]
               ELSE slot
    /\ scan' = Advanced(a)
    /\ UNCHANGED <<dyld, registry, calls>>

EndScan(a) ==
    /\ scan[a].phase = "read" /\ Mapped(a) /\ ~InLayout(a)
    /\ scan' = [scan EXCEPT ![a] = Idle]
    /\ UNCHANGED <<slot, dyld, registry, calls>>

\* The image was unloaded under the scan: the thread reads unmapped memory.
FaultInScan(r) ==
    /\ scan[r].phase # "idle" /\ ~Mapped(r)
    /\ pc' = [pc EXCEPT ![r] = "crashed"]
    /\ scan' = [scan EXCEPT ![r] = Idle]
    /\ UNCHANGED <<slot, dyld, registry, head, count, index>>

(***************************************************************************)
(* RorkHookHandleImageAdded, on the thread that holds the loader lock.     *)
(***************************************************************************)
CallbackStart ==
    /\ visit # <<>> /\ ~inCallback
    /\ inCallback' = TRUE
    /\ rest' = gRebinds
    /\ UNCHANGED <<slot, images, loader, registered, visit, registry, calls,
                   scan>>

\* Mutant: the walk does not move on to the next entry.
Mut_CallbackApply ==
    /\ inCallback /\ rest # <<>> /\ scan[Dyld].phase = "idle"
    /\ scan' = [scan EXCEPT ![Dyld] = StartScan(Head(rest), Head(visit))]
    /\ UNCHANGED <<slot, dyld, registry, calls>>

CallbackApply ==
    /\ inCallback /\ rest # <<>> /\ scan[Dyld].phase = "idle"
    /\ scan' = [scan EXCEPT ![Dyld] = StartScan(Head(rest), Head(visit))]
    /\ rest' = Tail(rest)
    /\ UNCHANGED <<slot, images, loader, registered, visit, inCallback,
                   registry, calls>>

\* Mutant: the walk ends with the newest entry.
Mut_CallbackReturn ==
    /\ inCallback /\ rest \in {<<>>, Tail(gRebinds)} /\ scan[Dyld].phase = "idle"
    /\ inCallback' = FALSE
    /\ visit' = Tail(visit)
    /\ UNCHANGED <<slot, images, loader, registered, rest, registry, calls,
                   scan>>

CallbackReturn ==
    /\ inCallback /\ rest = <<>> /\ scan[Dyld].phase = "idle"
    /\ inCallback' = FALSE
    /\ visit' = Tail(visit)
    /\ UNCHANGED <<slot, images, loader, registered, rest, registry, calls,
                   scan>>

(***************************************************************************)
(* dyld.  A load binds the image, appends it to the list and hands it to   *)
(* the callback, all under the loader lock; one dlopen may load several    *)
(* images.  An unload closes the gap in the list.                          *)
(***************************************************************************)
LoadImage(i) ==
    /\ loader \in {None, Dyld}
    /\ i \notin Loaded
    /\ loader' = Dyld
    /\ images' = Append(images, i)
    /\ slot' = [c \in Cells |-> IF c[1] = i THEN Cell(c).binding ELSE slot[c]]
    /\ visit' = IF registered THEN Append(visit, i) ELSE visit
    /\ UNCHANGED <<registered, inCallback, rest, registry, calls, scan>>

LoadDone ==
    /\ loader = Dyld
    /\ visit = <<>>
    /\ loader' = None
    /\ UNCHANGED <<slot, images, registered, visit, inCallback, rest, registry,
                   calls, scan>>

UnloadImage(k) ==
    /\ loader = None
    /\ images[k] \in Unloadable
    /\ images' = RemoveAt(images, k)
    /\ UNCHANGED <<slot, loader, registered, visit, inCallback, rest, registry,
                   calls, scan>>

GlobalStep(r) ==
    \/ Reject(r) \/ LoadHead(r) \/ Publish(r) \/ PublishFails(r)
    \/ OnceEnter(r) \/ OncePass(r) \/ RegisterCallback(r) \/ RegisterDone(r)
    \/ CountImages(r) \/ Enumerate(r) \/ Return(r)

LocalStep(r) == CallInImage(r) \/ ReturnInImage(r)

ScanStep(a) == SkipSlot(a) \/ MatchSlot(a) \/ StoreSlot(a) \/ EndScan(a)

CallbackStep == CallbackStart \/ CallbackApply \/ CallbackReturn

\* Every call has been made and every image loaded: there is nothing left to do.
Terminated ==
    /\ \A r \in Calls : pc[r] \in {"returned", "rejected", "crashed"}
    /\ loader = None /\ Loaded = Images
    /\ UNCHANGED vars

Next ==
    \/ \E r \in Globals : GlobalStep(r)
    \/ \E r \in Locals : LocalStep(r)
    \/ \E a \in Actors : ScanStep(a)
    \/ \E r \in Calls : FaultInScan(r)
    \/ CallbackStep
    \/ \E i \in Images : LoadImage(i)
    \/ LoadDone
    \/ \E k \in DOMAIN images : UnloadImage(k)
    \/ Terminated

Spec == Init /\ [][Next]_vars
\* A thread inside a call keeps running, a callback runs to its end, and the
\* loading thread leaves dyld.  No call has to be made and no image loaded.
Fairness ==
    /\ \A r \in Globals : WF_vars(pc[r] # "idle" /\ GlobalStep(r))
    /\ \A r \in Locals : WF_vars(pc[r] # "idle" /\ LocalStep(r))
    /\ \A a \in Actors : WF_vars(ScanStep(a))
    /\ WF_vars(CallbackStep)
    /\ WF_vars(LoadDone)

FairSpec == Spec /\ Fairness

-----------------------------------------------------------------------------
(* Properties.                                                             *)

Phases == {"idle", "rejected", "publish", "once", "register", "registering",
           "count", "enumerate", "inimage", "returned", "crashed"}

Scans == [phase : {"idle", "read", "store"}, rebind : Calls \union {None},
          image : Images \union {None}, next : Nat]

\* Every variable has its type, and a scan in progress has a rebind and an image
\* (RorkHookRebindImageContext is filled in before the sections are walked).
TypeOK ==
    /\ slot \in [Cells -> Pointers]
    /\ images \in Seq(Images)
    /\ loader \in Globals \union {Dyld, None}
    /\ registered \in BOOLEAN
    /\ visit \in Seq(Images)
    /\ inCallback \in BOOLEAN
    /\ rest \in Seq(Globals)
    /\ gRebinds \in Seq(Globals)
    /\ once \in {"unset", "running", "done"}
    /\ pc \in [Calls -> Phases]
    /\ head \in [Globals -> Seq(Globals)]
    /\ count \in [Globals -> Nat]
    /\ index \in [Globals -> Nat]
    /\ scan \in [Actors -> Scans]
    /\ \A a \in Actors : scan[a].phase # "idle" =>
           scan[a].rebind \in Calls /\ scan[a].image \in Images

\* What a caller of r expects of image i, in the words of RorkHookRebind.h:
\* the filter and the image that defines the replacement limit a global call,
\* the given header an image-local one.
Covers(r, i) ==
    /\ HasArguments(r)
    /\ i \in WellFormed
    /\ r \in Locals => i = Target[r]
    /\ r \in Globals => i \in Accepts[r] \ {DefinedIn[Replacement[r].addr]}

\* A call through a symbol pointer of image i that can be found and written
\* still reaches the replacee of r.
StillCalls(r, i) ==
    \E k \in DOMAIN Layout[i] :
        /\ Layout[i][k].type # "other"
        /\ Layout[i][k].usable
        /\ Layout[i][k].writable
        /\ slot[<<i, k>>].addr = Replacee[r].addr

\* Once a call has returned, no image it covers still calls the replacee,
\* unless dyld has yet to hand that image to the callback: the registration gap
\* that RorkHookRebindSymbolGlobally closes by publishing, registering and
\* enumerating in this order.
Redirected ==
    \A r \in Calls : pc[r] = "returned" =>
        \A i \in Loaded \ ToSet(visit) : Covers(r, i) => ~StillCalls(r, i)

\* The image that defines a replacement keeps calling the original, whatever is
\* registered next to it (the sourceHeader test of RorkHookApplyRebind).
KeepsCallingOriginal ==
    \A r \in ToSet(gRebinds), c \in Cells :
        /\ c[1] = DefinedIn[Replacement[r].addr]
        /\ c[1] \in Loaded
        /\ Cell(c).binding.addr = Replacee[r].addr
        => slot[c] = Cell(c).binding

\* Apart from dyld binding a new image, a slot only ever changes from the
\* replacee of a call that covers its image to the replacement of that call,
\* although the store does not look again at the slot it read before.
RewritesOnlyReplacee ==
    [][\A c \in Cells : slot'[c] # slot[c] =>
          \/ c[1] \notin Loaded
          \/ \E r \in Calls : /\ pc[r] \notin {"idle", "rejected"} /\ Covers(r, c[1])
                              /\ slot[c].addr = Replacee[r].addr
                              /\ slot'[c].addr = Replacement[r].addr]_vars

\* A slot stays fit for its caller: one that dyld had signed for its own address
\* keeps such a signature, a raw one stays raw (the re-signing of
\* RorkHookRebindSection).
SignaturesFit ==
    \A c \in Cells :
        Cell(c).binding.sig = (IF Cell(c).auth THEN c ELSE Unsigned) =>
            slot[c].sig = Cell(c).binding.sig

\* No registration is lost to a concurrent one: from its compare-exchange on, an
\* entry is on the list, and it is there once.
NoEntryLost ==
    /\ \A r \in Globals :
          pc[r] \notin {"idle", "rejected", "publish"} => r \in ToSet(gRebinds)
    /\ \A j, k \in DOMAIN gRebinds : gRebinds[j] = gRebinds[k] => j = k

\* The callers' view: a call and the callback between them redirect every cell in
\* the scope of the call, one step each and nothing else, before the call returns
\* or a newly loaded image comes into use (RorkHookRebind.h).  An image that dyld
\* has still to hand to the callback is not in use yet, except that registering
\* the callback hands it all the images that are.
ImageOf == [c \in Cells |-> c[1]]
Binding == [c \in Cells |-> Cell(c).binding.addr]
Scope == [r \in Calls |-> {c \in Cells : /\ Covers(r, c[1]) /\ IsScanned(c)
                                          /\ Cell(c).writable}]
From == [r \in Calls |-> Replacee[r].addr]
To == [r \in Calls |-> Replacement[r].addr]
InUse == IF loader \in Globals THEN Loaded ELSE Loaded \ ToSet(visit)
Word == [c \in Cells |-> slot[c].addr]
State == [r \in Calls |-> CASE pc[r] = "idle" -> "idle"
                            [] pc[r] = "rejected" -> "refused"
                            [] pc[r] = "returned" -> "returned"
                            [] OTHER -> "made"]
Abstract == INSTANCE Rebinding WITH
    Words <- Cells, Initially <- ToSet(Initial),
    word <- Word, inUse <- InUse, opening <- Loaded \ InUse, state <- State
Rebinds == Abstract!Spec

\* Every call that has been made comes back.
CallsReturn ==
    \A r \in Calls : pc[r] # "idle" ~> pc[r] \in {"returned", "rejected"}

\* Whoever has taken the loader lock, a dlopen or a registration, lets go of it:
\* RorkHookHandleImageAdded gets through the list for every image it is given.
LoaderReleased == loader # None ~> loader = None
=============================================================================
