------------------------ MODULE GlobalRebindProofs ------------------------
(***************************************************************************)
(* Proofs about GlobalRebind, for any number of calls, images and cells.   *)
(***************************************************************************)
EXTENDS GlobalRebind, SequenceTheorems, TLAPS

-----------------------------------------------------------------------------
(* Pointers.                                                               *)

\* What a scan stores is a pointer to the replacement (FinalValue is the
\* finalValue of RorkHookRebindSection).
LEMMA FinalValueType ==
    ASSUME NEW r \in Calls, NEW c \in Cells
    PROVE  /\ FinalValue(r, c) \in Pointers
           /\ FinalValue(r, c).addr = Replacement[r].addr
<1>1. Replacement[r] \in Pointers
  BY PointersAssumption
<1>2. Strip(Replacement[r]) \in Pointers
  BY <1>1 DEF Strip, Pointers, Signatures
<1>3. PtrAuth => c \in Signatures
  <2>1. PICK i \in Images : c \in {i} \X (DOMAIN Layout[i])
    BY DEF Cells
  <2>2. Layout[i] \in Seq(CellInfo)
    BY ImagesAssumption
  <2>3. QED
    BY <2>1, <2>2 DEF Signatures
<1>4. QED
  BY <1>1, <1>2, <1>3, ActorsAssumption DEF FinalValue, Strip, Pointers, Signatures

\* The test of RorkHookRebindSection compares addresses, whatever signatures
\* the slot and the replacee carry.
LEMMA ResolvesComparesAddresses ==
    ASSUME NEW p \in Pointers, NEW r \in Calls, HasArguments(r)
    PROVE  Resolves(p, r) <=> p.addr = Replacee[r].addr
<1>1. Replacee[r] \in Pointers
  BY PointersAssumption
<1>2. Strip(p) = Strip(Replacee[r]) <=> p.addr = Replacee[r].addr
  <2>1. CASE PtrAuth
    BY <2>1, <1>1 DEF Strip, Pointers, Signatures
  <2>2. CASE ~PtrAuth
    BY <2>2, <1>1 DEF Strip, Pointers, Signatures
  <2>3. QED
    BY <2>1, <2>2
<1>3. QED
  BY <1>2 DEF Resolves, HasArguments

\* Every cell is in the layout of its image, and its binding is a pointer.
LEMMA CellType ==
    /\ \A c \in Cells : Cell(c).binding \in Pointers /\ c[1] \in Images
    /\ \A i \in Images : \A k \in DOMAIN Layout[i] : <<i, k>> \in Cells
<1>1. ASSUME NEW c \in Cells PROVE Cell(c).binding \in Pointers /\ c[1] \in Images
  <2>1. PICK i \in Images : \E k \in DOMAIN Layout[i] : c = <<i, k>>
    BY DEF Cells
  <2>2. PICK k \in DOMAIN Layout[i] : c = <<i, k>>
    BY <2>1
  <2>3. Layout[i] \in Seq(CellInfo)
    BY ImagesAssumption
  <2>4. Layout[i][k] \in CellInfo
    BY <2>3
  <2>5. QED
    BY <2>2, <2>4 DEF Cell, CellInfo
<1>2. ASSUME NEW i \in Images, NEW k \in DOMAIN Layout[i]
      PROVE  <<i, k>> \in Cells
  BY DEF Cells
<1>3. QED
  BY <1>1, <1>2

-----------------------------------------------------------------------------
(* Type correctness.                                                       *)

\* The callback runs on the image in front of the queue, and the queue is empty
\* when nobody holds the loader lock.
VisitOK ==
    /\ inCallback => visit # <<>>
    /\ loader = None => visit = <<>>

\* The state before the first call of the API is type-correct.
LEMMA InitType == Init => TypeOK
<1> SUFFICES ASSUME Init PROVE TypeOK
  OBVIOUS
<1>1. slot \in [Cells -> Pointers]
  BY CellType DEF Init
<1>2. scan \in [Actors -> Scans] /\ \A a \in Actors : scan[a].phase = "idle"
  BY DEF Init, Scans, Idle
<1>3. pc \in [Calls -> Phases]
  BY DEF Init, Phases
<1>4. /\ images \in Seq(Images)
      /\ visit \in Seq(Images)
      /\ rest \in Seq(Globals)
      /\ gRebinds \in Seq(Globals)
      /\ head \in [Globals -> Seq(Globals)]
  BY ImagesAssumption DEF Init
<1>5. count \in [Globals -> Nat] /\ index \in [Globals -> Nat]
  BY DEF Init
<1>6. QED
  BY <1>1, <1>2, <1>3, <1>4, <1>5 DEF Init, TypeOK

\* What TypeOK says of one scan.
IsScan(s) == /\ s \in Scans
             /\ s.phase # "idle" => s.rebind \in Calls /\ s.image \in Images

\* An actor that scans nothing has a scan record.
LEMMA IdleType == IsScan(Idle)
BY DEF IsScan, Scans, Idle

\* StartScan makes a scan of the call and the image it is given.
LEMMA StartScanType ==
    ASSUME NEW r \in Calls, NEW i \in Images
    PROVE  IsScan(StartScan(r, i))
BY DEF IsScan, StartScan, Scans, Idle

\* The steps of RorkHookRebindSymbolGlobally keep the types.
LEMMA GlobalStepType ==
    ASSUME TypeOK, NEW r \in Globals, GlobalStep(r)
    PROVE  TypeOK'
<1> r \in Calls /\ r \in Actors
  BY DEF Calls, Actors
<1> USE DEF TypeOK, Goto, dyld, registry, calls, Phases
<1>1. CASE Reject(r)
  BY <1>1 DEF Reject
<1>2. CASE LoadHead(r)
  BY <1>2 DEF LoadHead
<1>3. CASE Publish(r)
  BY <1>3 DEF Publish
<1>4. CASE PublishFails(r)
  BY <1>4 DEF PublishFails
<1>5. CASE OnceEnter(r)
  BY <1>5 DEF OnceEnter
<1>6. CASE OncePass(r)
  BY <1>6 DEF OncePass
<1>7. CASE RegisterCallback(r)
  BY <1>7 DEF RegisterCallback
<1>8. CASE RegisterDone(r)
  BY <1>8 DEF RegisterDone
<1>9. CASE CountImages(r)
  BY <1>9 DEF CountImages
<1>10. CASE Enumerate(r)
  <2>1. index' \in [Globals -> Nat]
    BY <1>10 DEF Enumerate
  <2> DEFINE s == IF index[r] \in DOMAIN images
                  THEN StartScan(r, images[index[r]])
                  ELSE Idle
  <2>2. IsScan(s)
    <3>1. CASE index[r] \in DOMAIN images
      <4>1. images[index[r]] \in Images
        BY <3>1
      <4>2. QED
        BY <3>1, <4>1, StartScanType
    <3>2. CASE index[r] \notin DOMAIN images
      BY <3>2, IdleType
    <3>3. QED
      BY <3>1, <3>2
  <2>3. scan' = [scan EXCEPT ![r] = s]
    BY <1>10 DEF Enumerate
  <2> HIDE DEF s
  <2>4. QED
    BY <1>10, <2>1, <2>2, <2>3 DEF Enumerate, IsScan
<1>11. CASE Return(r)
  BY <1>11 DEF Return
<1>12. QED
  BY <1>1, <1>2, <1>3, <1>4, <1>5, <1>6, <1>7, <1>8, <1>9, <1>10, <1>11
  DEF GlobalStep

\* The steps of RorkHookRebindSymbolInImage keep the types.
LEMMA LocalStepType ==
    ASSUME TypeOK, NEW r \in Locals, LocalStep(r)
    PROVE  TypeOK'
<1> r \in Calls /\ r \in Actors
  BY DEF Calls, Actors
<1> USE DEF TypeOK, Goto, dyld, registry, calls, Phases
<1>1. CASE CallInImage(r)
  <2> DEFINE s == IF HasArguments(r) THEN StartScan(r, Target[r]) ELSE Idle
  <2>1. IsScan(s)
    BY IdleType, StartScanType, ImagesAssumption
  <2>2. scan' = [scan EXCEPT ![r] = s]
    BY <1>1 DEF CallInImage
  <2> HIDE DEF s
  <2>3. QED
    BY <1>1, <2>1, <2>2 DEF CallInImage, IsScan
<1>2. CASE ReturnInImage(r)
  BY <1>2 DEF ReturnInImage
<1>3. QED
  BY <1>1, <1>2 DEF LocalStep

\* The steps of RorkHookRebindSection keep the types.
LEMMA ScanStepType ==
    ASSUME TypeOK, NEW a \in Actors, ScanStep(a)
    PROVE  TypeOK'
<1> USE DEF TypeOK, dyld, registry, calls
<1>1. Advanced(a) \in [Actors -> Scans]
  BY DEF Advanced, Scans
<1>2. \A b \in Actors : /\ Advanced(a)[b].rebind = scan[b].rebind
                        /\ Advanced(a)[b].image = scan[b].image
                        /\ b # a => Advanced(a)[b] = scan[b]
  BY DEF Advanced, Scans
<1>3. CASE SkipSlot(a)
  BY <1>1, <1>2, <1>3 DEF SkipSlot
<1>4. CASE MatchSlot(a)
  BY <1>4 DEF MatchSlot, Scans
<1>5. CASE StoreSlot(a)
  <2>1. slot' \in [Cells -> Pointers]
    <3>1. CASE ScanCell(a) \in Cells
      BY <1>5, <3>1, FinalValueType DEF StoreSlot
    <3>2. CASE ScanCell(a) \notin Cells
      BY <1>5, <3>2 DEF StoreSlot
    <3>3. QED
      BY <3>1, <3>2
  <2>2. QED
    BY <1>1, <1>2, <1>5, <2>1 DEF StoreSlot
<1>6. CASE EndScan(a)
  BY <1>6 DEF EndScan, Scans, Idle
<1>7. QED
  BY <1>3, <1>4, <1>5, <1>6 DEF ScanStep

\* The steps of RorkHookHandleImageAdded keep the types; it takes the head of
\* the queue of images, which VisitOK says is there.
LEMMA CallbackStepType ==
    ASSUME TypeOK, CallbackStep, VisitOK
    PROVE  TypeOK'
<1> USE DEF TypeOK, registry, calls
<1> Dyld \in Actors
  BY DEF Actors
<1>1. CASE CallbackStart
  BY <1>1 DEF CallbackStart
<1>2. CASE CallbackApply
  <2>1. /\ rest # <<>> /\ visit # <<>> /\ rest' = Tail(rest)
        /\ scan' = [scan EXCEPT ![Dyld] = StartScan(Head(rest), Head(visit))]
    BY <1>2 DEF CallbackApply, VisitOK
  <2>2. Head(rest) \in Calls /\ Head(visit) \in Images /\ Tail(rest) \in Seq(Globals)
    BY <2>1 DEF Calls
  <2>3. IsScan(StartScan(Head(rest), Head(visit)))
    BY <2>2, StartScanType
  <2>4. QED
    BY <1>2, <2>1, <2>2, <2>3 DEF CallbackApply, IsScan
<1>3. CASE CallbackReturn
  <2>1. visit # <<>> /\ visit' = Tail(visit)
    BY <1>3 DEF CallbackReturn, VisitOK
  <2>2. Tail(visit) \in Seq(Images)
    BY <2>1
  <2>3. QED
    BY <1>3, <2>1, <2>2 DEF CallbackReturn
<1>4. QED
  BY <1>1, <1>2, <1>3 DEF CallbackStep

\* Dropping one image of dyld's list leaves a list of images.
LEMMA RemoveAtType ==
    ASSUME NEW S, NEW s \in Seq(S), NEW k \in 1 .. Len(s)
    PROVE  RemoveAt(s, k) \in Seq(S)
<1>1. SubSeq(s, 1, k - 1) \in Seq(S)
  OBVIOUS
<1>2. SubSeq(s, k + 1, Len(s)) \in Seq(S)
  OBVIOUS
<1>3. ASSUME NEW u \in Seq(S), NEW v \in Seq(S) PROVE u \o v \in Seq(S)
  OBVIOUS
<1>4. SubSeq(s, 1, k - 1) \o SubSeq(s, k + 1, Len(s)) \in Seq(S)
  BY ONLY <1>1, <1>2, <1>3, Zenon
<1>5. QED
  BY ONLY <1>4, Zenon DEF RemoveAt

\* Loading and unloading an image keeps the types.
LEMMA DyldStepType ==
    ASSUME TypeOK,
           \/ \E i \in Images : LoadImage(i)
           \/ LoadDone
           \/ \E k \in DOMAIN images : UnloadImage(k)
    PROVE  TypeOK'
<1> USE DEF TypeOK, registry, calls
<1>1. ASSUME NEW i \in Images, LoadImage(i) PROVE TypeOK'
  <2>1. slot' \in [Cells -> Pointers]
    BY <1>1, CellType DEF LoadImage
  <2>2. QED
    BY <1>1, <2>1, SMTT(20) DEF LoadImage
<1>2. CASE LoadDone
  BY <1>2 DEF LoadDone
<1>3. ASSUME NEW k \in DOMAIN images, UnloadImage(k) PROVE TypeOK'
  <2>1. images' \in Seq(Images)
    <3>1. k \in 1 .. Len(images)
      OBVIOUS
    <3>2. RemoveAt(images, k) \in Seq(Images)
      BY <3>1, RemoveAtType
    <3>3. QED
      BY <1>3, <3>2 DEF UnloadImage
  <2>2. QED
    BY <1>3, <2>1 DEF UnloadImage
<1>4. QED
  BY <1>1, <1>2, <1>3

\* The callback has an image to work on whenever it is at work.
LEMMA NextVisit ==
    ASSUME TypeOK, VisitOK, Next
    PROVE  VisitOK'
<1> USE DEF TypeOK, VisitOK, dyld, registry, calls
<1>1. ASSUME NEW r \in Globals, GlobalStep(r) PROVE VisitOK'
  <2>1. CASE RegisterCallback(r)
    BY <2>1, ActorsAssumption DEF RegisterCallback, Calls
  <2>2. CASE RegisterDone(r)
    BY <2>2 DEF RegisterDone
  <2>3. CASE ~RegisterCallback(r) /\ ~RegisterDone(r)
    BY <1>1, <2>3 DEF GlobalStep, Reject, LoadHead, Publish, PublishFails,
                      OnceEnter, OncePass, CountImages, Enumerate, Return
  <2>4. QED
    BY <2>1, <2>2, <2>3
<1>2. ASSUME NEW r \in Locals, LocalStep(r) PROVE VisitOK'
  BY <1>2 DEF LocalStep, CallInImage, ReturnInImage
<1>3. ASSUME NEW a \in Actors, ScanStep(a) PROVE VisitOK'
  BY <1>3 DEF ScanStep, SkipSlot, MatchSlot, StoreSlot, EndScan
<1>4. ASSUME NEW r \in Calls, FaultInScan(r) PROVE VisitOK'
  BY <1>4 DEF FaultInScan
<1>5. CASE CallbackStep
  BY <1>5 DEF CallbackStep, CallbackStart, CallbackApply, CallbackReturn
<1>6. ASSUME NEW i \in Images, LoadImage(i) PROVE VisitOK'
  <2>1. Append(visit, i) # <<>>
    <3>1. visit \in Seq(Images)
      OBVIOUS
    <3>2. QED
      BY ONLY <3>1, i \in Images, AppendProperties
  <2>2. loader' # None
    BY <1>6, ActorsAssumption DEF LoadImage
  <2>3. QED
    BY <1>6, <2>1, <2>2 DEF LoadImage
<1>7. CASE LoadDone
  BY <1>7 DEF LoadDone
<1>8. ASSUME NEW k \in DOMAIN images, UnloadImage(k) PROVE VisitOK'
  BY <1>8 DEF UnloadImage
<1>9. CASE Terminated
  BY <1>9 DEF Terminated, vars
<1>10. QED
  BY <1>1, <1>2, <1>3, <1>4, <1>5, <1>6, <1>7, <1>8, <1>9 DEF Next

\* Every step keeps the types.
LEMMA NextType ==
    ASSUME TypeOK, VisitOK, Next
    PROVE  TypeOK'
<1>1. ASSUME NEW r \in Calls, FaultInScan(r) PROVE TypeOK'
  <2>1. r \in Actors
    BY DEF Actors
  <2>2. QED
    BY <1>1, <2>1, IdleType
    DEF FaultInScan, TypeOK, dyld, registry, Phases, IsScan
<1>2. CASE Terminated
  BY <1>2 DEF Terminated, TypeOK, vars, dyld, registry, calls
<1>3. QED
  BY <1>1, <1>2, GlobalStepType, LocalStepType, ScanStepType, CallbackStepType,
     DyldStepType DEF Next

\* GlobalRebind is type-correct.  The callback takes the head of the queue of
\* images, so VisitOK has to be carried along.
THEOREM TypeCorrect == Spec => [](TypeOK /\ VisitOK)
<1>1. Init => TypeOK /\ VisitOK
  BY InitType DEF Init, VisitOK
<1>2. TypeOK /\ VisitOK /\ [Next]_vars => (TypeOK /\ VisitOK)'
  <2> SUFFICES ASSUME TypeOK, VisitOK, [Next]_vars PROVE TypeOK' /\ VisitOK'
    OBVIOUS
  <2>1. CASE Next
    BY <2>1, NextType, NextVisit
  <2>2. CASE UNCHANGED vars
    BY <2>2 DEF TypeOK, VisitOK, vars, dyld, registry, calls
  <2>3. QED
    BY <2>1, <2>2
<1>3. QED
  BY <1>1, <1>2, PTL DEF Spec

-----------------------------------------------------------------------------
(* The registry.                                                           *)

\* From its compare-exchange on, a call is on the list.
Published(r) == pc[r] \notin {"idle", "rejected", "publish"}

\* Exactly the published calls are listed, each of them once, and only a call
\* that is enumerating or rebinding one image has a scan of its own.
RegistryOK ==
    /\ \A r \in Globals : Published(r) <=> \E k \in DOMAIN gRebinds : gRebinds[k] = r
    /\ \A j, k \in DOMAIN gRebinds : gRebinds[j] = gRebinds[k] => j = k
    /\ \A r \in Calls : scan[r].phase # "idle" =>
          pc[r] = IF r \in Globals THEN "enumerate" ELSE "inimage"

\* An entry in front of a list: the elements of the list keep their order.
LEMMA PrependProperties ==
    ASSUME NEW S, NEW x \in S, NEW s \in Seq(S), NEW t, t = <<x>> \o s
    PROVE  /\ t \in Seq(S)
           /\ 1 \in DOMAIN t /\ t[1] = x
           /\ \A k \in DOMAIN s : k + 1 \in DOMAIN t /\ t[k + 1] = s[k]
           /\ \A k \in DOMAIN t : k # 1 => k - 1 \in DOMAIN s /\ t[k] = s[k - 1]
           /\ DOMAIN t \subseteq Int
OBVIOUS

\* A failed compare-exchange changes nothing that others can see; a successful
\* one puts the entry in front of the others.
LEMMA PublishRegistry ==
    ASSUME TypeOK, RegistryOK, NEW r \in Globals, Publish(r)
    PROVE  RegistryOK'
<1> USE DEF TypeOK, Goto, Phases
<1>1. /\ gRebinds' = <<r>> \o gRebinds
      /\ pc[r] = "publish" /\ pc' = [pc EXCEPT ![r] = "once"]
      /\ scan' = scan
  BY DEF Publish
<1>3. /\ 1 \in DOMAIN gRebinds' /\ gRebinds'[1] = r
      /\ \A k \in DOMAIN gRebinds :
            k + 1 \in DOMAIN gRebinds' /\ gRebinds'[k + 1] = gRebinds[k]
      /\ \A k \in DOMAIN gRebinds' : k # 1 =>
            k - 1 \in DOMAIN gRebinds /\ gRebinds'[k] = gRebinds[k - 1]
      /\ DOMAIN gRebinds' \subseteq Int
  <2>1. gRebinds \in Seq(Globals)
    OBVIOUS
  <2>2. QED
    BY ONLY <1>1, <2>1, r \in Globals, PrependProperties
<1>5. \A k \in DOMAIN gRebinds : gRebinds[k] # r
  BY <1>1 DEF RegistryOK, Published
<1>6. r \in Calls
  BY DEF Calls
<1>7. \A q \in Globals : Published(q)' <=> q = r \/ Published(q)
  BY <1>1, <1>6 DEF Published, Calls
<1>8. ASSUME NEW q \in Globals
      PROVE  Published(q)' <=> \E k \in DOMAIN gRebinds' : gRebinds'[k] = q
  <2>1. (\E k \in DOMAIN gRebinds' : gRebinds'[k] = q)
           <=> q = r \/ \E k \in DOMAIN gRebinds : gRebinds[k] = q
    <3>1. ASSUME NEW k \in DOMAIN gRebinds', gRebinds'[k] = q, q # r
          PROVE  \E m \in DOMAIN gRebinds : gRebinds[m] = q
      <4>1. k # 1
        BY ONLY <1>3, <3>1
      <4>2. k - 1 \in DOMAIN gRebinds /\ gRebinds[k - 1] = q
        BY ONLY <1>3, <3>1, <4>1
      <4>3. QED
        BY ONLY <4>2
    <3>2. ASSUME NEW k \in DOMAIN gRebinds, gRebinds[k] = q
          PROVE  \E m \in DOMAIN gRebinds' : gRebinds'[m] = q
      BY ONLY <1>3, <3>2
    <3>3. QED
      BY ONLY <1>3, <3>1, <3>2
  <2>2. QED
    BY <1>7, <2>1 DEF RegistryOK
<1>9. ASSUME NEW j \in DOMAIN gRebinds', NEW k \in DOMAIN gRebinds',
             gRebinds'[j] = gRebinds'[k]
      PROVE  j = k
  <2>1. CASE j # 1 /\ k # 1
    <3>1. j - 1 = k - 1
      BY <1>3, <1>9, <2>1 DEF RegistryOK
    <3>2. QED
      BY <1>3, <3>1
  <2>2. CASE j = 1 \/ k = 1
    BY <1>3, <1>5, <1>9, <2>2
  <2>3. QED
    BY <2>1, <2>2
<1>10. ASSUME NEW q \in Calls, scan'[q].phase # "idle"
       PROVE  pc'[q] = IF q \in Globals THEN "enumerate" ELSE "inimage"
  BY <1>1, <1>10 DEF RegistryOK
<1>11. QED
  BY <1>8, <1>9, <1>10 DEF RegistryOK

\* Every step keeps the list of registrations whole: only the compare-exchange
\* of RorkHookRebindSymbolGlobally changes it.
LEMMA NextRegistry ==
    ASSUME TypeOK, VisitOK, RegistryOK, Next
    PROVE  RegistryOK'
<1> USE DEF TypeOK, Goto, Phases, dyld, registry, calls
<1> DEFINE Owner(r) == IF r \in Globals THEN "enumerate" ELSE "inimage"
           ScanOwned == \A r \in Calls : scan[r].phase # "idle" => pc[r] = Owner(r)
<1>1. ASSUME gRebinds' = gRebinds, ScanOwned',
             \A r \in Globals : Published(r)' <=> Published(r)
      PROVE  RegistryOK'
  BY <1>1 DEF RegistryOK
<1>2. ASSUME NEW r \in Globals, GlobalStep(r) PROVE RegistryOK'
  <2> r \in Calls /\ r \in Actors
    BY DEF Calls, Actors
  <2>1. CASE Publish(r)
    BY <2>1, PublishRegistry
  <2>2. CASE Enumerate(r)
    <3>1. ScanOwned'
      BY <2>2 DEF Enumerate, RegistryOK
    <3>2. QED
      BY <2>2, <3>1, <1>1 DEF Enumerate, Published
  <2>3. CASE ~Publish(r) /\ ~Enumerate(r)
    <3>1. /\ gRebinds' = gRebinds /\ scan' = scan
          /\ \A q \in Calls : q # r => pc'[q] = pc[q]
          /\ scan[r].phase = "idle"
          /\ Published(r)' <=> Published(r)
      <4>1. CASE Reject(r)
        BY <4>1 DEF Reject, Published, RegistryOK
      <4>2. CASE LoadHead(r)
        BY <4>2 DEF LoadHead, Published, RegistryOK
      <4>3. CASE PublishFails(r)
        BY <4>3 DEF PublishFails, Published, RegistryOK
      <4>4. CASE OnceEnter(r) \/ OncePass(r)
        BY <4>4 DEF OnceEnter, OncePass, Published, RegistryOK
      <4>5. CASE RegisterCallback(r) \/ RegisterDone(r)
        BY <4>5 DEF RegisterCallback, RegisterDone, Published, RegistryOK
      <4>6. CASE CountImages(r)
        BY <4>6 DEF CountImages, Published, RegistryOK
      <4>7. CASE Return(r)
        BY <4>7 DEF Return, Published, RegistryOK
      <4>8. QED
        BY <1>2, <2>3, <4>1, <4>2, <4>3, <4>4, <4>5, <4>6, <4>7 DEF GlobalStep
    <3>2. ScanOwned'
      BY <3>1 DEF RegistryOK
    <3>3. QED
      BY <3>1, <3>2, <1>1 DEF Published, Calls
  <2>4. QED
    BY <2>1, <2>2, <2>3
<1>3. ASSUME NEW r \in Locals, LocalStep(r) PROVE RegistryOK'
  <2>1. r \in Calls /\ r \notin Globals /\ Calls \subseteq Actors
    BY ActorsAssumption DEF Calls, Actors
  <2>2. ScanOwned'
    <3>1. CASE CallInImage(r)
      <4>1. /\ pc'[r] = "inimage"
            /\ \A q \in Calls : q # r => pc'[q] = pc[q] /\ scan'[q] = scan[q]
        BY <2>1, <3>1 DEF CallInImage
      <4>2. QED
        BY <2>1, <4>1, ZenonT(40) DEF RegistryOK
    <3>2. CASE ReturnInImage(r)
      <4>1. /\ scan' = scan /\ scan[r].phase = "idle"
            /\ \A q \in Calls : q # r => pc'[q] = pc[q]
        BY <2>1, <3>2 DEF ReturnInImage
      <4>2. QED
        BY <4>1 DEF RegistryOK
    <3>3. QED
      BY <1>3, <3>1, <3>2 DEF LocalStep
  <2>3. gRebinds' = gRebinds /\ \A q \in Globals : pc'[q] = pc[q]
    BY <1>3, <2>1 DEF LocalStep, CallInImage, ReturnInImage, Calls
  <2>4. QED
    BY <2>2, <2>3, <1>1 DEF Published
<1>4. ASSUME NEW a \in Actors, ScanStep(a) PROVE RegistryOK'
  <2>1. \A b \in Actors : scan'[b].phase # "idle" => scan[b].phase # "idle"
    BY <1>4 DEF ScanStep, SkipSlot, MatchSlot, StoreSlot, EndScan, Advanced, Scans, Idle
  <2>2. gRebinds' = gRebinds /\ pc' = pc
    BY <1>4 DEF ScanStep, SkipSlot, MatchSlot, StoreSlot, EndScan
  <2>3. QED
    BY <2>1, <2>2, <1>1 DEF RegistryOK, Published, Actors
<1>5. ASSUME NEW r \in Calls, FaultInScan(r) PROVE RegistryOK'
  <2>1. \A q \in Calls : /\ q # r => pc'[q] = pc[q] /\ scan'[q] = scan[q]
                         /\ q = r => pc'[q] = "crashed" /\ scan'[q].phase = "idle"
    BY <1>5 DEF FaultInScan, Actors, Idle
  <2>2. scan[r].phase # "idle" /\ gRebinds' = gRebinds
    BY <1>5 DEF FaultInScan
  <2>3. ASSUME NEW q \in Globals PROVE Published(q)' <=> Published(q)
    <3>1. q \in Calls
      BY DEF Calls
    <3>2. q = r => pc[q] = "enumerate"
      BY <2>2, <3>1 DEF RegistryOK
    <3>3. QED
      BY <2>1, <3>1, <3>2 DEF Published
  <2>4. ASSUME NEW q \in Calls, scan'[q].phase # "idle" PROVE pc'[q] = Owner(q)
    <3>1. q # r
      BY <2>1, <2>4
    <3>2. QED
      BY <2>1, <2>4, <3>1, ZenonT(40) DEF RegistryOK
  <2>5. QED
    BY <2>2, <2>3, <2>4, <1>1
<1>6. CASE CallbackStep
  <2>1. gRebinds' = gRebinds /\ pc' = pc
    BY <1>6 DEF CallbackStep, CallbackStart, CallbackApply, CallbackReturn
  <2>2. \A q \in Calls : scan'[q] = scan[q]
    BY <1>6, ActorsAssumption
    DEF CallbackStep, CallbackStart, CallbackApply, CallbackReturn, Actors
  <2>3. QED
    BY <2>1, <2>2, <1>1 DEF RegistryOK, Published
<1>7. CASE \/ \E i \in Images : LoadImage(i)
           \/ LoadDone
           \/ \E k \in DOMAIN images : UnloadImage(k)
           \/ Terminated
  <2>1. gRebinds' = gRebinds /\ pc' = pc /\ scan' = scan
    BY <1>7 DEF LoadImage, LoadDone, UnloadImage, Terminated, vars
  <2>2. QED
    BY <2>1, <1>1 DEF RegistryOK, Published
<1>8. QED
  BY <1>2, <1>3, <1>4, <1>5, <1>6, <1>7 DEF Next

\* No registration is lost to a concurrent one, for any number of calls: the
\* list holds exactly the calls whose compare-exchange succeeded.
THEOREM RegistrationsStay == Spec => []NoEntryLost
<1>1. Init => RegistryOK
  BY DEF Init, RegistryOK, Published, Idle, Calls, Actors
<1>2. TypeOK /\ VisitOK /\ RegistryOK /\ [Next]_vars => RegistryOK'
  <2> SUFFICES ASSUME TypeOK, VisitOK, RegistryOK, [Next]_vars PROVE RegistryOK'
    OBVIOUS
  <2>1. CASE Next
    BY <2>1, NextRegistry
  <2>2. CASE UNCHANGED vars
    BY <2>2 DEF RegistryOK, Published, vars, registry, calls
  <2>3. QED
    BY <2>1, <2>2
<1>3. RegistryOK => NoEntryLost
  BY DEF RegistryOK, NoEntryLost, Published, ToSet
<1>4. QED
  BY <1>1, <1>2, <1>3, TypeCorrect, PTL DEF Spec

-----------------------------------------------------------------------------
(* The registration gap.                                                   *)

\* No replacement is the replacee of a call: rebinds do not form chains.
Unchained ==
    \A r, q \in Calls :
        HasArguments(r) /\ HasArguments(q) => Replacement[r].addr # Replacee[q].addr

\* The cell <<i, k>> does not call the replacee of r, or cannot be rewritten.
Clean(r, i, k) ==
    /\ Layout[i][k].type # "other" /\ Layout[i][k].usable /\ Layout[i][k].writable
    => slot[<<i, k>>].addr # Replacee[r].addr

CleanBelow(r, i, n) == \A k \in DOMAIN Layout[i] : k < n => Clean(r, i, k)
CleanImage(r, i) == \A k \in DOMAIN Layout[i] : Clean(r, i, k)

\* A scan is of a loaded image, on behalf of the call it belongs to, and has
\* left a clean image behind it.
ScanOK(a) ==
    scan[a].phase # "idle" =>
        /\ scan[a].rebind \in Calls /\ HasArguments(scan[a].rebind)
        /\ scan[a].image \in Loaded
        /\ scan[a].next >= 1
        /\ scan[a].phase = "store" => scan[a].next \in DOMAIN Layout[scan[a].image]
        /\ CleanBelow(scan[a].rebind, scan[a].image, scan[a].next)
        /\ a \in Calls => scan[a].rebind = a

Scanning(a, r, i) ==
    scan[a].phase # "idle" /\ scan[a].rebind = r /\ scan[a].image = i

\* The callback has yet to apply r to image i.
CallbackAhead(r, i) ==
    \/ \E j \in DOMAIN visit : visit[j] = i /\ (j > 1 \/ ~inCallback)
    \/ inCallback /\ visit[1] = i /\ \E j \in DOMAIN rest : rest[j] = r
    \/ Scanning(Dyld, r, i)

\* The call r itself has yet to apply its rebind to image i.
CallAhead(r, i) ==
    \/ pc[r] \in {"once", "register", "registering", "count"}
    \/ /\ pc[r] = "enumerate"
       /\ \E j \in DOMAIN images : /\ images[j] = i
                                   /\ index[r] <= j /\ j <= count[r]
    \/ Scanning(r, r, i)

\* Whatever a published call covers is clean or somebody is still about to scan
\* it: either the enumeration of the call or the callback.
CoverageOK ==
    /\ \A r \in Globals : Published(r) =>
          \A i \in Loaded : Covers(r, i) =>
              CleanImage(r, i) \/ CallAhead(r, i) \/ CallbackAhead(r, i)
    /\ \A r \in Locals : pc[r] \in {"inimage", "returned"} =>
          /\ Target[r] \in Loaded
          /\ Covers(r, Target[r]) =>
                CleanImage(r, Target[r]) \/ Scanning(r, r, Target[r])

\* A call that counts images has the callback registered before it does.
RegisteredOK ==
    /\ once = "done" => registered
    /\ \A r \in Globals :
          pc[r] \in {"registering", "count", "enumerate", "returned"} => registered
    /\ \A r \in Globals : pc[r] \notin {"idle", "rejected"} => HasArguments(r)
    /\ \A k \in DOMAIN rest : Published(rest[k])
    /\ \A k \in DOMAIN visit : visit[k] \in Loaded
    /\ \A r \in Globals : index[r] >= 1
    /\ \A r \in Globals : pc[r] \notin {"inimage", "crashed"}

\* The callback scans the image in front of the queue.
CallbackScanOK ==
    scan[Dyld].phase # "idle" =>
        inCallback /\ visit # <<>> /\ visit[1] = scan[Dyld].image

IInv ==
    /\ TypeOK /\ VisitOK /\ RegistryOK /\ RegisteredOK
    /\ \A a \in Actors : ScanOK(a)
    /\ CallbackScanOK /\ CoverageOK

\* Covers is what RorkHookApplyRebind tests, and more.
LEMMA CoversApplies ==
    ASSUME NEW r \in Calls, NEW i \in Images, Covers(r, i)
    PROVE  Applies(r, i) /\ HasArguments(r)
BY DEF Covers, Applies

\* The inductive invariant holds before the first call.
LEMMA InitIInv == Init => IInv
<1> SUFFICES ASSUME Init PROVE IInv
  OBVIOUS
<1>1. \A r \in Calls : pc[r] = "idle"
  BY DEF Init
<1>2. \A a \in Actors : scan[a].phase = "idle"
  BY DEF Init, Idle
<1>3. RegistryOK
  BY <1>1, <1>2 DEF Init, RegistryOK, Published, Calls, Actors
<1>4. RegisteredOK
  BY <1>1 DEF Init, RegisteredOK, Published, Calls
<1>5. CoverageOK
  BY <1>1 DEF CoverageOK, Published, Calls
<1>6. VisitOK
  BY DEF Init, VisitOK
<1>7. CallbackScanOK
  BY <1>2 DEF CallbackScanOK, Actors
<1>8. QED
  BY <1>2, <1>3, <1>4, <1>5, <1>6, <1>7, InitType DEF IInv, ScanOK

-----------------------------------------------------------------------------
(* Steps of a registering call.                                            *)

\* A registering call is past dispatch_once only when the callback is there.
LEMMA GlobalStepRegistered ==
    ASSUME IInv, NEW r \in Globals, GlobalStep(r)
    PROVE  RegisteredOK'
<1> r \in Calls /\ Globals \subseteq Calls
  BY DEF Calls
<1>1. /\ pc \in [Calls -> Phases] /\ rest \in Seq(Globals)
      /\ images \in Seq(Images) /\ index \in [Globals -> Nat]
      /\ RegisteredOK
  BY DEF IInv, TypeOK
<1>2. /\ rest' = rest /\ images' = images
      /\ \A q \in Calls : q # r => pc'[q] = pc[q]
      /\ registered => registered'
      /\ visit' \in {visit, images}
      /\ Published(r) => Published(r)'
      /\ pc'[r] \notin {"idle", "rejected"} => HasArguments(r)
      /\ pc'[r] \notin {"inimage", "crashed"}
      /\ once' = "done" => registered'
      /\ pc'[r] \in {"registering", "count", "enumerate", "returned"} => registered'
  <2> USE <1>1 DEF Goto, Published, RegisteredOK, dyld, registry, calls
  <2>1. CASE Reject(r)
    BY <2>1 DEF Reject
  <2>2. CASE LoadHead(r)
    BY <2>2 DEF LoadHead
  <2>3. CASE Publish(r)
    BY <2>3 DEF Publish
  <2>4. CASE PublishFails(r)
    BY <2>4 DEF PublishFails
  <2>5. CASE OnceEnter(r)
    BY <2>5 DEF OnceEnter
  <2>6. CASE OncePass(r)
    BY <2>6 DEF OncePass
  <2>7. CASE RegisterCallback(r)
    BY <2>7 DEF RegisterCallback
  <2>8. CASE RegisterDone(r)
    BY <2>8 DEF RegisterDone
  <2>9. CASE CountImages(r)
    BY <2>9 DEF CountImages
  <2>10. CASE Enumerate(r)
    BY <2>10 DEF Enumerate
  <2>11. CASE Return(r)
    BY <2>11 DEF Return
  <2>12. QED
    BY <2>1, <2>2, <2>3, <2>4, <2>5, <2>6, <2>7, <2>8, <2>9, <2>10, <2>11
    DEF GlobalStep
<1>3. \A q \in Globals : Published(q) => Published(q)'
  BY <1>2 DEF Published
<1>4. (\A k \in DOMAIN rest : Published(rest[k]))'
  BY <1>1, <1>2, <1>3 DEF RegisteredOK, Published
<1>5. \A k \in DOMAIN visit' : visit'[k] \in Loaded'
  BY <1>1, <1>2 DEF RegisteredOK, Loaded, ToSet
<1>6. \A q \in Globals : pc'[q] \notin {"idle", "rejected"} => HasArguments(q)
  BY <1>1, <1>2 DEF RegisteredOK
<1>7. \A q \in Globals :
         /\ pc'[q] \in {"registering", "count", "enumerate", "returned"} => registered'
         /\ pc'[q] \notin {"inimage", "crashed"}
  BY <1>1, <1>2 DEF RegisteredOK
<1>8. \A q \in Globals : index'[q] >= 1
  <2>1. CASE CountImages(r)
    BY <1>1, <2>1 DEF CountImages, RegisteredOK
  <2>2. CASE Enumerate(r)
    BY <1>1, <2>2 DEF Enumerate, RegisteredOK
  <2>3. CASE index' = index
    BY <1>1, <2>3 DEF RegisteredOK
  <2>4. QED
    BY <2>1, <2>2, <2>3
    DEF GlobalStep, Reject, LoadHead, Publish, PublishFails, OnceEnter,
        OncePass, RegisterCallback, RegisterDone, Return
<1>9. QED
  BY <1>2, <1>4, <1>5, <1>6, <1>7, <1>8 DEF RegisteredOK, HasArguments

\* A scan that an enumerating call or the callback starts has nothing behind it.
LEMMA FreshScanOK ==
    ASSUME NEW r \in Calls, HasArguments(r), NEW i \in Images
    PROVE  /\ StartScan(r, i).phase # "idle" =>
                 /\ StartScan(r, i).rebind = r /\ StartScan(r, i).image = i
                 /\ StartScan(r, i).next = 1 /\ StartScan(r, i).phase = "read"
           /\ CleanBelow(r, i, 1)
<1>1. Layout[i] \in Seq(CellInfo)
  BY ImagesAssumption
<1>2. QED
  BY <1>1 DEF StartScan, Idle, CleanBelow

\* A registering call starts its scans with nothing behind them.
LEMMA GlobalStepScans ==
    ASSUME IInv, NEW r \in Globals, GlobalStep(r)
    PROVE  \A a \in Actors : ScanOK(a)'
<1> r \in Calls /\ r \in Actors
  BY DEF Calls, Actors
<1> USE DEF IInv, Goto, dyld, registry, calls
<1>1. slot' = slot /\ images' = images
  BY DEF GlobalStep, Reject, LoadHead, Publish, PublishFails, OnceEnter,
         OncePass, RegisterCallback, RegisterDone, CountImages, Enumerate, Return
<1>2. ASSUME NEW a \in Actors, scan'[a] = scan[a] PROVE ScanOK(a)'
  BY <1>1, <1>2 DEF ScanOK, Loaded, CleanBelow, Clean
<1>3. CASE Enumerate(r)
  <2>1. ASSUME index[r] \in DOMAIN images PROVE ScanOK(r)'
    <3>0. PICK i \in Images : i = images[index[r]]
      BY <2>1 DEF TypeOK
    <3>1. i \in Loaded
      BY <2>1, <3>0 DEF Loaded, ToSet
    <3>2. HasArguments(r)
      BY <1>3 DEF Enumerate, RegisteredOK, Published
    <3>3. scan'[r] = StartScan(r, i)
      BY <1>3, <2>1, <3>0 DEF Enumerate, TypeOK
    <3>4. CleanBelow(r, i, 1)'
      BY <1>1, <3>1, <3>2, FreshScanOK DEF CleanBelow, Clean
    <3>5. QED
      BY <1>1, <3>1, <3>2, <3>3, <3>4, FreshScanOK DEF ScanOK, Loaded, HasArguments
  <2>2. ASSUME index[r] \notin DOMAIN images PROVE ScanOK(r)'
    BY <1>3, <2>2 DEF Enumerate, TypeOK, ScanOK, Idle
  <2>3. \A a \in Actors : a # r => scan'[a] = scan[a]
    BY <1>3 DEF Enumerate, TypeOK
  <2>4. QED
    BY <1>2, <2>1, <2>2, <2>3
<1>4. CASE ~Enumerate(r)
  <2>1. scan' = scan
    BY <1>4 DEF GlobalStep, Reject, LoadHead, Publish, PublishFails, OnceEnter,
             OncePass, RegisterCallback, RegisterDone, CountImages, Return
  <2>2. QED
    BY <1>2, <2>1
<1>5. QED
  BY <1>3, <1>4

\* What a step leaves to the others: a call that is not part of a step that
\* moves no slot still has ahead of it what it had.
LEMMA CoverageFrame ==
    ASSUME slot' = slot, images' = images,
           NEW q \in Calls, NEW i \in Images,
           pc'[q] = pc[q], scan'[q] = scan[q],
           q \in Globals => index'[q] = index[q] /\ count'[q] = count[q]
    PROVE  /\ CleanImage(q, i)' <=> CleanImage(q, i)
           /\ q \in Globals => (CallAhead(q, i)' <=> CallAhead(q, i))
           /\ Scanning(q, q, i)' <=> Scanning(q, q, i)
           /\ Published(q)' <=> Published(q)
BY DEF CleanImage, Clean, CallAhead, Scanning, Published

\* A registering call takes nothing away from what the callback has ahead of it.
LEMMA GlobalStepCallbackAhead ==
    ASSUME IInv, NEW r \in Globals, GlobalStep(r),
           NEW q \in Globals, NEW i \in Images, CallbackAhead(q, i)
    PROVE  CallbackAhead(q, i)'
<1>1. /\ inCallback' = inCallback /\ rest' = rest
      /\ scan'[Dyld] = scan[Dyld]
  <2>1. Dyld # r /\ Dyld \in Actors /\ scan \in [Actors -> Scans]
    BY ActorsAssumption DEF Calls, Actors, IInv, TypeOK
  <2>2. QED
    BY <2>1
    DEF GlobalStep, Reject, LoadHead, Publish, PublishFails, OnceEnter, OncePass,
        RegisterCallback, RegisterDone, CountImages, Enumerate, Return, dyld
<1>2. CASE RegisterCallback(r)
  <2>1. visit = <<>> /\ ~inCallback
    BY <1>2 DEF RegisterCallback, IInv, VisitOK
  <2>2. Scanning(Dyld, q, i)
    BY <2>1 DEF CallbackAhead
  <2>3. QED
    BY <1>1, <2>2 DEF CallbackAhead, Scanning
<1>3. CASE visit' = visit
  BY <1>1, <1>3 DEF CallbackAhead, Scanning
<1>4. QED
  BY <1>2, <1>3
  DEF GlobalStep, Reject, LoadHead, Publish, PublishFails, OnceEnter, OncePass,
      RegisterDone, CountImages, Enumerate, Return, dyld

\* A registering call that moves on keeps every image it covers clean or ahead
\* of it: the count it takes after publishing names all images loaded by then.
LEMMA GlobalStepCoverage ==
    ASSUME IInv, NEW r \in Globals, GlobalStep(r)
    PROVE  CoverageOK'
<1> r \in Calls /\ Globals \subseteq Calls /\ Locals \subseteq Calls
  BY DEF Calls
<1>1. /\ slot' = slot /\ images' = images /\ Loaded' = Loaded
      /\ \A q \in Calls : q # r => pc'[q] = pc[q] /\ scan'[q] = scan[q]
      /\ \A q \in Globals : q # r => index'[q] = index[q] /\ count'[q] = count[q]
  BY DEF GlobalStep, Reject, LoadHead, Publish, PublishFails, OnceEnter, OncePass,
         RegisterCallback, RegisterDone, CountImages, Enumerate, Return, dyld,
         IInv, TypeOK, Goto, Loaded, Calls, Actors
<1>2. /\ images \in Seq(Images) /\ Loaded \subseteq Images
      /\ pc \in [Calls -> Phases] /\ scan \in [Actors -> Scans]
      /\ count \in [Globals -> Nat] /\ index \in [Globals -> Nat]
      /\ r \in Actors
  BY DEF IInv, TypeOK, Loaded, ToSet, Actors
<1>3. ASSUME NEW q \in Globals, Published(q)', NEW i \in Loaded, Covers(q, i), q # r
      PROVE  CleanImage(q, i)' \/ CallAhead(q, i)' \/ CallbackAhead(q, i)'
  BY <1>1, <1>2, <1>3, CoverageFrame, GlobalStepCallbackAhead DEF IInv, CoverageOK
<1>4. ASSUME Published(r)', NEW i \in Loaded, Covers(r, i)
      PROVE  CleanImage(r, i)' \/ CallAhead(r, i)' \/ CallbackAhead(r, i)'
  <2>1. CASE Reject(r) \/ LoadHead(r) \/ PublishFails(r)
    BY <1>2, <1>4, <2>1 DEF Reject, LoadHead, PublishFails, Goto, Published, calls
  <2>2. CASE \/ Publish(r) \/ OnceEnter(r) \/ OncePass(r)
             \/ RegisterCallback(r) \/ RegisterDone(r)
    BY <1>2, <2>2 DEF Publish, OnceEnter, OncePass, RegisterCallback, RegisterDone,
                      Goto, CallAhead
  <2>3. CASE CountImages(r)
    <3>1. PICK j \in DOMAIN images : images[j] = i
      BY DEF Loaded, ToSet
    <3>2. /\ pc'[r] = "enumerate" /\ index'[r] = 1 /\ count'[r] = Len(images)
          /\ images' = images
      BY <1>1, <1>2, <2>3 DEF CountImages, Goto
    <3>3. 1 <= j /\ j <= Len(images)
      BY <1>2, <3>1
    <3>4. QED
      BY <3>1, <3>2, <3>3 DEF CallAhead
  <2>4. CASE Enumerate(r)
    <3>1. /\ pc[r] = "enumerate" /\ pc' = pc /\ count' = count
          /\ scan[r].phase = "idle" /\ index'[r] = index[r] + 1
      BY <1>2, <2>4 DEF Enumerate
    <3>2. CleanImage(r, i) \/ CallAhead(r, i) \/ CallbackAhead(r, i)
      BY <1>4, <3>1 DEF IInv, CoverageOK, Published
    <3>3. CASE CleanImage(r, i)
      BY <1>1, <3>3 DEF CleanImage, Clean
    <3>4. CASE CallbackAhead(r, i)
      BY <1>2, <3>4, GlobalStepCallbackAhead
    <3>5. CASE CallAhead(r, i)
      <4>1. PICK j \in DOMAIN images : images[j] = i /\ index[r] <= j /\ j <= count[r]
        BY <3>1, <3>5 DEF CallAhead, Scanning
      <4>2. CASE j = index[r]
        <5>1. Applies(r, i)
          BY <1>2, <1>4, CoversApplies
        <5>2. scan'[r] = [phase |-> "read", rebind |-> r, image |-> i, next |-> 1]
          BY <1>2, <2>4, <4>1, <4>2, <5>1 DEF Enumerate, StartScan
        <5>3. QED
          BY <5>2 DEF CallAhead, Scanning
      <4>3. CASE j # index[r]
        <5>1. index'[r] <= j
          BY <1>2, <3>1, <4>1, <4>3
        <5>2. QED
          BY <1>1, <3>1, <4>1, <5>1 DEF CallAhead
      <4>4. QED
        BY <4>2, <4>3
    <3>6. QED
      BY <3>2, <3>3, <3>4, <3>5
  <2>5. CASE Return(r)
    <3>1. /\ pc[r] = "enumerate" /\ scan[r].phase = "idle" /\ index[r] > count[r]
      BY <2>5 DEF Return, Goto
    <3>2. ~CallAhead(r, i)
      BY <1>2, <3>1 DEF CallAhead, Scanning
    <3>3. CleanImage(r, i) \/ CallbackAhead(r, i)
      BY <1>4, <3>1, <3>2 DEF IInv, CoverageOK, Published
    <3>4. QED
      BY <1>1, <1>2, <3>3, GlobalStepCallbackAhead DEF CleanImage, Clean
  <2>6. QED
    BY <2>1, <2>2, <2>3, <2>4, <2>5 DEF GlobalStep
<1>5. ASSUME NEW q \in Locals, pc'[q] \in {"inimage", "returned"}
      PROVE  /\ Target[q] \in Loaded'
             /\ Covers(q, Target[q]) =>
                   CleanImage(q, Target[q])' \/ Scanning(q, q, Target[q])'
  <2>1. q # r /\ Target[q] \in Images
    BY ActorsAssumption, ImagesAssumption
  <2>2. QED
    BY <1>1, <1>5, <2>1, CoverageFrame DEF IInv, CoverageOK
<1>6. QED
  BY <1>1, <1>3, <1>4, <1>5 DEF CoverageOK, Covers, HasArguments

-----------------------------------------------------------------------------
(* Steps of an image-local call.                                           *)

\* An image-local call disturbs no part of the inductive invariant.
LEMMA LocalStepIInv ==
    ASSUME IInv, NEW r \in Locals, LocalStep(r)
    PROVE  /\ RegisteredOK'
           /\ \A a \in Actors : ScanOK(a)'
           /\ CoverageOK'
<1> /\ r \in Calls /\ r \in Actors /\ r \notin Globals /\ r # Dyld
    /\ Globals \subseteq Calls /\ Locals \subseteq Calls
  BY ActorsAssumption DEF Calls, Actors
<1>1. /\ pc \in [Calls -> Phases] /\ scan \in [Actors -> Scans]
      /\ images \in Seq(Images) /\ Target[r] \in Images
  BY ImagesAssumption DEF IInv, TypeOK
<1>2. /\ UNCHANGED <<slot, dyld, registry, head, count, index>>
      /\ Loaded' = Loaded
      /\ \A q \in Calls : q # r => pc'[q] = pc[q]
      /\ \A a \in Actors : a # r => scan'[a] = scan[a]
  BY <1>1 DEF LocalStep, CallInImage, ReturnInImage, Goto, Loaded, dyld
<1>3. RegisteredOK'
  <2>1. /\ \A q \in Globals : pc'[q] = pc[q]
        /\ rest \in Seq(Globals)
    BY <1>2 DEF IInv, TypeOK
  <2>2. (\A k \in DOMAIN rest : Published(rest[k]))'
    BY <1>2, <2>1 DEF IInv, RegisteredOK, Published, dyld
  <2>3. QED
    BY <1>2, <2>1, <2>2 DEF IInv, RegisteredOK, dyld, registry, HasArguments
<1>4. ASSUME NEW a \in Actors, scan'[a] = scan[a] PROVE ScanOK(a)'
  BY <1>2, <1>4 DEF IInv, ScanOK, Loaded, CleanBelow, Clean, HasArguments
<1>5. ScanOK(r)'
  <2>1. CASE CallInImage(r) /\ HasArguments(r)
    <3>1. Target[r] \in Loaded /\ scan'[r] = StartScan(r, Target[r])
      BY <1>1, <2>1 DEF CallInImage
    <3>2. CleanBelow(r, Target[r], 1)'
      BY <1>1, <1>2, <2>1, FreshScanOK DEF CleanBelow, Clean
    <3>3. QED
      BY <1>1, <1>2, <2>1, <3>1, <3>2, FreshScanOK DEF ScanOK, HasArguments
  <2>2. CASE CallInImage(r) /\ ~HasArguments(r)
    BY <1>1, <2>2 DEF CallInImage, ScanOK, Idle
  <2>3. CASE ReturnInImage(r)
    BY <1>4, <2>3 DEF ReturnInImage
  <2>4. QED
    BY <2>1, <2>2, <2>3 DEF LocalStep
<1>6. ASSUME NEW q \in Globals, Published(q)', NEW i \in Loaded, Covers(q, i)
      PROVE  CleanImage(q, i)' \/ CallAhead(q, i)' \/ CallbackAhead(q, i)'
  <2>1. i \in Images /\ q # r /\ q \in Actors /\ Dyld \in Actors
    BY <1>1 DEF Loaded, ToSet, Actors
  <2>2. /\ CleanImage(q, i)' <=> CleanImage(q, i)
        /\ CallAhead(q, i)' <=> CallAhead(q, i)
        /\ Published(q)' <=> Published(q)
    BY <1>2, <2>1, CoverageFrame DEF dyld
  <2>3. CallbackAhead(q, i)' <=> CallbackAhead(q, i)
    BY <1>2, <2>1 DEF CallbackAhead, Scanning, dyld
  <2>4. QED
    BY <1>6, <2>2, <2>3 DEF IInv, CoverageOK
<1>7. ASSUME NEW q \in Locals, q # r, pc'[q] \in {"inimage", "returned"}
      PROVE  /\ Target[q] \in Loaded'
             /\ Covers(q, Target[q]) =>
                   CleanImage(q, Target[q])' \/ Scanning(q, q, Target[q])'
  <2>1. Target[q] \in Images /\ q \in Actors /\ q \notin Globals
    BY ImagesAssumption, ActorsAssumption DEF Actors
  <2>2. /\ CleanImage(q, Target[q])' <=> CleanImage(q, Target[q])
        /\ Scanning(q, q, Target[q])' <=> Scanning(q, q, Target[q])
    BY <1>2, <1>7, <2>1, CoverageFrame DEF dyld
  <2>3. QED
    BY <1>2, <1>7, <2>2 DEF IInv, CoverageOK
<1>8. /\ Target[r] \in Loaded'
      /\ Covers(r, Target[r]) =>
            CleanImage(r, Target[r])' \/ Scanning(r, r, Target[r])'
  <2>1. CASE CallInImage(r)
    <3>1. ASSUME Covers(r, Target[r]) PROVE Scanning(r, r, Target[r])'
      <4>1. Applies(r, Target[r]) /\ HasArguments(r)
        BY <1>1, <3>1, CoversApplies
      <4>2. scan'[r] = StartScan(r, Target[r])
        BY <1>1, <2>1, <4>1 DEF CallInImage
      <4>3. QED
        BY <4>1, <4>2 DEF StartScan, Scanning
    <3>2. QED
      BY <1>2, <2>1, <3>1 DEF CallInImage
  <2>2. CASE ReturnInImage(r)
    <3>1. pc[r] = "inimage" /\ scan[r].phase = "idle"
      BY <2>2 DEF ReturnInImage, Goto
    <3>2. /\ Target[r] \in Loaded
          /\ Covers(r, Target[r]) => CleanImage(r, Target[r])
      BY <3>1 DEF IInv, CoverageOK, Scanning
    <3>3. QED
      BY <1>2, <3>2 DEF CleanImage, Clean
  <2>3. QED
    BY <2>1, <2>2 DEF LocalStep
<1>9. CoverageOK'
  BY <1>2, <1>6, <1>7, <1>8 DEF CoverageOK, Covers, HasArguments
<1>10. QED
  BY <1>2, <1>3, <1>4, <1>5, <1>9

-----------------------------------------------------------------------------
(* Steps of a scan.                                                        *)

\* Without chains, no scan ever installs what another one is looking for.
LEMMA CleanStays ==
    ASSUME Unchained, IInv, NEW a \in Actors, ScanStep(a),
           NEW r \in Calls, HasArguments(r),
           NEW i \in Images, NEW k \in DOMAIN Layout[i], Clean(r, i, k)
    PROVE  Clean(r, i, k)'
<1>1. slot \in [Cells -> Pointers]
  BY DEF IInv, TypeOK
<1>2. CASE slot' = slot
  BY <1>2 DEF Clean
<1>3. CASE StoreSlot(a)
  <2>1. /\ scan[a].rebind \in Calls /\ HasArguments(scan[a].rebind)
        /\ scan[a].image \in Images /\ scan[a].next \in DOMAIN Layout[scan[a].image]
    BY <1>3 DEF StoreSlot, IInv, TypeOK, ScanOK
  <2>2. ScanCell(a) \in Cells
    BY <2>1, CellType DEF ScanCell
  <2>3. FinalValue(scan[a].rebind, ScanCell(a)).addr # Replacee[r].addr
    BY <2>1, <2>2, FinalValueType DEF Unchained
  <2>4. \A c \in Cells : slot'[c] = slot[c] \/ slot'[c].addr # Replacee[r].addr
    BY <1>1, <1>3, <2>2, <2>3 DEF StoreSlot
  <2>5. <<i, k>> \in Cells
    BY CellType
  <2>6. QED
    BY <2>4, <2>5 DEF Clean
<1>4. QED
  BY <1>2, <1>3 DEF ScanStep, SkipSlot, MatchSlot, EndScan

\* A step of a scan extends the clean part of its image by the slot it passes.
LEMMA ScanStepScans ==
    ASSUME Unchained, IInv, NEW a \in Actors, ScanStep(a)
    PROVE  \A b \in Actors : ScanOK(b)'
<1>1. /\ scan \in [Actors -> Scans] /\ slot \in [Cells -> Pointers]
      /\ images' = images /\ Loaded' = Loaded
  BY DEF IInv, TypeOK, ScanStep, SkipSlot, MatchSlot, StoreSlot, EndScan, dyld, Loaded
<1>2. ASSUME NEW r \in Calls, HasArguments(r), NEW i \in Images, NEW n \in Nat,
             CleanBelow(r, i, n)
      PROVE  CleanBelow(r, i, n)'
  BY <1>2, CleanStays DEF CleanBelow
<1>3. ASSUME NEW b \in Actors, scan'[b] = scan[b] PROVE ScanOK(b)'
  <2> SUFFICES ASSUME scan[b].phase # "idle" PROVE ScanOK(b)'
    BY <1>3 DEF ScanOK
  <2>1. ScanOK(b) /\ scan[b].next \in Nat /\ scan[b].image \in Images
    BY <1>1 DEF IInv, TypeOK, Scans
  <2>2. PICK r \in Calls, i \in Images, n \in Nat :
          r = scan[b].rebind /\ i = scan[b].image /\ n = scan[b].next
    BY <2>1 DEF ScanOK
  <2>3. CleanBelow(r, i, n)'
    BY <1>2, <2>1, <2>2 DEF ScanOK
  <2>4. QED
    BY <1>1, <1>3, <2>1, <2>2, <2>3 DEF ScanOK, HasArguments
<1>4. \A b \in Actors : b # a => scan'[b] = scan[b]
  BY <1>1 DEF ScanStep, SkipSlot, MatchSlot, StoreSlot, EndScan, Advanced
<1>5. ScanOK(a)'
  <2>1. CASE EndScan(a)
    BY <1>1, <2>1 DEF EndScan, ScanOK, Idle
  <2>2. CASE ~EndScan(a)
    <3>1. scan[a].phase # "idle"
      BY <2>2 DEF ScanStep, SkipSlot, MatchSlot, StoreSlot
    <3>2. PICK r \in Calls, i \in Images, n \in Nat :
            r = scan[a].rebind /\ i = scan[a].image /\ n = scan[a].next
      BY <1>1, <3>1 DEF IInv, TypeOK, Scans
    <3>3. /\ HasArguments(r) /\ i \in Loaded /\ n >= 1 /\ CleanBelow(r, i, n)
          /\ a \in Calls => r = a
      BY <3>1, <3>2 DEF IInv, ScanOK
    <3>4. CleanBelow(r, i, n)'
      BY <1>2, <3>3
    <3>5. CASE MatchSlot(a)
      <4>1. /\ scan'[a].phase = "store" /\ scan'[a].rebind = r
            /\ scan'[a].image = i /\ scan'[a].next = n /\ n \in DOMAIN Layout[i]
        BY <1>1, <3>2, <3>5 DEF MatchSlot, InLayout, Scans
      <4>2. QED
        BY <1>1, <3>3, <3>4, <4>1 DEF ScanOK, HasArguments
    <3>6. ASSUME scan' = Advanced(a), n \in DOMAIN Layout[i], Clean(r, i, n)'
          PROVE  ScanOK(a)'
      <4>1. /\ scan'[a].phase = "read" /\ scan'[a].rebind = r
            /\ scan'[a].image = i /\ scan'[a].next = n + 1
        BY <1>1, <3>2, <3>6 DEF Advanced
      <4>2. DOMAIN Layout[i] \subseteq Nat
        BY ImagesAssumption
      <4>3. CleanBelow(r, i, n + 1)'
        BY <3>4, <3>6, <4>2 DEF CleanBelow
      <4>4. QED
        BY <1>1, <3>3, <4>1, <4>3 DEF ScanOK, HasArguments
    <3>7. CASE SkipSlot(a)
      <4>1. n \in DOMAIN Layout[i] /\ scan' = Advanced(a) /\ slot' = slot
        BY <3>2, <3>7 DEF SkipSlot, InLayout
      <4>2. ~(IsScanned(<<i, n>>) /\ Resolves(slot[<<i, n>>], r))
        BY <3>2, <3>7 DEF SkipSlot, Matches, ScanCell
      <4>3. <<i, n>> \in Cells
        BY <4>1, CellType
      <4>4. Layout[i][n].type \in {"lazy", "nonlazy", "other"}
        <5>1. Layout[i] \in Seq(CellInfo)
          BY ImagesAssumption
        <5>2. Layout[i][n] \in CellInfo
          BY <4>1, <5>1
        <5>3. QED
          BY <5>2 DEF CellInfo
      <4>5. Clean(r, i, n)
        BY <1>1, <3>3, <4>2, <4>3, <4>4, ResolvesComparesAddresses
        DEF Clean, IsScanned, Cell
      <4>6. QED
        BY <3>6, <4>1, <4>5 DEF Clean
    <3>8. CASE StoreSlot(a)
      <4>1. n \in DOMAIN Layout[i] /\ scan' = Advanced(a)
        BY <3>2, <3>8 DEF StoreSlot, IInv, ScanOK
      <4>2. <<i, n>> \in Cells /\ ScanCell(a) = <<i, n>>
        BY <3>2, <4>1, CellType DEF ScanCell
      <4>3. Layout[i][n].writable => slot'[<<i, n>>] = FinalValue(r, <<i, n>>)
        BY <1>1, <3>2, <3>8, <4>2 DEF StoreSlot, Cell
      <4>4. FinalValue(r, <<i, n>>).addr # Replacee[r].addr
        BY <3>3, <4>2, FinalValueType DEF Unchained
      <4>5. QED
        BY <3>6, <4>1, <4>3, <4>4 DEF Clean
    <3>9. QED
      BY <2>2, <3>5, <3>7, <3>8 DEF ScanStep
  <2>3. QED
    BY <2>1, <2>2
<1>6. QED
  BY <1>3, <1>4, <1>5

\* A step of a scan, its end included, leaves every image clean or ahead.
LEMMA ScanStepCoverage ==
    ASSUME Unchained, IInv, NEW a \in Actors, ScanStep(a)
    PROVE  RegisteredOK' /\ CoverageOK'
<1>1. /\ scan \in [Actors -> Scans] /\ images \in Seq(Images)
      /\ UNCHANGED <<dyld, registry, calls>> /\ Loaded' = Loaded
      /\ Loaded \subseteq Images
  BY DEF IInv, TypeOK, ScanStep, SkipSlot, MatchSlot, StoreSlot, EndScan, dyld,
         Loaded, ToSet
<1>2. RegisteredOK'
  BY <1>1 DEF IInv, RegisteredOK, dyld, registry, calls, Published, HasArguments
<1>3. ASSUME NEW r \in Calls, HasArguments(r), NEW i \in Images, CleanImage(r, i)
      PROVE  CleanImage(r, i)'
  BY <1>3, CleanStays DEF CleanImage
\* A scan that ends has left the whole image clean.
<1>4. ASSUME NEW b \in Actors, NEW r \in Calls, HasArguments(r), NEW i \in Images,
             Scanning(b, r, i)
      PROVE  Scanning(b, r, i)' \/ CleanImage(r, i)'
  <2>1. CASE b = a /\ EndScan(a)
    <3>1. /\ scan[a].next \in Nat /\ scan[a].next >= 1
          /\ scan[a].next \notin DOMAIN Layout[i] /\ CleanBelow(r, i, scan[a].next)
      BY <1>1, <1>4, <2>1 DEF EndScan, InLayout, IInv, ScanOK, Scanning, Scans
    <3>2. Layout[i] \in Seq(CellInfo)
      BY ImagesAssumption
    <3>3. \A k \in DOMAIN Layout[i] : k < scan[a].next
      BY <3>1, <3>2
    <3>4. CleanImage(r, i)
      BY <3>1, <3>3 DEF CleanBelow, CleanImage
    <3>5. QED
      BY <1>3, <1>4, <3>4
  <2>2. CASE b # a
    BY <1>1, <1>4, <2>2
    DEF ScanStep, SkipSlot, MatchSlot, StoreSlot, EndScan, Advanced, Scanning
  <2>3. CASE b = a /\ ~EndScan(a)
    BY <1>1, <1>4, <2>3
    DEF ScanStep, SkipSlot, MatchSlot, StoreSlot, Advanced, Scanning, Scans
  <2>4. QED
    BY <2>1, <2>2, <2>3
<1>5. ASSUME NEW r \in Globals, Published(r)', NEW i \in Loaded, Covers(r, i)
      PROVE  CleanImage(r, i)' \/ CallAhead(r, i)' \/ CallbackAhead(r, i)'
  <2>1. /\ r \in Calls /\ r \in Actors /\ Dyld \in Actors /\ HasArguments(r)
        /\ i \in Images
    BY <1>1, <1>5 DEF Calls, Actors, Covers
  <2>2. CleanImage(r, i) \/ CallAhead(r, i) \/ CallbackAhead(r, i)
    BY <1>1, <1>5 DEF IInv, CoverageOK, Published, calls
  <2>3. CASE CleanImage(r, i)
    BY <1>3, <2>1, <2>3
  <2>4. CASE Scanning(r, r, i) \/ Scanning(Dyld, r, i)
    BY <1>4, <2>1, <2>4 DEF CallAhead, CallbackAhead
  <2>5. CASE CallAhead(r, i) /\ ~Scanning(r, r, i)
    BY <1>1, <2>5 DEF CallAhead, dyld, calls
  <2>6. CASE CallbackAhead(r, i) /\ ~Scanning(Dyld, r, i)
    BY <1>1, <2>6 DEF CallbackAhead, dyld
  <2>7. QED
    BY <2>2, <2>3, <2>4, <2>5, <2>6
<1>6. ASSUME NEW r \in Locals, pc'[r] \in {"inimage", "returned"}
      PROVE  /\ Target[r] \in Loaded'
             /\ Covers(r, Target[r]) =>
                   CleanImage(r, Target[r])' \/ Scanning(r, r, Target[r])'
  <2>1. r \in Calls /\ r \in Actors /\ Target[r] \in Images
    BY ImagesAssumption DEF Calls, Actors
  <2>2. /\ Target[r] \in Loaded
        /\ Covers(r, Target[r]) =>
              CleanImage(r, Target[r]) \/ Scanning(r, r, Target[r])
    BY <1>1, <1>6 DEF IInv, CoverageOK, calls
  <2>3. QED
    BY <1>1, <1>3, <1>4, <2>1, <2>2 DEF Covers
<1>7. CoverageOK'
  BY <1>1, <1>5, <1>6 DEF CoverageOK, Covers, HasArguments
<1>8. QED
  BY <1>2, <1>7

-----------------------------------------------------------------------------
(* Steps of the callback.                                                  *)

\* RorkHookHandleImageAdded goes through the list it found and keeps the
\* inductive invariant.
LEMMA CallbackStepIInv ==
    ASSUME IInv, CallbackStep
    PROVE  /\ RegisteredOK'
           /\ \A a \in Actors : ScanOK(a)'
           /\ CoverageOK'
<1>1. /\ scan \in [Actors -> Scans] /\ images \in Seq(Images)
      /\ visit \in Seq(Images) /\ rest \in Seq(Globals) /\ gRebinds \in Seq(Globals)
      /\ inCallback \in BOOLEAN
      /\ slot' = slot /\ images' = images /\ Loaded' = Loaded
      /\ UNCHANGED <<registered, registry, calls>>
      /\ Loaded \subseteq Images
      /\ Dyld \in Actors /\ Dyld \notin Calls /\ Globals \subseteq Calls
      /\ Calls \subseteq Actors
  <2>1. /\ scan \in [Actors -> Scans] /\ images \in Seq(Images)
        /\ visit \in Seq(Images) /\ rest \in Seq(Globals)
        /\ gRebinds \in Seq(Globals) /\ inCallback \in BOOLEAN
    BY DEF IInv, TypeOK
  <2>2. /\ slot' = slot /\ images' = images /\ Loaded' = Loaded
        /\ UNCHANGED <<registered, registry, calls>>
    BY DEF CallbackStep, CallbackStart, CallbackApply, CallbackReturn, Loaded,
           registry, calls
  <2>3. Loaded \subseteq Images
    BY <2>1 DEF Loaded, ToSet
  <2>4. /\ Dyld \in Actors /\ Dyld \notin Calls /\ Globals \subseteq Calls
        /\ Calls \subseteq Actors
    BY ActorsAssumption DEF Actors, Calls
  <2>5. QED
    BY <2>1, <2>2, <2>3, <2>4
<1>2. inCallback => visit # <<>>
  BY DEF IInv, VisitOK
<1>3. \A a \in Actors : a # Dyld => scan'[a] = scan[a]
  BY <1>1 DEF CallbackStep, CallbackStart, CallbackApply, CallbackReturn
<1>4. RegisteredOK'
  <2>1. CASE CallbackStart
    <3>1. (\A k \in DOMAIN rest : Published(rest[k]))'
      <4>1. \A k \in DOMAIN gRebinds : gRebinds[k] \in Globals /\ Published(gRebinds[k])
        BY <1>1 DEF IInv, RegistryOK
      <4>2. rest' = gRebinds
        BY <2>1 DEF CallbackStart
      <4>3. QED
        BY <1>1, <4>1, <4>2 DEF Published, calls
    <3>2. QED
      BY <1>1, <2>1, <3>1
      DEF CallbackStart, IInv, RegisteredOK, registry, calls, HasArguments
  <2>2. CASE CallbackApply
    <3>1. rest # <<>> /\ rest' = Tail(rest) /\ visit' = visit
      BY <2>2 DEF CallbackApply
    <3>2. (\A k \in DOMAIN rest : Published(rest[k]))'
      <4>1. \A k \in DOMAIN rest' : k + 1 \in DOMAIN rest /\ rest'[k] = rest[k + 1]
        BY <1>1, <3>1
      <4>2. QED
        BY <1>1, <4>1 DEF IInv, RegisteredOK, Published, calls
    <3>3. QED
      BY <1>1, <3>1, <3>2 DEF IInv, RegisteredOK, registry, calls, HasArguments
  <2>3. CASE CallbackReturn
    <3>1. visit # <<>> /\ visit' = Tail(visit) /\ rest' = rest
      BY <1>2, <2>3 DEF CallbackReturn
    <3>2. \A k \in DOMAIN visit' : k + 1 \in DOMAIN visit /\ visit'[k] = visit[k + 1]
      BY <1>1, <3>1
    <3>3. (\A k \in DOMAIN rest : Published(rest[k]))'
      BY <1>1, <3>1 DEF IInv, RegisteredOK, Published, calls
    <3>4. QED
      BY <1>1, <3>1, <3>2, <3>3 DEF IInv, RegisteredOK, registry, calls, HasArguments
  <2>4. QED
    BY <2>1, <2>2, <2>3 DEF CallbackStep
<1>5. ASSUME NEW a \in Actors, scan'[a] = scan[a] PROVE ScanOK(a)'
  BY <1>1, <1>5 DEF IInv, ScanOK, CleanBelow, Clean, HasArguments
<1>6. ScanOK(Dyld)'
  <2>1. CASE CallbackApply
    <3>1. rest # <<>> /\ visit # <<>>
      BY <1>2, <2>1 DEF CallbackApply
    <3>2. PICK r \in Globals, i \in Images : r = Head(rest) /\ i = Head(visit)
      BY <1>1, <3>1
    <3>3. r = rest[1] /\ 1 \in DOMAIN rest /\ i = visit[1] /\ 1 \in DOMAIN visit
      BY <1>1, <3>1, <3>2
    <3>4. HasArguments(r) /\ i \in Loaded
      BY <3>3 DEF IInv, RegisteredOK, Published
    <3>5. scan'[Dyld] = StartScan(r, i)
      BY <1>1, <2>1, <3>2 DEF CallbackApply
    <3>6. CleanBelow(r, i, 1)'
      BY <1>1, <3>4, FreshScanOK DEF CleanBelow, Clean
    <3>7. QED
      BY <1>1, <3>4, <3>5, <3>6, FreshScanOK DEF ScanOK, HasArguments
  <2>2. CASE CallbackStart \/ CallbackReturn
    BY <1>1, <1>5, <2>2 DEF CallbackStart, CallbackReturn
  <2>3. QED
    BY <2>1, <2>2 DEF CallbackStep
<1>7. ASSUME NEW r \in Globals, Published(r), NEW i \in Loaded, Covers(r, i),
             CallbackAhead(r, i)
      PROVE  CallbackAhead(r, i)'
  <2>1. CASE CallbackStart
    <3>1. /\ visit # <<>> /\ ~inCallback /\ inCallback' /\ visit' = visit
          /\ rest' = gRebinds /\ scan' = scan
      BY <2>1 DEF CallbackStart
    <3>2. \E j \in DOMAIN rest' : rest'[j] = r
      BY <1>7, <3>1 DEF IInv, RegistryOK
    <3>3. CASE Scanning(Dyld, r, i)
      BY <3>1, <3>3 DEF CallbackAhead, Scanning
    <3>4. CASE ~Scanning(Dyld, r, i)
      <4>1. PICK j \in DOMAIN visit : visit[j] = i
        BY <1>7, <3>1, <3>4 DEF CallbackAhead
      <4>2. CASE j = 1
        BY <3>1, <3>2, <4>1, <4>2 DEF CallbackAhead
      <4>3. CASE j > 1
        BY <3>1, <4>1, <4>3 DEF CallbackAhead
      <4>4. QED
        BY <1>1, <4>2, <4>3
    <3>5. QED
      BY <3>3, <3>4
  <2>2. CASE CallbackApply
    <3>1. /\ inCallback /\ rest # <<>> /\ scan[Dyld].phase = "idle"
          /\ rest' = Tail(rest) /\ visit' = visit /\ inCallback' = inCallback
          /\ visit # <<>>
          /\ scan'[Dyld] = StartScan(Head(rest), Head(visit))
      BY <1>1, <1>2, <2>2 DEF CallbackApply
    <3>2. CASE \E j \in DOMAIN visit : visit[j] = i /\ (j > 1 \/ ~inCallback)
      BY <3>1, <3>2 DEF CallbackAhead
    <3>3. ASSUME visit[1] = i, NEW j \in DOMAIN rest, rest[j] = r
          PROVE  CallbackAhead(r, i)'
      <4>1. CASE j = 1
        <5>1. Head(rest) = r /\ Head(visit) = i
          BY <1>1, <3>1, <3>3, <4>1
        <5>2. Applies(r, i)
          BY <1>1, <1>7, CoversApplies
        <5>3. scan'[Dyld] = [phase |-> "read", rebind |-> r, image |-> i, next |-> 1]
          BY <3>1, <5>1, <5>2 DEF StartScan
        <5>4. QED
          BY <5>3 DEF CallbackAhead, Scanning
      <4>2. CASE j # 1
        <5>1. j - 1 \in DOMAIN rest' /\ rest'[j - 1] = rest[j]
          BY <1>1, <3>1, <3>3, <4>2
        <5>2. QED
          BY <3>1, <3>3, <5>1 DEF CallbackAhead
      <4>3. QED
        BY <4>1, <4>2
    <3>4. QED
      BY <1>7, <3>1, <3>2, <3>3 DEF CallbackAhead, Scanning
  <2>3. CASE CallbackReturn
    <3>1. /\ inCallback /\ rest = <<>> /\ scan[Dyld].phase = "idle"
          /\ visit # <<>> /\ visit' = Tail(visit) /\ inCallback' = FALSE
      BY <1>2, <2>3 DEF CallbackReturn
    <3>2. PICK j \in DOMAIN visit : visit[j] = i /\ j > 1
      BY <1>7, <3>1 DEF CallbackAhead, Scanning
    <3>3. j - 1 \in DOMAIN visit' /\ visit'[j - 1] = i
      BY <1>1, <3>1, <3>2
    <3>4. QED
      BY <3>1, <3>3 DEF CallbackAhead
  <2>4. QED
    BY <2>1, <2>2, <2>3 DEF CallbackStep
<1>8. CoverageOK'
  <2>1. ASSUME NEW q \in Calls, NEW i \in Images
        PROVE  /\ CleanImage(q, i)' <=> CleanImage(q, i)
               /\ q \in Globals => (CallAhead(q, i)' <=> CallAhead(q, i))
               /\ Scanning(q, q, i)' <=> Scanning(q, q, i)
               /\ Published(q)' <=> Published(q)
    BY <1>1, <1>3, CoverageFrame DEF calls
  <2>2. ASSUME NEW r \in Globals, Published(r)', NEW i \in Loaded, Covers(r, i)
        PROVE  CleanImage(r, i)' \/ CallAhead(r, i)' \/ CallbackAhead(r, i)'
    BY <1>1, <1>7, <2>1, <2>2 DEF IInv, CoverageOK
  <2>3. ASSUME NEW r \in Locals, pc'[r] \in {"inimage", "returned"}
        PROVE  /\ Target[r] \in Loaded'
               /\ Covers(r, Target[r]) =>
                     CleanImage(r, Target[r])' \/ Scanning(r, r, Target[r])'
    <3>1. r \in Calls /\ Target[r] \in Images
      BY ImagesAssumption DEF Calls
    <3>2. QED
      BY <1>1, <2>1, <2>3, <3>1 DEF IInv, CoverageOK, calls
  <2>4. QED
    BY <1>1, <2>2, <2>3 DEF CoverageOK, Covers, HasArguments
<1>9. QED
  BY <1>3, <1>4, <1>5, <1>6, <1>8

-----------------------------------------------------------------------------
(* Steps of dyld.                                                          *)

\* A list with one more element behind the others.
LEMMA AppendFacts ==
    ASSUME NEW S, NEW s \in Seq(S), NEW x \in S, NEW t, t = Append(s, x)
    PROVE  /\ \A j \in DOMAIN s : j \in DOMAIN t /\ t[j] = s[j]
           /\ \A j \in DOMAIN t : t[j] = x \/ (j \in DOMAIN s /\ t[j] = s[j])
           /\ Len(s) + 1 \in DOMAIN t /\ t[Len(s) + 1] = x
<1>1. /\ t \in Seq(S) /\ Len(t) = Len(s) + 1 /\ t[Len(s) + 1] = x
      /\ \A j \in 1 .. Len(s) : t[j] = s[j]
  BY AppendProperties
<1>2. /\ DOMAIN s = 1 .. Len(s) /\ DOMAIN t = 1 .. Len(s) + 1 /\ Len(s) \in Nat
  BY <1>1
<1>3. QED
  BY <1>1, <1>2

\* A new image is handed to the callback, or no call has counted images yet.
LEMMA LoadImageIInv ==
    ASSUME IInv, NEW n \in Images, LoadImage(n)
    PROVE  /\ RegisteredOK'
           /\ \A a \in Actors : ScanOK(a)'
           /\ CoverageOK'
<1>1. /\ scan \in [Actors -> Scans] /\ images \in Seq(Images)
      /\ visit \in Seq(Images) /\ slot \in [Cells -> Pointers]
      /\ registered \in BOOLEAN /\ pc \in [Calls -> Phases]
      /\ inCallback => visit # <<>>
  BY DEF IInv, TypeOK, VisitOK
<1>2. /\ UNCHANGED <<registered, inCallback, rest, registry, calls, scan>>
      /\ images' = Append(images, n) /\ n \notin Loaded
      /\ visit' = IF registered THEN Append(visit, n) ELSE visit
  BY DEF LoadImage
<1>3. /\ \A j \in DOMAIN images : j \in DOMAIN images' /\ images'[j] = images[j]
      /\ Loaded' = Loaded \union {n}
      /\ Loaded \subseteq Images
  <2>1. images' = Append(images, n)
    BY <1>2
  <2>2. /\ \A j \in DOMAIN images : j \in DOMAIN images' /\ images'[j] = images[j]
        /\ \A j \in DOMAIN images' :
              images'[j] = n \/ (j \in DOMAIN images /\ images'[j] = images[j])
        /\ \E j \in DOMAIN images' : images'[j] = n
    <3>1. Len(images) + 1 \in DOMAIN images' /\ images'[Len(images) + 1] = n
      BY ONLY <1>1, <2>1, n \in Images, AppendFacts
    <3>2. \A j \in DOMAIN images : j \in DOMAIN images' /\ images'[j] = images[j]
      BY ONLY <1>1, <2>1, n \in Images, AppendFacts
    <3>3. \A j \in DOMAIN images' :
             images'[j] = n \/ (j \in DOMAIN images /\ images'[j] = images[j])
      BY ONLY <1>1, <2>1, n \in Images, AppendFacts
    <3>4. QED
      BY ONLY <3>1, <3>2, <3>3
  <2>3. ASSUME NEW y PROVE y \in Loaded' <=> y \in Loaded \/ y = n
    <3>1. y \in Loaded' <=> \E j \in DOMAIN images' : images'[j] = y
      BY DEF Loaded, ToSet
    <3>2. y \in Loaded <=> \E j \in DOMAIN images : images[j] = y
      BY DEF Loaded, ToSet
    <3>3. QED
      BY ONLY <2>2, <3>1, <3>2
  <2>4. Loaded \subseteq Images
    BY <1>1 DEF Loaded, ToSet
  <2>5. QED
    BY <2>2, <2>3, <2>4
<1>4. /\ \A j \in DOMAIN visit : j \in DOMAIN visit' /\ visit'[j] = visit[j]
      /\ \A j \in DOMAIN visit' : visit'[j] = n \/ (j \in DOMAIN visit /\ visit'[j] = visit[j])
  <2>1. CASE registered
    <3>1. visit' = Append(visit, n)
      BY <1>2, <2>1
    <3>2. QED
      BY ONLY <1>1, <3>1, n \in Images, AppendFacts
  <2>2. CASE ~registered
    BY <1>2, <2>2
  <2>3. QED
    BY <2>1, <2>2
<1>5. ASSUME NEW r \in Calls, NEW i \in Images, i # n, NEW k \in DOMAIN Layout[i]
      PROVE  Clean(r, i, k)' <=> Clean(r, i, k)
  <2>1. <<i, k>> \in Cells
    BY CellType
  <2>2. slot'[<<i, k>>] = slot[<<i, k>>]
    BY <1>5, <2>1 DEF LoadImage
  <2>3. QED
    BY <2>2 DEF Clean
<1>6. RegisteredOK'
  BY <1>2, <1>3, <1>4
  DEF IInv, RegisteredOK, registry, calls, Published, HasArguments
<1>7. ASSUME NEW a \in Actors PROVE ScanOK(a)'
  <2> SUFFICES ASSUME scan[a].phase # "idle" PROVE ScanOK(a)'
    BY <1>2 DEF ScanOK
  <2>1. ScanOK(a)
    BY DEF IInv
  <2>2. PICK r \in Calls, i \in Images : r = scan[a].rebind /\ i = scan[a].image
    BY DEF IInv, TypeOK
  <2>3. i \in Loaded /\ i # n
    BY <1>2, <2>1, <2>2 DEF ScanOK
  <2>4. CleanBelow(r, i, scan[a].next)'
    BY <1>2, <1>5, <2>1, <2>2, <2>3 DEF ScanOK, CleanBelow
  <2>5. QED
    BY <1>2, <1>3, <2>1, <2>2, <2>3, <2>4 DEF ScanOK, HasArguments
<1>8. ASSUME NEW r \in Globals, Published(r)', NEW i \in Loaded', Covers(r, i)
      PROVE  CleanImage(r, i)' \/ CallAhead(r, i)' \/ CallbackAhead(r, i)'
  <2>1. r \in Calls /\ i \in Images /\ Published(r)
    BY <1>2, <1>3, <1>8 DEF Calls, Published, calls
  <2>2. CASE i = n /\ registered
    <3>1. /\ Len(visit) + 1 \in DOMAIN visit' /\ visit'[Len(visit) + 1] = n
      BY <1>1, <1>2, <2>2
    <3>2. inCallback' => Len(visit) + 1 > 1
      BY <1>1, <1>2
    <3>3. QED
      BY <2>2, <3>1, <3>2 DEF CallbackAhead
  <2>3. CASE i = n /\ ~registered
    <3>1. /\ pc[r] \notin {"registering", "count", "enumerate", "returned"}
          /\ pc[r] \notin {"inimage", "crashed"}
      BY <2>3 DEF IInv, RegisteredOK
    <3>2. pc[r] \in {"once", "register"}
      BY <1>1, <2>1, <3>1 DEF Published, Phases
    <3>3. QED
      BY <1>2, <3>2 DEF CallAhead, calls
  <2>4. CASE i # n
    <3>1. i \in Loaded
      BY <1>3, <1>8, <2>4
    <3>2. CleanImage(r, i) \/ CallAhead(r, i) \/ CallbackAhead(r, i)
      BY <1>8, <2>1, <3>1 DEF IInv, CoverageOK
    <3>3. CleanImage(r, i) => CleanImage(r, i)'
      BY <1>5, <2>1, <2>4 DEF CleanImage
    <3>4. CallAhead(r, i) => CallAhead(r, i)'
      BY <1>2, <1>3 DEF CallAhead, Scanning, calls
    <3>5. CallbackAhead(r, i) => CallbackAhead(r, i)'
      <4>1. inCallback /\ visit[1] = i => visit'[1] = i
        BY <1>1, <1>4
      <4>2. QED
        BY <1>2, <1>4, <4>1 DEF CallbackAhead, Scanning
    <3>6. QED
      BY <3>2, <3>3, <3>4, <3>5
  <2>5. QED
    BY <1>1, <2>2, <2>3, <2>4
<1>9. ASSUME NEW r \in Locals, pc'[r] \in {"inimage", "returned"}
      PROVE  /\ Target[r] \in Loaded'
             /\ Covers(r, Target[r]) =>
                   CleanImage(r, Target[r])' \/ Scanning(r, r, Target[r])'
  <2>1. r \in Calls /\ Target[r] \in Images
    BY ImagesAssumption DEF Calls
  <2>2. /\ Target[r] \in Loaded
        /\ Covers(r, Target[r]) =>
              CleanImage(r, Target[r]) \/ Scanning(r, r, Target[r])
    BY <1>2, <1>9 DEF IInv, CoverageOK, calls
  <2>3. CleanImage(r, Target[r]) => CleanImage(r, Target[r])'
    BY <1>2, <1>5, <2>1, <2>2 DEF CleanImage
  <2>4. QED
    BY <1>2, <1>3, <2>2, <2>3 DEF Scanning
<1>10. CoverageOK'
  BY <1>8, <1>9 DEF CoverageOK, Covers, HasArguments
<1>11. QED
  BY <1>6, <1>7, <1>10

\* Only the callback starts scans of its own, and it stays with the image in
\* front of the queue until they are over.
LEMMA NextCallbackScan ==
    ASSUME IInv, Next
    PROVE  CallbackScanOK'
<1>1. /\ scan \in [Actors -> Scans] /\ visit \in Seq(Images) /\ images \in Seq(Images)
      /\ Dyld \in Actors /\ Dyld \notin Calls /\ CallbackScanOK
      /\ inCallback => visit # <<>>
      /\ loader = None => visit = <<>>
  BY ActorsAssumption DEF IInv, TypeOK, Actors, VisitOK
<1>2. ASSUME UNCHANGED <<visit, inCallback>>, scan'[Dyld] = scan[Dyld]
      PROVE  CallbackScanOK'
  BY <1>1, <1>2 DEF CallbackScanOK
<1>3. ASSUME NEW r \in Globals, GlobalStep(r) PROVE CallbackScanOK'
  <2>1. r # Dyld
    BY <1>1 DEF Calls
  <2>2. CASE RegisterCallback(r)
    BY <1>1, <2>2 DEF RegisterCallback, CallbackScanOK
  <2>3. CASE ~RegisterCallback(r)
    BY <1>1, <1>2, <1>3, <2>1, <2>3
    DEF GlobalStep, Reject, LoadHead, Publish, PublishFails, OnceEnter, OncePass,
        RegisterDone, CountImages, Enumerate, Return, dyld
  <2>4. QED
    BY <2>2, <2>3
<1>4. ASSUME NEW r \in Locals, LocalStep(r) PROVE CallbackScanOK'
  <2>1. r # Dyld
    BY <1>1 DEF Calls
  <2>2. QED
    BY <1>1, <1>2, <1>4, <2>1 DEF LocalStep, CallInImage, ReturnInImage, dyld
<1>5. ASSUME NEW a \in Actors, ScanStep(a) PROVE CallbackScanOK'
  <2>1. UNCHANGED <<visit, inCallback>>
    BY <1>5 DEF ScanStep, SkipSlot, MatchSlot, StoreSlot, EndScan, dyld
  <2>2. scan'[Dyld].phase # "idle" =>
           scan[Dyld].phase # "idle" /\ scan'[Dyld].image = scan[Dyld].image
    BY <1>1, <1>5 DEF ScanStep, SkipSlot, MatchSlot, StoreSlot, EndScan, Advanced,
                      Scans, Idle
  <2>3. QED
    BY <1>1, <2>1, <2>2 DEF CallbackScanOK
<1>6. ASSUME NEW r \in Calls, FaultInScan(r) PROVE CallbackScanOK'
  BY <1>1, <1>2, <1>6 DEF FaultInScan, dyld
<1>7. CASE CallbackStep
  <2>1. CASE CallbackStart
    BY <1>1, <2>1 DEF CallbackStart, CallbackScanOK
  <2>2. CASE CallbackApply
    <3>1. /\ inCallback' /\ visit' = visit /\ visit # <<>>
          /\ scan'[Dyld] = StartScan(Head(rest), Head(visit))
      BY <1>1, <2>2 DEF CallbackApply
    <3>2. scan'[Dyld].phase # "idle" => scan'[Dyld].image = Head(visit)
      BY <3>1 DEF StartScan, Idle
    <3>3. Head(visit) = visit[1]
      BY <1>1, <3>1
    <3>4. QED
      BY <3>1, <3>2, <3>3 DEF CallbackScanOK
  <2>3. CASE CallbackReturn
    BY <2>3 DEF CallbackReturn, CallbackScanOK
  <2>4. QED
    BY <1>7, <2>1, <2>2, <2>3 DEF CallbackStep
<1>8. ASSUME NEW i \in Images, LoadImage(i) PROVE CallbackScanOK'
  <2>1. visit # <<>> => visit' # <<>> /\ visit'[1] = visit[1]
    <3>1. visit # <<>> => Append(visit, i) # <<>> /\ Append(visit, i)[1] = visit[1]
      BY <1>1
    <3>2. QED
      BY <1>8, <3>1 DEF LoadImage
  <2>2. QED
    BY <1>8, <1>1, <2>1 DEF LoadImage, CallbackScanOK
<1>9. CASE LoadDone \/ (\E k \in DOMAIN images : UnloadImage(k)) \/ Terminated
  BY <1>2, <1>9 DEF LoadDone, UnloadImage, Terminated, vars, dyld
<1>10. QED
  BY <1>3, <1>4, <1>5, <1>6, <1>7, <1>8, <1>9 DEF Next

\* Every step keeps the inductive invariant.
LEMMA NextIInv ==
    ASSUME Unchained, Unloadable = {}, IInv, [Next]_vars
    PROVE  IInv'
<1>1. TypeOK' /\ VisitOK' /\ RegistryOK' /\ CallbackScanOK'
  <2>1. CASE Next
    BY <2>1, NextType, NextVisit, NextRegistry, NextCallbackScan DEF IInv
  <2>2. CASE UNCHANGED vars
    BY <2>2 DEF IInv, TypeOK, VisitOK, RegistryOK, CallbackScanOK, Published, vars,
                dyld, registry, calls
  <2>3. QED
    BY <2>1, <2>2
<1> DEFINE Rest == RegisteredOK /\ (\A a \in Actors : ScanOK(a)) /\ CoverageOK
<1>2. ASSUME UNCHANGED <<slot, images, registered, visit, inCallback, rest,
                         registry, calls, scan>>
      PROVE  Rest'
  BY <1>2
  DEF IInv, RegisteredOK, ScanOK, CoverageOK, CleanBelow, CleanImage, Clean, Covers,
      HasArguments, CallAhead, CallbackAhead, Scanning, Published, Loaded, registry,
      calls
<1>3. ASSUME NEW r \in Globals, GlobalStep(r) PROVE Rest'
  BY <1>3, GlobalStepRegistered, GlobalStepScans, GlobalStepCoverage
<1>4. ASSUME NEW r \in Locals, LocalStep(r) PROVE Rest'
  BY <1>4, LocalStepIInv
<1>5. ASSUME NEW a \in Actors, ScanStep(a) PROVE Rest'
  BY <1>5, ScanStepScans, ScanStepCoverage
<1>6. ASSUME NEW r \in Calls PROVE ~FaultInScan(r)
  BY DEF FaultInScan, Mapped, IInv, ScanOK, Actors
<1>7. ASSUME CallbackStep PROVE Rest'
  BY <1>7, CallbackStepIInv
<1>8. ASSUME NEW i \in Images, LoadImage(i) PROVE Rest'
  BY <1>8, LoadImageIInv
<1>9. ASSUME LoadDone PROVE Rest'
  BY <1>2, <1>9 DEF LoadDone
<1>10. ASSUME NEW k \in DOMAIN images PROVE ~UnloadImage(k)
  BY DEF UnloadImage
<1>11. ASSUME Terminated \/ UNCHANGED vars PROVE Rest'
  BY <1>2, <1>11 DEF Terminated, vars, dyld
<1>12. Rest'
  BY <1>3, <1>4, <1>5, <1>6, <1>7, <1>8, <1>9, <1>10, <1>11 DEF Next
<1>13. QED
  BY <1>1, <1>12 DEF IInv

\* The registration gap is closed: as long as rebinds do not chain and no image
\* is unloaded, no image that a returned call covers still calls the replacee,
\* whatever the number of registrations and loads and however they interleave.
THEOREM GapIsClosed ==
    ASSUME Unchained, Unloadable = {}
    PROVE  Spec => []Redirected
<1>1. Init => IInv
  BY InitIInv
<1>2. IInv /\ [Next]_vars => IInv'
  BY NextIInv
<1>3. IInv => Redirected
  <2> SUFFICES ASSUME IInv, NEW r \in Calls, pc[r] = "returned",
                      NEW i \in Loaded \ ToSet(visit), Covers(r, i)
               PROVE  ~StillCalls(r, i)
    BY DEF Redirected
  <2>1. scan[r].phase = "idle"
    BY DEF IInv, RegistryOK
  <2>2. \A k \in DOMAIN visit : visit[k] # i
    BY DEF ToSet
  <2>3. CleanImage(r, i)
    <3>1. CASE r \in Locals
      <4>1. i = Target[r]
        BY <3>1 DEF Covers
      <4>2. QED
        BY <2>1, <3>1, <4>1 DEF IInv, CoverageOK, Scanning
    <3>2. CASE r \in Globals
      <4>1. ~CallAhead(r, i)
        BY <2>1 DEF CallAhead, Scanning
      <4>2. visit # <<>> => visit[1] # i
        BY <2>2 DEF IInv, TypeOK
      <4>3. ~CallbackAhead(r, i)
        BY <2>2, <4>2 DEF CallbackAhead, Scanning, IInv, VisitOK, CallbackScanOK
      <4>4. QED
        BY <3>2, <4>1, <4>3 DEF IInv, CoverageOK, Published
    <3>3. QED
      BY <3>1, <3>2 DEF Calls
  <2>4. QED
    BY <2>3 DEF CleanImage, Clean, StillCalls
<1>4. QED
  BY <1>1, <1>2, <1>3, PTL DEF Spec

-----------------------------------------------------------------------------
(***************************************************************************)
(* What GlobalRebind does to the symbol pointers, whatever images dlclose  *)
(* unloads.  A store does not look again at the slot that its scan read    *)
(* before.  What it may find there by then is what the invariants below    *)
(* are about.                                                              *)
(***************************************************************************)
-----------------------------------------------------------------------------
(* What a step may do to the slots and to the scans.                       *)

\* Only a load and the store of a scan write to slots.
LEMMA SlotKinds ==
    ASSUME Next
    PROVE  \/ slot' = slot
           \/ \E i \in Images : LoadImage(i)
           \/ \E a \in Actors : StoreSlot(a)
<1>1. ASSUME NEW r \in Globals, GlobalStep(r) PROVE slot' = slot
  BY <1>1 DEF GlobalStep, Reject, LoadHead, Publish, PublishFails, OnceEnter, OncePass,
              RegisterCallback, RegisterDone, CountImages, Enumerate, Return
<1>2. ASSUME NEW r \in Locals, LocalStep(r) PROVE slot' = slot
  BY <1>2 DEF LocalStep, CallInImage, ReturnInImage
<1>3. ASSUME NEW a \in Actors, ScanStep(a), ~StoreSlot(a) PROVE slot' = slot
  BY <1>3 DEF ScanStep, SkipSlot, MatchSlot, EndScan
<1>4. ASSUME NEW r \in Calls, FaultInScan(r) PROVE slot' = slot
  BY <1>4 DEF FaultInScan
<1>5. CASE CallbackStep \/ LoadDone \/ Terminated \/ \E k \in DOMAIN images : UnloadImage(k)
  BY <1>5 DEF CallbackStep, CallbackStart, CallbackApply, CallbackReturn, LoadDone, Terminated,
              UnloadImage, vars
<1> QED
  BY <1>1, <1>2, <1>3, <1>4, <1>5 DEF Next

\* The image i, to which b may now begin to apply r: a call applies its own
\* rebind, the callback the next one of its list.
Fresh(b, r, i) ==
    /\ Applies(r, i)
    /\ \/ b \in Globals /\ r = b /\ pc[b] = "enumerate"
       \/ b \in Locals /\ r = b /\ i = Target[b] /\ HasArguments(b)
       \/ b = Dyld /\ 1 \in DOMAIN rest /\ r = rest[1]

Begun(r, i) == [phase |-> "read", rebind |-> r, image |-> i, next |-> 1]

Same(s) == [phase |-> "read", rebind |-> s.rebind, image |-> s.image, next |-> s.next + 1]

\* StartScan begins a scan or leaves the actor idle.
LEMMA StartScanKinds ==
    ASSUME NEW r, NEW i
    PROVE  StartScan(r, i) = Idle \/ (Applies(r, i) /\ StartScan(r, i) = Begun(r, i))
BY DEF StartScan, Begun

\* What a step may do to the scan of b: leave it, end it, find a match, go on to
\* the next cell or begin.
ScanStays(b) ==
    \/ scan'[b] = scan[b]
    \/ scan'[b] = Idle
    \/ MatchSlot(b)
    \/ scan[b].phase # "idle" /\ scan'[b] = Same(scan[b])
    \/ \E r \in Calls, i \in Images : Fresh(b, r, i) /\ scan'[b] = Begun(r, i)

LEMMA ScanKinds ==
    ASSUME TypeOK, VisitOK, Next, NEW b \in Actors
    PROVE  ScanStays(b)
<1>0. DOMAIN scan = Actors
  BY DEF TypeOK
<1>1. ASSUME NEW r \in Globals, GlobalStep(r) PROVE ScanStays(b)
  <2>1. CASE Enumerate(r)
    <3>1. CASE b # r
      BY <2>1, <3>1 DEF ScanStays, Enumerate
    <3>2. CASE b = r /\ index[r] \in DOMAIN images
      <4>1. images[index[r]] \in Images
        BY <3>2 DEF TypeOK
      <4>2. scan'[b] = StartScan(r, images[index[r]]) /\ pc[r] = "enumerate"
        BY <1>0, <2>1, <3>2 DEF Enumerate
      <4> QED
        BY <3>2, <4>1, <4>2, StartScanKinds DEF ScanStays, Fresh, Calls
    <3>3. CASE b = r /\ index[r] \notin DOMAIN images
      BY <1>0, <2>1, <3>3 DEF ScanStays, Enumerate
    <3> QED
      BY <3>1, <3>2, <3>3
  <2>2. CASE ~Enumerate(r)
    BY <1>1, <2>2 DEF ScanStays, GlobalStep, Reject, LoadHead, Publish, PublishFails, OnceEnter, OncePass,
                      RegisterCallback, RegisterDone, CountImages, Return
  <2> QED
    BY <2>1, <2>2
<1>2. ASSUME NEW r \in Locals, LocalStep(r) PROVE ScanStays(b)
  <2>1. CASE CallInImage(r)
    <3>1. CASE b # r
      BY <2>1, <3>1 DEF ScanStays, CallInImage
    <3>2. CASE b = r /\ HasArguments(r)
      <4>1. Target[r] \in Images
        BY ImagesAssumption
      <4>2. scan'[b] = StartScan(r, Target[r])
        BY <1>0, <2>1, <3>2 DEF CallInImage
      <4> QED
        BY <3>2, <4>1, <4>2, StartScanKinds DEF ScanStays, Fresh, Calls
    <3>3. CASE b = r /\ ~HasArguments(r)
      BY <1>0, <2>1, <3>3 DEF ScanStays, CallInImage
    <3> QED
      BY <3>1, <3>2, <3>3
  <2>2. CASE ReturnInImage(r)
    BY <2>2 DEF ScanStays, ReturnInImage
  <2> QED
    BY <1>2, <2>1, <2>2 DEF LocalStep
<1>3. ASSUME NEW a \in Actors, ScanStep(a) PROVE ScanStays(b)
  <2>1. CASE SkipSlot(a) \/ StoreSlot(a)
    <3>1. scan[a].phase # "idle" /\ scan' = [scan EXCEPT ![a] = Same(scan[a])]
      BY <2>1 DEF SkipSlot, StoreSlot, Advanced, Same
    <3> QED
      BY <1>0, <3>1 DEF ScanStays
  <2>2. CASE MatchSlot(a)
    BY <1>0, <2>2 DEF ScanStays, MatchSlot
  <2>3. CASE EndScan(a)
    BY <1>0, <2>3 DEF ScanStays, EndScan
  <2> QED
    BY <1>3, <2>1, <2>2, <2>3 DEF ScanStep
<1>4. ASSUME NEW r \in Calls, FaultInScan(r) PROVE ScanStays(b)
  BY <1>0, <1>4 DEF ScanStays, FaultInScan
<1>5. CASE CallbackApply
  <2>1. CASE b # Dyld
    BY <1>5, <2>1 DEF ScanStays, CallbackApply
  <2>2. CASE b = Dyld
    <3>1. rest # <<>> /\ visit # <<>> /\ scan'[b] = StartScan(Head(rest), Head(visit))
      BY <1>0, <1>5, <2>2 DEF CallbackApply, VisitOK
    <3>2. rest \in Seq(Globals) /\ visit \in Seq(Images)
      BY DEF TypeOK
    <3>3. /\ 1 \in DOMAIN rest /\ Head(rest) = rest[1] /\ rest[1] \in Globals
          /\ Head(visit) \in Images
      BY <3>1, <3>2
    <3> QED
      BY <2>2, <3>1, <3>3, StartScanKinds DEF ScanStays, Fresh, Calls
  <2> QED
    BY <2>1, <2>2
<1>6. CASE \/ CallbackStart \/ CallbackReturn \/ LoadDone \/ Terminated
           \/ \E i \in Images : LoadImage(i)
           \/ \E k \in DOMAIN images : UnloadImage(k)
  BY <1>6 DEF ScanStays, CallbackStart, CallbackReturn, LoadDone, Terminated, LoadImage, UnloadImage, vars
<1>7. CASE CallbackStep
  BY <1>5, <1>6, <1>7 DEF ScanStays, CallbackStep
<1> QED
  BY <1>1, <1>2, <1>3, <1>4, <1>6, <1>7 DEF Next

-----------------------------------------------------------------------------
(* Signatures.                                                             *)

\* The signature a call through the cell c expects.
Fitting(c) == IF Cell(c).auth THEN c ELSE Unsigned

\* The signature of a slot is the one dyld gave it or the fitting one.
SigOK == \A c \in Cells : slot[c].sig \in {Cell(c).binding.sig, Fitting(c)}

LEMMA FinalSignature ==
    ASSUME PtrAuth, NEW r \in Calls, NEW c \in Cells
    PROVE  FinalValue(r, c).sig = Fitting(c)
<1>1. Strip(Replacement[r]) \in Pointers /\ Strip(Replacement[r]).sig = Unsigned
  BY PointersAssumption DEF Strip, Pointers, Signatures
<1> QED
  BY <1>1 DEF FinalValue, Fitting, Pointers

\* What a store changes: one slot at most, which then holds the final value.
LEMMA StoreChanges ==
    ASSUME TypeOK, NEW a \in Actors, StoreSlot(a), NEW c \in Cells, slot'[c] # slot[c]
    PROVE  /\ c = ScanCell(a) /\ scan[a].phase = "store" /\ c[1] = scan[a].image
           /\ scan[a].rebind \in Calls
           /\ slot'[c] = FinalValue(scan[a].rebind, c)
<1>1. scan[a].phase = "store" /\ scan[a].rebind \in Calls /\ ScanCell(a)[1] = scan[a].image
  BY DEF StoreSlot, TypeOK, ScanCell
<1>2. slot' = [slot EXCEPT ![ScanCell(a)] = FinalValue(scan[a].rebind, ScanCell(a))]
  BY DEF StoreSlot
<1>3. slot \in [Cells -> Pointers]
  BY DEF TypeOK
<1> QED
  BY <1>1, <1>2, <1>3

LEMMA LoadChanges ==
    ASSUME NEW i \in Images, LoadImage(i), NEW c \in Cells
    PROVE  slot'[c] = slot[c] \/ (c[1] \notin Loaded /\ slot'[c] = Cell(c).binding)
BY DEF LoadImage

LEMMA NextSig ==
    ASSUME TypeOK, SigOK, Next
    PROVE  SigOK'
<1> SUFFICES ASSUME NEW c \in Cells
             PROVE  slot'[c].sig \in {Cell(c).binding.sig, Fitting(c)}
  BY DEF SigOK
<1>1. CASE slot'[c] = slot[c]
  BY <1>1 DEF SigOK
<1>2. ASSUME NEW a \in Actors, StoreSlot(a), slot'[c] # slot[c]
      PROVE  slot'[c].sig \in {Cell(c).binding.sig, Fitting(c)}
  <2>1. scan[a].rebind \in Calls /\ slot'[c] = FinalValue(scan[a].rebind, c)
    BY <1>2, StoreChanges
  <2>2. CASE PtrAuth
    BY <2>1, <2>2, FinalSignature
  <2>3. CASE ~PtrAuth
    BY <2>1, <2>3, FinalValueType, CellType DEF Pointers, Signatures
  <2> QED
    BY <2>2, <2>3
<1>3. ASSUME NEW i \in Images, LoadImage(i)
      PROVE  slot'[c].sig \in {Cell(c).binding.sig, Fitting(c)}
  BY <1>1, <1>3, LoadChanges
<1> QED
  BY <1>1, <1>2, <1>3, SlotKinds

\* A slot stays fit for its caller, on arm64 and on arm64e, whatever rebinds
\* race for it: what RorkHookRebindSection stores is signed as dyld signs it.
THEOREM SlotsStayFit == Spec => []SignaturesFit
<1>1. Init => SigOK
  BY DEF Init, SigOK
<1>2. TypeOK /\ SigOK /\ [Next]_vars => SigOK'
  <2> SUFFICES ASSUME TypeOK, SigOK, [Next]_vars PROVE SigOK'
    OBVIOUS
  <2>1. CASE UNCHANGED vars
    BY <2>1 DEF SigOK, vars
  <2> QED
    BY <2>1, NextSig
<1>3. SigOK => SignaturesFit
  BY DEF SigOK, SignaturesFit, Fitting
<1> QED
  BY <1>1, <1>2, <1>3, TypeCorrect, PTL DEF Spec

-----------------------------------------------------------------------------
(* Scans.                                                                  *)

\* A call that has been made has its arguments, what the callback has yet to
\* apply is published, and a scan in progress is one of an image that its call
\* covers.
ScansOK ==
    /\ \A r \in Globals : pc[r] \notin {"idle", "rejected"} => HasArguments(r)
    /\ \A k \in DOMAIN rest : Published(rest[k])
    /\ \A a \in Actors : scan[a].phase # "idle" =>
          /\ pc[scan[a].rebind] \notin {"idle", "rejected"}
          /\ Covers(scan[a].rebind, scan[a].image)
          /\ scan[a].next >= 1
          /\ scan[a].phase = "store" => ScanCell(a) \in Cells
          /\ a \in Calls => scan[a].rebind = a

\* A call is made once and published once, and only with its arguments.
LEMMA CallsGoOn ==
    ASSUME TypeOK, RegistryOK, Next, NEW r \in Calls
    PROVE  /\ pc[r] \notin {"idle", "rejected"} => pc'[r] \notin {"idle", "rejected"}
           /\ r \in Globals => (Published(r) => Published(r)')
           /\ r \in Globals /\ pc'[r] \notin {"idle", "rejected"} =>
                 pc[r] \notin {"idle", "rejected"} \/ HasArguments(r)
<1>1. ASSUME NEW q \in Calls, NEW to, pc' = [pc EXCEPT ![q] = to], q # r PROVE pc'[r] = pc[r]
  BY <1>1 DEF TypeOK
<1>2. ASSUME NEW to, pc' = [pc EXCEPT ![r] = to] PROVE pc'[r] = to
  BY <1>2 DEF TypeOK
<1>3. ASSUME NEW q \in Globals, GlobalStep(q) PROVE pc'[r] = pc[r] \/
             (q = r /\ \/ pc[r] = "idle" /\ pc'[r] = "rejected"
                       \/ HasArguments(r) /\ pc[r] = "idle" /\ pc'[r] = "publish"
                       \/ /\ pc[r] \notin {"idle", "rejected"}
                          /\ pc'[r] \notin {"idle", "rejected", "publish"})
  <2>1. q \in Calls
    BY DEF Calls
  <2>2. CASE Reject(q) \/ LoadHead(q)
    BY <1>1, <1>2, <2>1, <2>2 DEF Reject, LoadHead, Goto
  <2>3. CASE Publish(q) \/ OnceEnter(q) \/ OncePass(q)
    BY <1>1, <1>2, <2>1, <2>3 DEF Publish, OnceEnter, OncePass, Goto
  <2>4. CASE RegisterCallback(q) \/ RegisterDone(q) \/ CountImages(q) \/ Return(q)
    BY <1>1, <1>2, <2>1, <2>4 DEF RegisterCallback, RegisterDone, CountImages, Return, Goto
  <2>5. CASE PublishFails(q) \/ Enumerate(q)
    BY <2>5 DEF PublishFails, Enumerate
  <2> QED
    BY <1>3, <2>2, <2>3, <2>4, <2>5 DEF GlobalStep
<1>4. ASSUME NEW q \in Locals, LocalStep(q)
      PROVE  pc'[r] = pc[r] \/ (q = r /\ pc'[r] \in {"inimage", "returned"})
  <2>1. q \in Calls
    BY DEF Calls
  <2> QED
    BY <1>1, <1>2, <1>4, <2>1 DEF LocalStep, CallInImage, ReturnInImage, Goto
<1>5. ASSUME NEW q \in Calls, FaultInScan(q)
      PROVE  pc'[r] = pc[r] \/ (q = r /\ pc'[r] = "crashed" /\ scan[r].phase # "idle")
  BY <1>1, <1>2, <1>5 DEF FaultInScan
<1>6. CASE \/ \E a \in Actors : ScanStep(a)
           \/ CallbackStep \/ LoadDone \/ Terminated
           \/ \E i \in Images : LoadImage(i)
           \/ \E k \in DOMAIN images : UnloadImage(k)
  <2>1. pc' = pc
    BY <1>6 DEF ScanStep, SkipSlot, MatchSlot, StoreSlot, EndScan, CallbackStep, CallbackStart,
                CallbackApply, CallbackReturn, LoadDone, Terminated, LoadImage, UnloadImage,
                vars, calls
  <2> QED
    BY <2>1 DEF Published
<1>7. r \in Globals => r \notin Locals
  BY ActorsAssumption
<1>8. r \in Globals /\ scan[r].phase # "idle" => pc[r] = "enumerate"
  BY DEF RegistryOK
<1>9. CASE \E q \in Globals : GlobalStep(q)
  BY <1>3, <1>9 DEF Published
<1>10. CASE \E q \in Locals : LocalStep(q)
  BY <1>4, <1>7, <1>10 DEF Published
<1>11. CASE \E q \in Calls : FaultInScan(q)
  BY <1>5, <1>8, <1>11 DEF Published
<1> QED
  BY <1>6, <1>9, <1>10, <1>11 DEF Next

\* The callback takes its list from the registry and only ever shortens it.
LEMMA RestIsPublished ==
    ASSUME TypeOK, RegistryOK, ScansOK, Next
    PROVE  \A k \in DOMAIN rest' : pc'[rest'[k]] \notin {"idle", "rejected", "publish"}
<1>1. \A r \in Globals : Published(r) => pc'[r] \notin {"idle", "rejected", "publish"}
  BY CallsGoOn DEF Calls, Published
<1>2. rest \in Seq(Globals) /\ gRebinds \in Seq(Globals)
  BY DEF TypeOK
<1>3. CASE rest' = rest
  BY <1>1, <1>2, <1>3 DEF ScansOK
<1>4. CASE CallbackStart
  <2>1. rest' = gRebinds
    BY <1>4 DEF CallbackStart
  <2>2. \A k \in DOMAIN gRebinds : gRebinds[k] \in Globals /\ Published(gRebinds[k])
    BY <1>2 DEF RegistryOK
  <2> QED
    BY <1>1, <2>1, <2>2
<1>5. CASE CallbackApply
  <2>1. rest # <<>> /\ rest' = Tail(rest)
    BY <1>5 DEF CallbackApply
  <2>2. \A k \in DOMAIN Tail(rest) : k + 1 \in DOMAIN rest /\ Tail(rest)[k] = rest[k + 1]
    BY <1>2, <2>1
  <2>3. \A k \in DOMAIN rest : rest[k] \in Globals /\ Published(rest[k])
    BY <1>2 DEF ScansOK
  <2> QED
    BY <1>1, <2>1, <2>2, <2>3
<1>6. CASE ~CallbackStart /\ ~CallbackApply
  <2>1. rest' = rest
    BY <1>6 DEF Next, GlobalStep, Reject, LoadHead, Publish, PublishFails, OnceEnter, OncePass,
       RegisterCallback, RegisterDone, CountImages, Enumerate, Return, LocalStep, CallInImage,
       ReturnInImage, ScanStep, SkipSlot, MatchSlot, StoreSlot, EndScan, FaultInScan, CallbackStep,
       CallbackReturn, LoadImage, LoadDone, UnloadImage, Terminated, vars, dyld
  <2> QED
    BY <1>3, <2>1
<1> QED
  BY <1>4, <1>5, <1>6

\* A scan that is begun is one of an image that its call covers: this is what
\* RorkHookApplyRebind and the header given to RorkHookRebindSymbolInImage see to.
LEMMA FreshCovers ==
    ASSUME TypeOK, VisitOK, RegistryOK, ScansOK, Next, NEW b \in Actors,
           NEW r \in Calls, NEW i \in Images, Fresh(b, r, i), scan'[b] = Begun(r, i)
    PROVE  Covers(r, i) /\ pc'[r] \notin {"idle", "rejected"} /\ (b \in Calls => r = b)
<1>1. Globals \intersect Locals = {} /\ Dyld \notin Calls
  BY ActorsAssumption
<1>2. CASE b \in Globals /\ r = b /\ pc[b] = "enumerate"
  BY <1>1, <1>2, CallsGoOn DEF Fresh, Applies, Covers, ScansOK
<1>3. CASE b = Dyld /\ 1 \in DOMAIN rest /\ r = rest[1]
  <2>1. r \in Globals /\ Published(r)
    BY <1>3 DEF ScansOK, TypeOK
  <2>2. HasArguments(r) /\ pc'[r] \notin {"idle", "rejected"}
    BY <2>1, CallsGoOn DEF ScansOK, Published
  <2> QED
    BY <1>1, <1>3, <2>1, <2>2 DEF Fresh, Applies, Covers
<1>4. CASE b \in Locals /\ r = b /\ i = Target[b] /\ HasArguments(b)
  <2>1. Covers(r, i)
    BY <1>1, <1>4 DEF Fresh, Applies, Covers
  <2>2. RegistryOK'
    BY NextRegistry
  <2>3. pc'[r] \notin {"idle", "rejected"}
    BY <1>4, <2>2 DEF RegistryOK, Begun
  <2> QED
    BY <1>4, <2>1, <2>3
<1> QED
  BY <1>2, <1>3, <1>4 DEF Fresh

LEMMA NextScans ==
    ASSUME TypeOK, VisitOK, RegistryOK, ScansOK, Next
    PROVE  ScansOK'
<1>1. \A r \in Globals : pc'[r] \notin {"idle", "rejected"} => HasArguments(r)
  BY CallsGoOn DEF ScansOK, Calls
<1>2. \A k \in DOMAIN rest' : pc'[rest'[k]] \notin {"idle", "rejected", "publish"}
  BY RestIsPublished
<1>3. ASSUME NEW b \in Actors, scan'[b].phase # "idle"
      PROVE  /\ pc'[scan'[b].rebind] \notin {"idle", "rejected"}
             /\ Covers(scan'[b].rebind, scan'[b].image)
             /\ scan'[b].next >= 1
             /\ scan'[b].phase = "store" => <<scan'[b].image, scan'[b].next>> \in Cells
             /\ b \in Calls => scan'[b].rebind = b
  <2>1. ASSUME scan[b].phase # "idle"
        PROVE  /\ pc'[scan[b].rebind] \notin {"idle", "rejected"} /\ Covers(scan[b].rebind, scan[b].image)
               /\ scan[b].next >= 1 /\ scan[b].next \in Nat /\ scan[b].image \in Images
               /\ scan[b].phase = "store" => <<scan[b].image, scan[b].next>> \in Cells
               /\ b \in Calls => scan[b].rebind = b
    BY <2>1, CallsGoOn DEF ScansOK, TypeOK, ScanCell, Scans
  <2>2. CASE scan'[b] = scan[b]
    BY <1>3, <2>1, <2>2
  <2>3. CASE scan'[b] = Idle
    BY <1>3, <2>3 DEF Idle
  <2>4. CASE MatchSlot(b)
    <3>1. /\ scan[b].phase = "read" /\ scan' = [scan EXCEPT ![b].phase = "store"]
          /\ scan[b].next \in DOMAIN Layout[scan[b].image]
      BY <2>4 DEF MatchSlot, InLayout
    <3>2. /\ scan'[b].rebind = scan[b].rebind /\ scan'[b].image = scan[b].image
          /\ scan'[b].next = scan[b].next
      BY <3>1 DEF TypeOK, Scans
    <3> QED
      BY <2>1, <3>1, <3>2, CellType
  <2>5. CASE scan[b].phase # "idle" /\ scan'[b] = Same(scan[b])
    BY <2>1, <2>5 DEF Same
  <2>6. ASSUME NEW r \in Calls, NEW i \in Images, Fresh(b, r, i), scan'[b] = Begun(r, i)
        PROVE  /\ pc'[scan'[b].rebind] \notin {"idle", "rejected"}
               /\ Covers(scan'[b].rebind, scan'[b].image)
               /\ scan'[b].next >= 1 /\ scan'[b].phase = "read"
               /\ b \in Calls => scan'[b].rebind = b
    BY <2>6, FreshCovers DEF Begun
  <2> QED
    BY <2>2, <2>3, <2>4, <2>5, <2>6, ScanKinds DEF ScanStays
<1> QED
  BY <1>1, <1>2, <1>3 DEF ScansOK, ScanCell, Published

LEMMA ScansInvariant == Spec => [](TypeOK /\ VisitOK /\ RegistryOK /\ ScansOK)
<1>1. Init => RegistryOK /\ ScansOK
  BY DEF Init, RegistryOK, ScansOK, Published, Idle, Calls, Actors
<1>2. TypeOK /\ VisitOK /\ RegistryOK /\ ScansOK /\ [Next]_vars => RegistryOK' /\ ScansOK'
  <2> SUFFICES ASSUME TypeOK, VisitOK, RegistryOK, ScansOK, [Next]_vars
               PROVE  RegistryOK' /\ ScansOK'
    OBVIOUS
  <2>1. CASE Next
    BY <2>1, NextRegistry, NextScans
  <2>2. CASE UNCHANGED vars
    BY <2>2 DEF RegistryOK, ScansOK, ScanCell, Published, vars, registry, calls, dyld
  <2> QED
    BY <2>1, <2>2
<1> QED
  BY <1>1, <1>2, TypeCorrect, PTL DEF Spec

\* A scan about to store has just found a match, or was about to store before.
LEMMA AboutToStore ==
    ASSUME TypeOK, VisitOK, Next, NEW b \in Actors, scan'[b].phase = "store"
    PROVE  /\ scan'[b].rebind = scan[b].rebind /\ ScanCell(b)' = ScanCell(b)
           /\ scan[b].phase = "store" \/ MatchSlot(b)
<1>1. CASE MatchSlot(b)
  <2>1. scan' = [scan EXCEPT ![b].phase = "store"]
    BY <1>1 DEF MatchSlot
  <2> QED
    BY <1>1, <2>1 DEF TypeOK, Scans, ScanCell
<1>2. CASE scan'[b] = scan[b]
  BY <1>2 DEF ScanCell
<1>3. ~(scan'[b] = Idle) /\ ~(scan'[b] = Same(scan[b]))
      /\ \A r, i : scan'[b] # Begun(r, i)
  BY DEF Idle, Same, Begun
<1> QED
  BY <1>1, <1>2, <1>3, ScanKinds DEF ScanStays

\* The slot that a scan finds to match is in its image and holds the replacee.
LEMMA MatchFacts ==
    ASSUME TypeOK, ScansOK, NEW b \in Actors, MatchSlot(b)
    PROVE  /\ ScanCell(b) \in Cells /\ ScanCell(b)[1] = scan[b].image
           /\ scan[b].rebind \in Calls /\ Covers(scan[b].rebind, scan[b].image)
           /\ slot[ScanCell(b)].addr = Replacee[scan[b].rebind].addr
<1>1. scan[b].phase # "idle" /\ InLayout(b) /\ Resolves(slot[ScanCell(b)], scan[b].rebind)
  BY DEF MatchSlot, Matches
<1>2. scan[b].rebind \in Calls /\ scan[b].image \in Images /\ Covers(scan[b].rebind, scan[b].image)
  BY <1>1 DEF TypeOK, ScansOK
<1>3. ScanCell(b) \in Cells /\ ScanCell(b)[1] = scan[b].image
  BY <1>1, <1>2, CellType DEF InLayout, ScanCell
<1>4. slot[ScanCell(b)] \in Pointers
  BY <1>3 DEF TypeOK
<1> QED
  BY <1>1, <1>2, <1>3, <1>4, ResolvesComparesAddresses DEF Covers

-----------------------------------------------------------------------------
(* The defining image.                                                     *)

\* No other call for the same replacee covers the image that defines a
\* replacement.
OriginalsLeftAlone ==
    \A r \in Globals : \A q \in Calls \ {r} :
        Replacee[q].addr = Replacee[r].addr => ~Covers(q, DefinedIn[Replacement[r].addr])

\* No call is after what dyld bound the cell c to.
Kept == {c \in Cells : \A q \in Calls :
            Covers(q, c[1]) => Cell(c).binding.addr # Replacee[q].addr}

KeptOK ==
    /\ \A c \in Kept : slot[c] = Cell(c).binding
    /\ \A a \in Actors : scan[a].phase = "store" => ScanCell(a) \notin Kept

LEMMA NextKept ==
    ASSUME TypeOK, VisitOK, ScansOK, KeptOK, Next
    PROVE  KeptOK'
<1>1. ASSUME NEW c \in Kept PROVE slot'[c] = Cell(c).binding
  <2>1. c \in Cells /\ slot[c] = Cell(c).binding
    BY DEF Kept, KeptOK
  <2>2. ASSUME NEW a \in Actors, StoreSlot(a) PROVE slot'[c] = slot[c]
    BY <2>1, <2>2, StoreChanges DEF KeptOK
  <2> QED
    BY <2>1, <2>2, LoadChanges, SlotKinds
<1>2. ASSUME NEW b \in Actors, scan'[b].phase = "store" PROVE ScanCell(b)' \notin Kept
  <2>1. ScanCell(b)' = ScanCell(b) /\ (scan[b].phase = "store" \/ MatchSlot(b))
    BY <1>2, AboutToStore
  <2>2. CASE scan[b].phase = "store"
    BY <2>1, <2>2 DEF KeptOK
  <2>3. CASE MatchSlot(b)
    BY <2>1, <2>3, MatchFacts DEF KeptOK, Kept
  <2> QED
    BY <2>1, <2>2, <2>3
<1>3. Kept' = Kept
  BY DEF Kept, Covers, HasArguments, Cell, Cells
<1> QED
  BY <1>1, <1>2, <1>3 DEF KeptOK

\* The image that defines a replacement keeps calling the original, under every
\* interleaving of calls, loads and unloads, if no other call redirects the same
\* replacee there: the call's own rebind leaves that image out.
THEOREM OriginalsAreKept == ASSUME OriginalsLeftAlone PROVE Spec => []KeepsCallingOriginal
<1>1. Init => KeptOK
  BY DEF Init, KeptOK, Kept, Idle
<1>2. TypeOK /\ VisitOK /\ ScansOK /\ KeptOK /\ [Next]_vars => KeptOK'
  <2> SUFFICES ASSUME TypeOK, VisitOK, ScansOK, KeptOK, [Next]_vars PROVE KeptOK'
    OBVIOUS
  <2>1. CASE UNCHANGED vars
    BY <2>1 DEF KeptOK, Kept, Covers, HasArguments, Cell, Cells, ScanCell, vars
  <2> QED
    BY <2>1, NextKept
<1>3. TypeOK /\ KeptOK => KeepsCallingOriginal
  <2> SUFFICES ASSUME TypeOK, KeptOK, NEW r \in ToSet(gRebinds), NEW c \in Cells,
                      c[1] = DefinedIn[Replacement[r].addr],
                      Cell(c).binding.addr = Replacee[r].addr
               PROVE  slot[c] = Cell(c).binding
    BY DEF KeepsCallingOriginal
  <2>1. r \in Globals
    BY DEF TypeOK, ToSet
  <2>2. ASSUME NEW q \in Calls, Covers(q, c[1]) PROVE Cell(c).binding.addr # Replacee[q].addr
    <3>1. CASE q = r
      BY <2>1, <2>2, <3>1 DEF Covers
    <3>2. CASE q # r
      BY <2>1, <2>2, <3>2 DEF OriginalsLeftAlone
    <3> QED
      BY <3>1, <3>2
  <2>3. c \in Kept
    BY <2>2 DEF Kept
  <2> QED
    BY <2>3 DEF KeptOK
<1> QED
  BY <1>1, <1>2, <1>3, ScansInvariant, PTL DEF Spec

-----------------------------------------------------------------------------
(* Stores.                                                                 *)

\* Calls that redirect the same replacee in the same image install the same
\* replacement.
Agreeing ==
    \A q, r \in Calls, i \in Images :
        Covers(q, i) /\ Covers(r, i) /\ Replacee[q].addr = Replacee[r].addr =>
            Replacement[q] = Replacement[r]

\* A cell holds what dyld bound it to, or the replacement of a call that was
\* after this; and this is what a scan about to store has read.
StoresOK ==
    /\ \A c \in Cells :
          \/ slot[c] = Cell(c).binding
          \/ \E q \in Calls : /\ Covers(q, c[1]) /\ slot[c] = FinalValue(q, c)
                              /\ Cell(c).binding.addr = Replacee[q].addr
    /\ \A a \in Actors : scan[a].phase = "store" =>
          /\ IsScanned(ScanCell(a))
          /\ Cell(ScanCell(a)).binding.addr = Replacee[scan[a].rebind].addr

LEMMA NextStores ==
    ASSUME Unchained, TypeOK, VisitOK, ScansOK, StoresOK, Next
    PROVE  StoresOK'
<1>1. ASSUME NEW c \in Cells
      PROVE  \/ slot'[c] = Cell(c).binding
             \/ \E q \in Calls : /\ Covers(q, c[1]) /\ slot'[c] = FinalValue(q, c)
                                 /\ Cell(c).binding.addr = Replacee[q].addr
  <2>1. CASE slot'[c] = slot[c]
    BY <2>1 DEF StoresOK
  <2>2. ASSUME NEW a \in Actors, StoreSlot(a), slot'[c] # slot[c]
        PROVE  \E q \in Calls : /\ Covers(q, c[1]) /\ slot'[c] = FinalValue(q, c)
                                /\ Cell(c).binding.addr = Replacee[q].addr
    <3>1. /\ c = ScanCell(a) /\ scan[a].phase = "store" /\ c[1] = scan[a].image
          /\ scan[a].rebind \in Calls /\ slot'[c] = FinalValue(scan[a].rebind, c)
      BY <2>2, StoreChanges
    <3>2. Covers(scan[a].rebind, c[1]) /\ Cell(c).binding.addr = Replacee[scan[a].rebind].addr
      BY <3>1 DEF ScansOK, StoresOK
    <3> QED
      BY <3>1, <3>2
  <2> QED
    BY <2>1, <2>2, LoadChanges, SlotKinds
<1>2. ASSUME NEW b \in Actors, scan'[b].phase = "store"
      PROVE  /\ IsScanned(ScanCell(b)')
             /\ Cell(ScanCell(b)').binding.addr = Replacee[scan'[b].rebind].addr
  <2>1. /\ scan'[b].rebind = scan[b].rebind /\ ScanCell(b)' = ScanCell(b)
        /\ scan[b].phase = "store" \/ MatchSlot(b)
    BY <1>2, AboutToStore
  <2>2. CASE scan[b].phase = "store"
    BY <2>1, <2>2 DEF StoresOK
  <2>3. CASE MatchSlot(b)
    <3> DEFINE c == ScanCell(b)
               r == scan[b].rebind
    <3>1. c \in Cells /\ r \in Calls /\ Covers(r, c[1]) /\ slot[c].addr = Replacee[r].addr
      BY <2>3, MatchFacts
    <3>2. ASSUME NEW q \in Calls, Covers(q, c[1]), slot[c] = FinalValue(q, c) PROVE FALSE
      BY <3>1, <3>2, FinalValueType DEF Unchained, Covers
    <3>3. Cell(c).binding.addr = Replacee[r].addr
      BY <3>1, <3>2 DEF StoresOK
    <3>4. IsScanned(c)
      BY <2>3 DEF MatchSlot, Matches
    <3> QED
      BY <2>1, <3>3, <3>4
  <2> QED
    BY <2>1, <2>2, <2>3
<1> QED
  BY <1>1, <1>2 DEF StoresOK, ScanCell

LEMMA StoresInvariant == ASSUME Unchained PROVE Spec => []StoresOK
<1>1. Init => StoresOK
  BY DEF Init, StoresOK, Idle
<1>2. TypeOK /\ VisitOK /\ ScansOK /\ StoresOK /\ [Next]_vars => StoresOK'
  <2> SUFFICES ASSUME TypeOK, VisitOK, ScansOK, StoresOK, [Next]_vars PROVE StoresOK'
    OBVIOUS
  <2>1. CASE UNCHANGED vars
    BY <2>1 DEF StoresOK, ScanCell, vars
  <2> QED
    BY <2>1, NextStores
<1> QED
  BY <1>1, <1>2, ScansInvariant, PTL DEF Spec

\* Although a store does not look again at the slot that its scan read, it only
\* ever turns a replacee into its replacement, if rebinds form no chains and
\* agree on what replaces what.
THEOREM StoresRewriteReplacees ==
    ASSUME Unchained, Agreeing PROVE Spec => RewritesOnlyReplacee
<1>1. TypeOK /\ ScansOK /\ StoresOK /\ [Next]_vars =>
        [\A c \in Cells : slot'[c] # slot[c] =>
          \/ c[1] \notin Loaded
          \/ \E r \in Calls : /\ pc[r] \notin {"idle", "rejected"} /\ Covers(r, c[1])
                              /\ slot[c].addr = Replacee[r].addr
                              /\ slot'[c].addr = Replacement[r].addr]_vars
  <2> SUFFICES ASSUME TypeOK, ScansOK, StoresOK, Next, NEW c \in Cells, slot'[c] # slot[c],
                      c[1] \in Loaded
               PROVE  \E r \in Calls : /\ pc[r] \notin {"idle", "rejected"} /\ Covers(r, c[1])
                                       /\ slot[c].addr = Replacee[r].addr
                                       /\ slot'[c].addr = Replacement[r].addr
    OBVIOUS
  <2>1. PICK a \in Actors : StoreSlot(a)
    BY LoadChanges, SlotKinds
  <2> DEFINE r == scan[a].rebind
  <2>2. /\ c = ScanCell(a) /\ scan[a].phase = "store" /\ c[1] = scan[a].image
        /\ r \in Calls /\ slot'[c] = FinalValue(r, c)
    BY <2>1, StoreChanges
  <2>3. pc[r] \notin {"idle", "rejected"} /\ Covers(r, c[1]) /\ Cell(c).binding.addr = Replacee[r].addr
    BY <2>2 DEF ScansOK, StoresOK
  <2>4. ASSUME NEW q \in Calls, Covers(q, c[1]), slot[c] = FinalValue(q, c),
               Cell(c).binding.addr = Replacee[q].addr
        PROVE  FALSE
    <3>1. Replacement[q] = Replacement[r]
      BY <2>2, <2>3, <2>4, CellType DEF Agreeing
    <3>2. FinalValue(q, c) = FinalValue(r, c)
      BY <3>1 DEF FinalValue
    <3> QED
      BY <2>2, <2>4, <3>2
  <2>5. slot[c] = Cell(c).binding
    BY <2>4 DEF StoresOK
  <2>6. slot'[c].addr = Replacement[r].addr
    BY <2>2, FinalValueType
  <2> QED
    BY <2>2, <2>3, <2>5, <2>6
<1> QED
  BY <1>1, StoresInvariant, ScansInvariant, PTL DEF Spec, RewritesOnlyReplacee

-----------------------------------------------------------------------------
(* GlobalRebind implements Rebinding.                                      *)

\* Who is in the block of dispatch_once, and who is past it.
Entering == {"register", "registering"}
Past == {"count", "enumerate", "returned"}
OnceOK ==
    /\ loader \in Globals => once = "running"
    /\ \A r \in Globals : pc[r] \in Entering =>
          once = "running" /\ \A q \in Globals : pc[q] \in Entering => q = r
    /\ \A r \in Globals : pc[r] \in Past => once = "done"

\* What the callers of returned calls may count on.
Promise == \A r \in Calls : pc[r] = "returned" => Abstract!Clean(Word, r, InUse)

LEMMA NextOnce ==
    ASSUME TypeOK, OnceOK, Next
    PROVE  OnceOK'
<1>1. ASSUME NEW q \in Calls, NEW to, pc' = [pc EXCEPT ![q] = to]
      PROVE  pc'[q] = to /\ \A r \in Globals : r # q => pc'[r] = pc[r]
  BY <1>1 DEF TypeOK, Calls
<1>2. Dyld \notin Globals /\ None \notin Globals /\ Globals \intersect Locals = {}
  BY ActorsAssumption DEF Calls
<1>3. ASSUME pc' = pc, once' = once, loader' = loader \/ loader' \in {None, Dyld} PROVE OnceOK'
  BY <1>2, <1>3 DEF OnceOK
<1>4. ASSUME NEW q \in Globals, GlobalStep(q) PROVE OnceOK'
  <2>1. q \in Calls
    BY DEF Calls
  <2>2. CASE Reject(q) \/ LoadHead(q) \/ Publish(q)
    <3>1. /\ pc'[q] \notin Entering /\ pc'[q] \notin Past /\ once' = once /\ loader' = loader
          /\ \A r \in Globals : r # q => pc'[r] = pc[r]
      <4>1. CASE Reject(q)
        BY <1>1, <2>1, <4>1 DEF Reject, Goto, Entering, Past, dyld, registry
      <4>2. CASE LoadHead(q)
        BY <1>1, <2>1, <4>2 DEF LoadHead, Goto, Entering, Past, dyld, registry
      <4>3. CASE Publish(q)
        BY <1>1, <2>1, <4>3 DEF Publish, Goto, Entering, Past, dyld
      <4> QED
        BY <2>2, <4>1, <4>2, <4>3
    <3> QED
      BY <3>1 DEF OnceOK
  <2>3. CASE PublishFails(q) \/ Enumerate(q)
    BY <1>3, <2>3 DEF PublishFails, Enumerate, dyld, registry
  <2>4. CASE OnceEnter(q)
    BY <1>1, <2>1, <2>4 DEF OnceEnter, Goto, OnceOK, Entering, Past, dyld
  <2>5. CASE OncePass(q)
    BY <1>1, <2>1, <2>5 DEF OncePass, Goto, OnceOK, Entering, Past, dyld, registry
  <2>6. CASE RegisterCallback(q)
    <3>1. /\ pc[q] = "register" /\ pc'[q] = "registering" /\ once' = once
          /\ \A r \in Globals : r # q => pc'[r] = pc[r]
      BY <1>1, <2>1, <2>6 DEF RegisterCallback, Goto, registry
    <3> QED
      BY <3>1 DEF OnceOK, Entering, Past
  <2>7. CASE RegisterDone(q)
    <3>1. /\ pc[q] = "registering" /\ pc'[q] = "count" /\ once' = "done" /\ loader' = None
          /\ \A r \in Globals : r # q => pc'[r] = pc[r]
      BY <1>1, <2>1, <2>7 DEF RegisterDone, Goto
    <3>2. \A r \in Globals : pc'[r] \notin Entering
      BY <3>1 DEF OnceOK, Entering
    <3> QED
      BY <1>2, <3>1, <3>2 DEF OnceOK
  <2>8. CASE CountImages(q) \/ Return(q)
    BY <1>1, <2>1, <2>8 DEF CountImages, Return, Goto, OnceOK, Entering, Past, dyld, registry
  <2> QED
    BY <1>4, <2>2, <2>3, <2>4, <2>5, <2>6, <2>7, <2>8 DEF GlobalStep
<1>5. ASSUME NEW q \in Locals, LocalStep(q) PROVE OnceOK'
  <2>1. q \in Calls /\ q \notin Globals
    BY <1>2 DEF Calls
  <2>2. once' = once /\ loader' = loader /\ \A r \in Globals : pc'[r] = pc[r]
    BY <1>1, <1>5, <2>1 DEF LocalStep, CallInImage, ReturnInImage, Goto, dyld, registry
  <2> QED
    BY <2>2 DEF OnceOK
<1>6. ASSUME NEW q \in Calls, FaultInScan(q) PROVE OnceOK'
  BY <1>1, <1>6 DEF FaultInScan, OnceOK, Entering, Past, dyld, registry
<1>7. CASE \/ \E a \in Actors : ScanStep(a)
           \/ CallbackStep \/ LoadDone \/ Terminated
           \/ \E i \in Images : LoadImage(i)
           \/ \E k \in DOMAIN images : UnloadImage(k)
  <2>1. pc' = pc /\ once' = once /\ (loader' = loader \/ loader' \in {None, Dyld})
    BY <1>7 DEF ScanStep, SkipSlot, MatchSlot, StoreSlot, EndScan, CallbackStep, CallbackStart,
                CallbackApply, CallbackReturn, LoadDone, Terminated, LoadImage, UnloadImage,
                vars, calls, registry, dyld
  <2> QED
    BY <1>3, <2>1
<1> QED
  BY <1>4, <1>5, <1>6, <1>7 DEF Next

LEMMA OnceInvariant == Spec => []OnceOK
<1>1. Init => OnceOK
  BY ActorsAssumption DEF Init, OnceOK, Entering, Past, Calls
<1>2. TypeOK /\ OnceOK /\ [Next]_vars => OnceOK'
  <2> SUFFICES ASSUME TypeOK, OnceOK, [Next]_vars PROVE OnceOK'
    OBVIOUS
  <2>1. CASE UNCHANGED vars
    BY <2>1 DEF OnceOK, vars, dyld, registry, calls
  <2> QED
    BY <2>1, NextOnce
<1> QED
  BY <1>1, <1>2, TypeCorrect, PTL DEF Spec

LEMMA InScope ==
    ASSUME NEW r \in Calls, NEW c \in Scope[r]
    PROVE  /\ c \in Cells /\ Covers(r, c[1]) /\ c[1] \in Images
           /\ c[2] \in DOMAIN Layout[c[1]] /\ c = <<c[1], c[2]>>
           /\ Cell(c).type # "other" /\ Cell(c).usable /\ Cell(c).writable
BY DEF Scope, Cells, IsScanned

\* While a call registers the callback no global call can have returned, and an
\* image-local call does not depend on the callback.
LEMMA PromiseHolds ==
    ASSUME IInv, OnceOK, Redirected
    PROVE  Promise
<1> SUFFICES ASSUME NEW r \in Calls, pc[r] = "returned", NEW c \in Scope[r], c[1] \in InUse
             PROVE  slot[c].addr # Replacee[r].addr
  <2>1. \A r \in Calls : \A c \in Scope[r] :
            c \in Cells /\ ImageOf[c] = c[1] /\ Word[c] = slot[c].addr /\ From[r] = Replacee[r].addr
    BY InScope DEF ImageOf, Word, From
  <2> QED
    BY <2>1 DEF Promise, Abstract!Clean
<1>1. /\ c \in Cells /\ Covers(r, c[1]) /\ c[2] \in DOMAIN Layout[c[1]] /\ c = <<c[1], c[2]>>
      /\ Cell(c).type # "other" /\ Cell(c).usable /\ Cell(c).writable
  BY InScope
<1>2. CASE loader \notin Globals
  <2>1. ~StillCalls(r, c[1])
    BY <1>1, <1>2 DEF Redirected, InUse
  <2> QED
    BY <1>1, <2>1 DEF StillCalls, Cell
<1>3. CASE loader \in Globals
  <2>1. r \in Locals
    BY <1>3 DEF OnceOK, Past, Calls
  <2>2. scan[r].phase = "idle"
    BY DEF IInv, RegistryOK
  <2>3. c[1] = Target[r]
    BY <1>1, <2>1 DEF Covers
  <2>4. CleanImage(r, c[1])
    BY <1>1, <2>1, <2>2, <2>3 DEF IInv, CoverageOK, Scanning
  <2> QED
    BY <1>1, <2>4 DEF CleanImage, Clean, Cell
<1> QED
  BY <1>2, <1>3

\* The variables of Rebinding, as GlobalRebind represents them.
view == <<Word, InUse, Loaded \ InUse, State>>

\* A step that writes no slot, loads no image and leaves the queue alone.
LEMMA QuietStep ==
    ASSUME UNCHANGED <<slot, images, loader, visit>>
    PROVE  Word' = Word /\ Loaded' = Loaded /\ InUse' = InUse
BY DEF Word, Loaded, InUse

LEMMA StateIs ==
    ASSUME NEW r \in Calls
    PROVE  /\ State[r] = "idle" <=> pc[r] = "idle"
           /\ State[r] = "refused" <=> pc[r] = "rejected"
           /\ State[r] = "returned" <=> pc[r] = "returned"
           /\ State[r] = "made" <=> pc[r] \notin {"idle", "rejected", "returned"}
BY DEF State

\* What a step of a call does to its state.
LEMMA StateStep ==
    ASSUME TypeOK, NEW r \in Calls, NEW to, pc' = [pc EXCEPT ![r] = to]
    PROVE  State' = [State EXCEPT ![r] = CASE to = "idle" -> "idle"
                                           [] to = "rejected" -> "refused"
                                           [] to = "returned" -> "returned"
                                           [] OTHER -> "made"]
BY DEF State, TypeOK

LEMMA StateStays ==
    ASSUME TypeOK, NEW r \in Calls, NEW to, pc' = [pc EXCEPT ![r] = to],
           pc[r] \notin {"idle", "rejected", "returned"},
           to \notin {"idle", "rejected", "returned"}
    PROVE  State' = State
BY DEF State, TypeOK

\* Returning: what Promise says afterwards is what Finish asks for.
LEMMA FinishStep ==
    ASSUME TypeOK, Promise', NEW r \in Calls, Goto(r, "enumerate", "returned") \/ Goto(r, "inimage", "returned"),
           UNCHANGED <<slot, images, loader, visit>>
    PROVE  Abstract!Finish(r)
<1>1. Word' = Word /\ Loaded' = Loaded /\ InUse' = InUse
  BY QuietStep
<1>2. State[r] = "made" /\ State' = [State EXCEPT ![r] = "returned"]
  BY StateIs, StateStep DEF Goto
<1>3. pc'[r] = "returned"
  BY DEF Goto, TypeOK
<1>4. Abstract!Clean(Word, r, InUse)
  BY <1>1, <1>3 DEF Promise, Abstract!Clean
<1> QED
  BY <1>1, <1>2, <1>4 DEF Abstract!Finish

LEMMA GlobalView ==
    ASSUME IInv, Promise', NEW r \in Globals, GlobalStep(r)
    PROVE  Abstract!Next \/ UNCHANGED view
<1>1. r \in Calls /\ TypeOK /\ VisitOK
  BY DEF Calls, IInv
<1>2. CASE Reject(r) \/ LoadHead(r)
  <2>1. Word' = Word /\ Loaded' = Loaded /\ InUse' = InUse
    BY <1>2, QuietStep DEF Reject, LoadHead, dyld
  <2>2. /\ State[r] = "idle"
        /\ State' = [State EXCEPT ![r] = "refused"] \/ State' = [State EXCEPT ![r] = "made"]
    BY <1>1, <1>2, StateIs, StateStep DEF Reject, LoadHead, Goto
  <2>3. Abstract!Make(r)
    BY <2>1, <2>2 DEF Abstract!Make
  <2> QED
    BY <1>1, <2>3 DEF Abstract!Next
<1>3. CASE Publish(r) \/ OnceEnter(r) \/ OncePass(r) \/ CountImages(r)
  <2>1. Word' = Word /\ Loaded' = Loaded /\ InUse' = InUse
    BY <1>3, QuietStep DEF Publish, OnceEnter, OncePass, CountImages, dyld
  <2>2. State' = State
    BY <1>1, <1>3, StateStays DEF Publish, OnceEnter, OncePass, CountImages, Goto
  <2> QED
    BY <2>1, <2>2 DEF view
<1>4. CASE PublishFails(r) \/ Enumerate(r)
  <2>1. Word' = Word /\ Loaded' = Loaded /\ InUse' = InUse
    BY <1>4, QuietStep DEF PublishFails, Enumerate, dyld
  <2>2. State' = State
    BY <1>4 DEF PublishFails, Enumerate, State
  <2> QED
    BY <2>1, <2>2 DEF view
<1>5. CASE RegisterCallback(r) \/ RegisterDone(r)
  <2>1. Word' = Word /\ Loaded' = Loaded
    BY <1>5 DEF RegisterCallback, RegisterDone, Word, Loaded
  <2>2. State' = State
    BY <1>1, <1>5, StateStays DEF RegisterCallback, RegisterDone, Goto
  <2>3. ToSet(<<>>) = {}
    BY DEF ToSet
  <2>4. InUse = Loaded
    BY <1>1, <1>5, <2>3 DEF RegisterCallback, RegisterDone, VisitOK, InUse
  <2>5. InUse' = Loaded'
    BY <1>5, <2>3 DEF RegisterCallback, RegisterDone, InUse
  <2> QED
    BY <2>1, <2>2, <2>4, <2>5 DEF view
<1>6. CASE Return(r)
  <2>1. Abstract!Finish(r)
    BY <1>1, <1>6, FinishStep DEF Return, dyld
  <2> QED
    BY <1>1, <2>1 DEF Abstract!Next
<1> QED
  BY <1>2, <1>3, <1>4, <1>5, <1>6 DEF GlobalStep

LEMMA LocalView ==
    ASSUME IInv, Promise', NEW r \in Locals, LocalStep(r)
    PROVE  Abstract!Next \/ UNCHANGED view
<1>1. r \in Calls /\ TypeOK
  BY DEF Calls, IInv
<1>2. CASE CallInImage(r)
  <2>1. Word' = Word /\ Loaded' = Loaded /\ InUse' = InUse
    BY <1>2, QuietStep DEF CallInImage, dyld
  <2>2. State[r] = "idle" /\ State' = [State EXCEPT ![r] = "made"]
    <3>1. pc[r] = "idle" /\ pc' = [pc EXCEPT ![r] = "inimage"]
      BY <1>2 DEF CallInImage, Goto
    <3>2. State[r] = "idle"
      BY <1>1, <3>1, StateIs
    <3>3. State' = [State EXCEPT ![r] = "made"]
      BY <1>1, <3>1 DEF State, TypeOK
    <3> QED
      BY <3>2, <3>3
  <2>3. Abstract!Make(r)
    BY <2>1, <2>2 DEF Abstract!Make
  <2> QED
    BY <1>1, <2>3 DEF Abstract!Next
<1>3. CASE ReturnInImage(r)
  <2>1. Abstract!Finish(r)
    BY <1>1, <1>3, FinishStep DEF ReturnInImage, dyld
  <2> QED
    BY <1>1, <2>1 DEF Abstract!Next
<1> QED
  BY <1>2, <1>3 DEF LocalStep

\* A store turns one word of the scope of its call from replacee to replacement.
LEMMA StoreView ==
    ASSUME Agreeing, IInv, ScansOK, StoresOK, NEW a \in Actors, StoreSlot(a)
    PROVE  Abstract!Next \/ UNCHANGED view
<1>1. TypeOK
  BY DEF IInv
<1>2. UNCHANGED <<images, loader, visit, pc>>
  BY DEF StoreSlot, dyld, calls
<1>3. Loaded' = Loaded /\ InUse' = InUse /\ State' = State
  BY <1>2 DEF Loaded, InUse, State
<1>4. CASE slot' = slot
  <2>1. Word' = Word
    BY <1>4 DEF Word
  <2> QED
    BY <1>3, <2>1 DEF view
<1>5. CASE slot' # slot
  <2> DEFINE c == ScanCell(a)
             r == scan[a].rebind
  <2>1. /\ Cell(c).writable /\ slot' = [slot EXCEPT ![c] = FinalValue(r, c)]
        /\ scan[a].phase = "store"
    BY <1>5 DEF StoreSlot
  <2>2. /\ r \in Calls /\ c \in Cells /\ c[1] = scan[a].image /\ Covers(r, c[1]) /\ IsScanned(c)
        /\ pc[r] \notin {"idle", "rejected"} /\ Cell(c).binding.addr = Replacee[r].addr
    BY <1>1, <2>1 DEF ScansOK, StoresOK, TypeOK, ScanCell
  <2>3. c[1] \in Loaded
    BY <2>1, <2>2 DEF IInv, ScanOK
  <2>4. slot \in [Cells -> Pointers] /\ slot'[c] = FinalValue(r, c) /\ FinalValue(r, c).addr = Replacement[r].addr
    BY <1>1, <2>1, <2>2, FinalValueType DEF TypeOK
  <2>5. slot'[c] # slot[c]
    BY <1>5, <2>1, <2>2, <2>4
  <2>6. ASSUME NEW q \in Calls, Covers(q, c[1]), slot[c] = FinalValue(q, c),
               Cell(c).binding.addr = Replacee[q].addr
        PROVE  FALSE
    <3>1. Replacement[q] = Replacement[r]
      BY <2>2, <2>6, CellType DEF Agreeing
    <3>2. FinalValue(q, c) = FinalValue(r, c)
      BY <3>1 DEF FinalValue
    <3> QED
      BY <2>4, <2>5, <2>6, <3>2
  <2>7. slot[c].addr = Replacee[r].addr
    BY <2>2, <2>6 DEF StoresOK
  <2> HIDE DEF c, r
  <2>8. Word' = [Word EXCEPT ![c] = To[r]]
    BY <2>1, <2>2, <2>4 DEF Word, To
  <2>9. Word[c] = From[r] /\ ImageOf[c] = c[1] /\ c \in Scope[r]
    BY <2>1, <2>2, <2>7 DEF Word, From, ImageOf, Scope
  <2>10. State[r] \in {"made", "returned"}
    BY <2>2 DEF State
  <2>11. ImageOf[c] \in InUse \union (Loaded \ InUse)
    BY <2>3, <2>9
  <2>12. Abstract!Redirect(r, c)
    BY <1>3, <2>8, <2>9, <2>10, <2>11 DEF Abstract!Redirect
  <2> QED
    BY <2>2, <2>12 DEF Abstract!Next
<1> QED
  BY <1>4, <1>5

\* An image that no longer waits for the callback is clean of returned calls.
LEMMA AdmissibleInUse ==
    ASSUME Promise', NEW i \in InUse', State' = State
    PROVE  Abstract!Admissible(Word', i)
<1> SUFFICES ASSUME NEW r \in Calls, State[r] = "returned" PROVE Abstract!Clean(Word', r, {i})
  BY DEF Abstract!Admissible
<1>1. State'[r] = "returned"
  OBVIOUS
<1>2. pc'[r] = "returned"
  BY <1>1 DEF State
<1>3. Abstract!Clean(Word', r, InUse')
  BY <1>2 DEF Promise, Abstract!Clean
<1> QED
  BY <1>3 DEF Abstract!Clean

LEMMA CallbackView ==
    ASSUME IInv, Promise', CallbackStep
    PROVE  Abstract!Next \/ UNCHANGED view
<1>1. CASE CallbackStart \/ CallbackApply
  <2>1. Word' = Word /\ Loaded' = Loaded /\ InUse' = InUse
    BY <1>1, QuietStep DEF CallbackStart, CallbackApply
  <2>2. State' = State
    BY <1>1 DEF CallbackStart, CallbackApply, State, calls
  <2> QED
    BY <2>1, <2>2 DEF view
<1>2. CASE CallbackReturn
  <2>1. /\ slot' = slot /\ images' = images /\ loader' = loader /\ pc' = pc /\ visit' = Tail(visit)
        /\ visit # <<>> /\ visit \in Seq(Images)
    BY <1>2 DEF CallbackReturn, calls, IInv, VisitOK, TypeOK
  <2>2. Word' = Word /\ Loaded' = Loaded /\ State' = State
    BY <2>1 DEF Word, Loaded, State
  <2> DEFINE i == Head(visit)
  <2>3. ToSet(visit) = {i} \union ToSet(Tail(visit))
    <3>1. \A k \in DOMAIN Tail(visit) : k + 1 \in DOMAIN visit /\ Tail(visit)[k] = visit[k + 1]
      BY <2>1
    <3>2. 1 \in DOMAIN visit /\ i = visit[1]
      BY <2>1
    <3>3. \A k \in DOMAIN visit : k # 1 => k - 1 \in DOMAIN Tail(visit) /\ Tail(visit)[k - 1] = visit[k]
      BY <2>1
    <3>4. \A x : x \in ToSet(visit) <=> \E k \in DOMAIN visit : visit[k] = x
      BY DEF ToSet
    <3>5. \A x : x \in ToSet(Tail(visit)) <=> \E k \in DOMAIN Tail(visit) : Tail(visit)[k] = x
      BY DEF ToSet
    <3> HIDE DEF i
    <3>6. ASSUME NEW x \in ToSet(visit) PROVE x \in {i} \union ToSet(Tail(visit))
      <4>1. PICK k \in DOMAIN visit : visit[k] = x
        BY <3>4
      <4> QED
        BY <3>2, <3>3, <3>5, <4>1
    <3>7. ASSUME NEW x \in ToSet(Tail(visit)) PROVE x \in ToSet(visit)
      <4>1. PICK k \in DOMAIN Tail(visit) : Tail(visit)[k] = x
        BY <3>5
      <4> QED
        BY <3>1, <3>4, <4>1
    <3>8. i \in ToSet(visit)
      BY <3>2, <3>4
    <3> QED
      BY <3>6, <3>7, <3>8
  <2>4. i \in Loaded /\ i \in Images
    BY <2>1 DEF IInv, RegisteredOK
  <2> HIDE DEF i
  <2>5. CASE loader \in Globals \/ i \in ToSet(Tail(visit))
    <3>1. InUse' = InUse
      BY <2>1, <2>2, <2>3, <2>5 DEF InUse
    <3> QED
      BY <2>2, <3>1 DEF view
  <2>6. CASE loader \notin Globals /\ i \notin ToSet(Tail(visit))
    <3>1. /\ InUse = Loaded \ ToSet(visit) /\ InUse' = Loaded \ ToSet(Tail(visit))
      BY <2>1, <2>2, <2>6 DEF InUse
    <3>2. InUse' = InUse \union {i} /\ i \in Loaded \ InUse /\ i \in InUse'
      BY <2>3, <2>4, <2>6, <3>1
    <3>3. (Loaded \ InUse)' = (Loaded \ InUse) \ {i}
      BY <2>2, <3>2
    <3>4. Abstract!Admissible(Word, i)
      BY <2>2, <3>2, AdmissibleInUse
    <3>5. Abstract!Admit(i)
      BY <2>2, <3>2, <3>3, <3>4 DEF Abstract!Admit
    <3> QED
      BY <2>4, <3>5 DEF Abstract!Next
  <2> QED
    BY <2>5, <2>6
<1> QED
  BY <1>1, <1>2 DEF CallbackStep

LEMMA LoadView ==
    ASSUME IInv, Promise', NEW i \in Images, LoadImage(i)
    PROVE  Abstract!Open(i)
<1>1. /\ loader \in {None, Dyld} /\ i \notin Loaded /\ loader' = Dyld /\ images' = Append(images, i)
      /\ slot' = [c \in Cells |-> IF c[1] = i THEN Cell(c).binding ELSE slot[c]]
      /\ visit' = IF registered THEN Append(visit, i) ELSE visit
      /\ pc' = pc /\ images \in Seq(Images) /\ visit \in Seq(Images)
  BY DEF LoadImage, calls, IInv, TypeOK
<1>2. loader \notin Globals /\ loader' \notin Globals
  BY <1>1, ActorsAssumption DEF Calls
<1>3. ASSUME NEW s \in Seq(Images) PROVE ToSet(Append(s, i)) = ToSet(s) \union {i}
  <2>1. /\ DOMAIN Append(s, i) = DOMAIN s \union {Len(s) + 1} /\ Append(s, i)[Len(s) + 1] = i
        /\ \A k \in DOMAIN s : Append(s, i)[k] = s[k]
    OBVIOUS
  <2> QED
    BY <2>1 DEF ToSet
<1>4. Loaded' = Loaded \union {i}
  BY <1>1, <1>3 DEF Loaded
<1>5. State' = State
  BY <1>1 DEF State
<1>6. ToSet(visit) \subseteq Loaded
  BY DEF IInv, RegisteredOK, ToSet
<1>7. InUse = Loaded \ ToSet(visit) /\ InUse' = Loaded' \ ToSet(visit')
  BY <1>2 DEF InUse
<1>8. Word' = [c \in Cells |-> IF ImageOf[c] = i THEN Binding[c] ELSE Word[c]]
  BY <1>1 DEF Word, ImageOf, Binding
<1>9. i \notin InUse \union (Loaded \ InUse)
  BY <1>1, <1>7
<1>10. CASE registered
  <2>1. ToSet(visit') = ToSet(visit) \union {i}
    BY <1>1, <1>3, <1>10
  <2>2. InUse' = InUse /\ (Loaded \ InUse)' = (Loaded \ InUse) \union {i}
    BY <1>1, <1>4, <1>6, <1>7, <2>1
  <2> QED
    BY <1>5, <1>8, <1>9, <2>2 DEF Abstract!Open
<1>11. CASE ~registered
  <2>1. InUse' = InUse \union {i} /\ (Loaded \ InUse)' = Loaded \ InUse /\ i \in InUse'
    BY <1>1, <1>4, <1>6, <1>7, <1>11
  <2>2. Abstract!Admissible(Word', i)
    BY <1>5, <2>1, AdmissibleInUse
  <2> QED
    BY <1>5, <1>8, <1>9, <2>1, <2>2 DEF Abstract!Open
<1> QED
  BY <1>10, <1>11

LEMMA StepView ==
    ASSUME Unloadable = {}, Agreeing, IInv, ScansOK, StoresOK, Promise', [Next]_vars
    PROVE  Abstract!Next \/ UNCHANGED view
<1>1. ASSUME UNCHANGED <<slot, images, loader, visit, pc>> PROVE UNCHANGED view
  BY <1>1, QuietStep DEF view, State
<1>2. ASSUME NEW r \in Globals, GlobalStep(r) PROVE Abstract!Next \/ UNCHANGED view
  BY <1>2, GlobalView
<1>3. ASSUME NEW r \in Locals, LocalStep(r) PROVE Abstract!Next \/ UNCHANGED view
  BY <1>3, LocalView
<1>4. ASSUME NEW a \in Actors, ScanStep(a) PROVE Abstract!Next \/ UNCHANGED view
  <2>1. CASE SkipSlot(a) \/ MatchSlot(a) \/ EndScan(a)
    BY <1>1, <2>1 DEF SkipSlot, MatchSlot, EndScan, dyld, calls
  <2> QED
    BY <1>4, <2>1, StoreView DEF ScanStep
<1>5. ASSUME NEW r \in Calls PROVE ~FaultInScan(r)
  BY DEF FaultInScan, Mapped, IInv, ScanOK, Actors
<1>6. ASSUME CallbackStep PROVE Abstract!Next \/ UNCHANGED view
  BY <1>6, CallbackView
<1>7. ASSUME NEW i \in Images, LoadImage(i) PROVE Abstract!Next
  BY <1>7, LoadView DEF Abstract!Next
<1>8. CASE LoadDone
  <2>1. UNCHANGED <<slot, images, visit, pc>> /\ visit = <<>>
    BY <1>8 DEF LoadDone, calls
  <2>2. Word' = Word /\ Loaded' = Loaded /\ State' = State /\ ToSet(visit) = {}
    BY <2>1 DEF Word, Loaded, State, ToSet
  <2>3. InUse = Loaded /\ InUse' = Loaded'
    BY <2>1, <2>2 DEF InUse
  <2> QED
    BY <2>2, <2>3 DEF view
<1>9. ASSUME NEW k \in DOMAIN images PROVE ~UnloadImage(k)
  BY DEF UnloadImage
<1>10. CASE Terminated \/ UNCHANGED vars
  BY <1>1, <1>10 DEF Terminated, vars, dyld, calls
<1> QED
  BY <1>2, <1>3, <1>4, <1>5, <1>6, <1>7, <1>8, <1>9, <1>10 DEF Next

\* The list, the once token, the callback, the enumerations and the scans that
\* read and store in separate steps together do what RorkHookRebind.h promises:
\* words change from replacee to replacement only, and a call returns, and an
\* image comes into use, only when nothing in scope is left.  Rebinds form no
\* chains, agree on what replaces what, and no image is unloaded.
THEOREM RebindingIsImplemented ==
    ASSUME Unchained, Agreeing, Unloadable = {}
    PROVE  Spec => Rebinds
<1>1. Init => Abstract!Init
  <2> SUFFICES ASSUME Init PROVE Abstract!Init
    OBVIOUS
  <2>1. Word = Binding
    BY DEF Init, Word, Binding
  <2>2. Loaded = ToSet(Initial) /\ InUse = Loaded
    BY ActorsAssumption DEF Init, Loaded, InUse, ToSet, Calls
  <2>3. State = [r \in Calls |-> "idle"]
    BY DEF Init, State
  <2> QED
    BY <2>1, <2>2, <2>3 DEF Abstract!Init
<1>2. Spec => []IInv
  BY InitIInv, NextIInv, PTL DEF Spec
<1>3. Spec => []StoresOK
  BY StoresInvariant
<1>4. IInv /\ OnceOK /\ Redirected => Promise
  BY PromiseHolds
<1>5. Spec => []Promise
  BY <1>2, <1>4, OnceInvariant, GapIsClosed, PTL
<1>6. IInv /\ ScansOK /\ StoresOK /\ Promise' /\ [Next]_vars => [Abstract!Next]_view
  BY StepView
<1> QED
  BY <1>1, <1>2, <1>3, <1>5, <1>6, ScansInvariant, PTL DEF Spec, Rebinds, Abstract!Spec, view
=============================================================================
