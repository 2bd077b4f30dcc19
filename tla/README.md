# RorkHook: TLA+ models and proofs

RorkHook is a C library that redirects functions in a running process on Apple
platforms. This directory holds TLA+ models of its core, TLC configurations that
check them on small instances, and TLAPS proofs for every value of the constants.
Paths below are relative to `src/Sources/RorkHook/`.

## 1. Inventory

| Component | State | Operations | Used by |
|---|---|---|---|
| **Rebind** (`RorkHookRebind.c`) | the lock-free list `gRebinds`, the once token, the symbol pointers of all images | `RebindSymbolInImage`, `RebindSymbolGlobally`, the dyld callback `HandleImageAdded` | callers, dyld |
| **Memory** (`RorkHookMemory.c`) | none of its own; page protections, the TPRO window of each thread | `StoreProtectedPointer`, `ProtectMemory`, `MakeMemoryWritable`, `MakeMemoryExecutable`, `SupportsTPRO`, `Begin`/`EndThreadTPROWrite` | Rebind, Function, callers |
| **Function** (`RorkHookFunction.c`) | none of its own; code pages, instruction caches | `ReplaceFunctionWithSize`, `ReplaceFunction`, `BuildAbsoluteJump` | callers |
| **Internal** (`RorkHookInternal.c`) | none | load-command validation and walk, image slide, VM region queries, pointer signing | all others |
| **Symbols** (`RorkHookSymbols.c`) | none | `FindSymbol`, `FindSymbolInFileImage`, `FindSymbolInFileImageWithSize` | callers |
| **SharedCache** (`RorkHookSharedCache.c`, `private/RorkHookDyldCache.h`) | the static path buffer and its once token; open descriptors and mappings during a call | `LocateSharedCache`, `FindSharedCacheSymbol`, `FindSharedCacheSymbolAtPath`, `FindSharedCacheSymbolInData` | callers |
| **Arm64** (`RorkHookArm64.c`) | none | seven decoders, `FollowOneBranch`, `SignExtend` | callers |

How they interact: a global rebind publishes an entry, registers one callback with
dyld and enumerates the images; both paths walk an image's load commands
(Internal) and write slots through `StoreProtectedPointer` (Memory). Callers run
on any thread; the callback runs on whichever thread holds dyld's loader lock.

What is hard here:

* several registrations, an image load and its callback interleave without a lock;
* a slot is compared in one step and stored into in another;
* page protections are read, changed and put back while other threads do the same;
* every kernel call may be refused half way through a transaction;
* instructions are patched while other cores fetch them from caches;
* tables read from memory or files carry sizes that must not lead out of the mapping;
* a path is built in several steps in a buffer that all threads share;
* files are opened, mapped and released on many paths while others change them.

What makes each component correct:

* Rebind: no registration is lost; no image is missed, whichever of the two paths
  finds it; hook libraries keep calling the original; only pointers to the
  replacee are rewritten, with a signature that fits; everything terminates.
* Memory: a store is made only where it is safe, leaves protection and window as it
  found them and reports what it did.
* Function: a function is seen as it was or wholly replaced; an error undoes the
  patch; threads that keep the caller's bargain do not fault.
* Internal: all commands or none are shown; no read leaves the mapping; a slide is
  exact or absent.
* Symbols: no table or string is read outside the memory that was checked; a result
  is the exact address of the first entry of that name, and what is there is found.
* SharedCache: the path is decided once and nobody sees part of it; a thread searches
  the files it opened for as long as it searches; nothing stays open or mapped; the
  answer is that of the file format; every call returns.
* Arm64: a decoder accepts exactly its instruction and reports what the processor does;
  the jump arrives.

`PROJECT.json` lists every hazard at its line with the properties that cover it.

## 2. Modules

| Module | Models | Extends |
|---|---|---|
| `GlobalRebind` | Rebind | - |
| `MCGlobalRebind` | constants for its runs | `GlobalRebind` |
| `Rebinding` | abstract: what `RorkHookRebind.h` promises a caller | - |
| `GlobalRebindProofs` | its theorems on the registry, on coverage, on single cells, and the refinement | `GlobalRebind`, TLAPS |
| `ProtectedStore`, `MCProtectedStore` | Memory | - |
| `ProtectedStoreProofs` | its theorems | `ProtectedStore`, TLAPS |
| `Detour`, `MCDetour` | Function | - |
| `DetourProofs` | its theorems | `Detour`, TLAPS |
| `MachOWalk`, `MCMachOWalk` | Internal: walk and slide | - |
| `MachOWalkProofs` | its theorems | `MachOWalk`, TLAPS |
| `Symbols`, `MCSymbols` | Symbols; Internal: region queries, signing | - |
| `SymbolsProofs` | its theorems | `Symbols`, TLAPS |
| `CacheSymbols` | SharedCache: the search in two mapped files, as a function | - |
| `SharedCache`, `MCSharedCache` | SharedCache: location, mapping, release; `SharedCacheSlide` | `CacheSymbols` |
| `OnceCell` | abstract: what `LocateSharedCache` promises | - |
| `SharedCacheProofs` | its theorems on ownership and the refinement | `SharedCache`, TLAPS |
| `CacheLookupProofs` | its theorems on the location and the search | `SharedCacheProofs` |
| `Arm64`, `MCArm64` | Arm64; Function: `BuildAbsoluteJump` | - |
| `Arm64Proofs` | its theorems | `Arm64`, TLAPS |

Definitions keep the names of the source without the prefix `RorkHook`;
`PROJECT.json` maps each to its lines. Operators named `Mut_...` are plausible
mistakes in the definition that follows them: put in its place, each makes the
property it is listed with fail.

### GlobalRebind

One call of the API per thread (`Globals`, `Locals`); `pc` says where each stands.
`gRebinds` is the list, newest first; `head` is what a publishing call last
observed. Entries are immutable and never removed, so comparing heads is comparing
lists. `once` is the dispatch-once token: `OncePass` waits for its end. `images`,
`loader`, `registered` and `visit` are dyld as the code uses it: an ordered list of
images, one lock, and a queue of images to hand to the callback. `slot` is the
pointer in every symbol-pointer cell; a pointer is an address with a signature.
`scan` is the image scan an actor is in: `MatchSlot` reads, `StoreSlot` stores.

| Action | Code |
|---|---|
| `Reject`, `LoadHead` | argument checks, `dladdr`, `malloc`, first load of the head |
| `Publish`, `PublishFails` | the compare-exchange loop |
| `OnceEnter`, `OncePass`, `RegisterCallback`, `RegisterDone` | `dispatch_once` around `_dyld_register_func_for_add_image` |
| `CountImages`, `Enumerate`, `Return` | the enumeration |
| `CallInImage`, `ReturnInImage` | `RebindSymbolInImage` |
| `SkipSlot`, `MatchSlot`, `StoreSlot`, `EndScan` | `RebindSection` over all sections |
| `CallbackStart`, `CallbackApply`, `CallbackReturn` | `HandleImageAdded` |
| `LoadImage`, `LoadDone`, `UnloadImage` | dyld (external) |
| `FaultInScan` | a scan of an image that was unloaded |

Abstractions: the walk over segments and sections is flattened into a sequence of
cells per image (`Layout`); a malformed load-command table is "no scan"
(`WellFormed`, justified by `MachOWalk`); a store is one step that succeeds on a
writable cell (`ProtectedStore` opens it up). Atomics are sequentially consistent:
the code publishes with release and the callback loads with acquire, and dyld's
lock orders the image count against callbacks.

`Rebinding` says the same to a caller, without list, token, queue and scans: a call is
made or refused; words in its scope turn, one at a time, from the replacee to the
replacement, and no word changes otherwise; a call returns only when no image in use has
such a word left; dyld opens an image with the words it binds, and lets it into use only
when what has returned holds for it too. `GlobalRebind` implements it (`Rebinds`) with
`word` mapped to the addresses in the cells and `inUse` to the loaded images that are
not queued for the callback. While a call registers the callback, the queue holds images
whose code already runs, so these are in use as well (`InUse`). A word is in the scope of
a call if the call covers its image, its section is scanned and its page can be made
writable.

### ProtectedStore

Each kernel call of `StoreProtectedPointer` is a step of its own. Pages and slots
are numbers, so that a slot may lie across two pages, at the end of the address
space, at NULL or on unmapped memory. `env` is the device and process: TPRO in
hardware, enforced, reported by the OS or found by probing. A page can be written if
it is mapped writable and, when it is TPRO-gated and the process enforces TPRO, the
thread's window is open as well: `RorkHookMemory.h` says that the window is not a
memory-protection change. A write that is not allowed leads to `"faulted"`.
The kernel may refuse to change pages in `Refusable`, gated or not. `asked`, `before` and
`unrestored` are history for the properties. It is assumed that probing tells the
truth: a window opens exactly in a process that enforces TPRO. With OS-reported
configuration the window may also fail to open.

`NoFault` is what `RorkHookMemory.c` says of the test before the `memcpy`, and it does not
hold (`RefusedFaults`; two stores on one page, below). `FaultsOnlyWhenRefused` is what does hold of
stores that keep apart: a store faults only if its `vm_protect` was refused, a page of its
slot is not writable, and the window, being open, was taken for permission.

Regions do not wrap around the end of the address space and pages are never unmapped, so
the rejection of a wrapped region end in `RorkHookQueryRegion` and the failure of
`RorkHookMemoryProtection` behind a successful check for readability have no counterpart.

### Detour

`memcpy` writes one instruction per step; `fetchable` holds what a core may fetch at
an address: writing adds the new instruction, invalidating the instruction cache
leaves only what is in memory. `KeptAway` is the caller's side of the bargain:
other threads stay out of the patched *range* (the header's wording) or out of its
*page*, that is, they run no function that has a page in common with it. A refused restoration leads to the copy-back path. `latest` is history: what
the last successful call left at an address. A thread that faults stops; the others
go on.

### MachOWalk

One walk over one table: validation, then delivery to the slide visitor. Structure
sizes, the wrap of 32-bit counters and the range of `intptr_t` are parameters.
`reads` and `visited` record every access and every delivered command. The table does
not change during a walk.

### Symbols

One lookup in one image. `call` holds the function and its arguments together with
the image: its load commands, the memory regions around it, and what an nlist entry
or a string read at each address would be (`Contents`). `FindSymbol` and
`FindSymbolInFileImage` check where the tables are, `SearchEntry` is one turn of the
loop, `TranslateLive` and `TranslateFile` turn the value that was found into an
address. Sums wrap at `Limit` as they do in C; the properties say in unbounded
integers what should come out. That the load-command table validates is an input
(`valid`, `tableSize`): `MachOWalk` is about that. The regions around an image are
disjoint, and nothing is mapped at address 0, which `RorkHookQueryRegion` rejects. On the 64-bit targets the tests
for values above `UINTPTR_MAX` are always false and have no counterpart.

### SharedCache, CacheSymbols, OnceCell

Threads call the three functions; `pc` says where each stands. A path is the sequence
of the strings it was put together from, and only the lengths of these matter for
`PATH_MAX`. `once`, `cachePath` and `probe` are the token, the static buffer and the
loop index of `LocateSharedCache`; every write of the buffer is a step, so that a
thread that is let through too early is seen to read half a path. `open` and `memory`
are the kernel's tables of descriptors and mappings, filled from the lowest free number
as the kernel does: a second `close` or `munmap` of the same number hits whoever got
it meanwhile. `world` is the process: what dyld, the environment, the directories and
`task_info` say, the files, and whether system calls fail. `seen`, `opened` and
`changed` are history.

| Action | Code |
|---|---|
| `Enter` | the entry of each function, with its checks for NULL |
| `OnceEnter`, `OncePass`, `LeaveBlock` | `dispatch_once` in `LocateSharedCache` |
| `AskDyld`, `CheckActive` | dyld's path, and whether it can be read |
| `ChooseBase` | private, cryptex or system base path, one only |
| `PutSuffix`, `CheckSuffix`, `NotLocated` | the loop over suffixes |
| `Open`, `OpenFails`, `Stat`, `StatFails`, `Mmap`, `MmapFails`, `Close`, `Reject` | `MapFile`, for the main file and the sidecar |
| `Sidecar`, `Lookup`, `UnmapSidecar`, `UnmapMain` | `FindSharedCacheSymbolAtPath` |
| `ReplaceFile` | the file system changes (external) |

`CacheSymbols` is `FindSharedCacheSymbolInData` as a function of two files, each
given by what would be read at each offset. It reads private read-only mappings, so
one step is enough. `MainReads`, `LocalReads` and `NameReads` say which ranges the
loops read before they stop; the reference definitions in `SharedCache` (`HasPath`,
`IsSymbolOf`, `WellMade`) say what the format means, in unbounded integers and file
offsets. Every field of a file is an unsigned number (`IsFile`), and a well-made cache
is a regular file: `MapFile` rejects everything else. A file that is truncated under its
mapping is left out.

Two promises of `RorkHookSharedCache.h` are stated as the header has them and do not hold.
`FallsBack`: when dyld names no readable path, the private, the Cryptex and the system
location are tried in this order until one has a cache; the code probes only the first of
them that the process has. `FirstChoice` is what is left: a path that is found is the
header's, and none is found only if there is none or the first location has none.
`AddressesLiveCache`: a pointer is corrected by the slide of the live mapping
(`TrueSlide`); where the slide cannot be read, the code takes 0. `ResolvesRightly` is exact
about both cases, and `FindsWhatIsThere` is about calls that know their slide.

`OnceCell` is a value decided at most once and handed out whole. `SharedCache`
implements it with `value` mapped to `cachePath` once the token is done and undecided
before, and `got` to the paths the threads were given (`LocatesOnce`).

### Arm64

One call of a decoder on an assembled instruction, or the encoding of a jump and its
execution by a processor of which only `MOVK` and `BR` matter. Words, registers and
64-bit constants are sets of bit numbers, so masks are intersections and shifts move
the bits. What the code computes with as a number has `Width` bits and
pages `2 ^ PageShift` bytes: 64 and 12 in the code, and the theorems cover every `Width` from
28 on. TLC's integers have 32 bits, so the run uses 30 and pages of 16 bytes, which leaves
the 21-bit page count of `ADRP` and the 26-bit word count of `B` at their real widths and
both able to leave the address space. The opcodes in the decoders are the masks and
constants of the source, bit by bit; those in `Opcode` are the architecture's, and the
properties relate the two. The shift of an `ADD` is one bit in the architecture and two in
the source, whose mask has ruled out the second; what is assembled has a shift field as
wide as its instruction's (`InstructionsAssumption`). A decoder writes only the outputs it
sets over what the caller's storage held (`Over`). Without pointer authentication
destinations carry no signature bits (`CallsAssumption`).

## 3. Runs

| Run | Result | Question and bounds |
|---|---|---|
| `Distinct` | pass | Two registrations of different functions in an arm64e process with five images, one malformed, one loaded late; authenticated, raw, decorated, unwritable and unscanned cells; one registration with a filter. Every step is one of `Rebinding` or changes nothing there. The two calls and the load contend for the list, the once token and the loader lock; under fairness every call returns and every holder of the loader lock releases it. Both calls are global; with image-local ones the theorem covers the refinement. |
| `Unloading` | pass | A plugin is unloaded and loaded again at any time, also under a scan; two global calls and one image-local call. Only what must hold even then is checked. |
| `Apart` | pass | Two threads on pages of their own, one slot across pages with different protections, seven environments, changes refused on gated pages and on others, invalid slots, pages made unreadable. |
| `DetourPage` | pass | Three detours of two functions of a page, all invalid arguments, refusals at each vm_protect, two threads running the functions. |
| `Walk` | pass | All tables of up to three commands over eight kinds of command, all table sizes and counts that fit, and all pairs of addresses of a 4-bit address space. |
| `Lookup` | pass | 17,000 calls in a 5-bit address space: segments moved up, down, too far or out of the address space, tables below, inside, at the end of and behind their segment or file, empty, short and missing commands, undefined, unnamed and unterminated entries, zero-filled, overlapping and overflowing segments. |
| `Cache` | pass | 6,500 processes: every file that differs from a good one in two of 23 fields, as the main file, and in one as the sidecar; every combination of what decides the location, with base paths at the edges of `PATH_MAX`; two threads at once while files come and go or any system call fails. |
| `Arm64` | pass | 21 kinds of instruction, immediates at every edge, addresses at both ends; sign extension from -1 to more than the full width; jumps to signed and raw destinations from registers that hold anything. |
| `SharedKeepsOriginal` | violation | Two libraries hook one function. Each registration excludes its own library only, so each redirects the other's calls of the original. |
| `TogetherBalanced` | violation | Two stores on one page: the second takes the first one's temporary protection for the original, and the page stays writable. Concurrent global rebinds do this on shared `__DATA_CONST` pages. |
| `RefusedFaults` | violation | One store in a process that uses TPRO, on a read-only page that TPRO does not gate; `vm_protect` is refused, the window opens, and the `memcpy` faults. Breaks `NoFault`. |
| `DetourNeighbour` | violation | A thread that stays out of the patched range, but runs another function of the page, fetches from a page that is not executable. |

Five more disagreements show up when another property is checked on the instance of one of
these runs; TLC finds each violated.

| Instance | Property | What happens |
|---|---|---|
| `SharedKeepsOriginal` | `RewritesOnlyReplacee` | Two calls give one function different replacements in one image. A scan reads the cell, another one stores, and the first stores over it; `RorkHookRebind.h:17-18` speaks of slots "already resolved to `replacee`". |
| `TogetherBalanced` | `NoFault` | Two stores on one page, nothing refused: the first one's restoration makes the page read-only before the second one's `memcpy`. |
| `DetourNeighbour` | `NoStoreFault` | Two detours of disjoint ranges of one page: the first one's restoration takes the write permission from under the second one's `memcpy`, though the callers keep to `RorkHookFunction.h:40-42`. |
| `Cache` | `FallsBack` | The first location that the process has is without a usable cache and a later one has one: no path is found, against `RorkHookSharedCache.h:17-21`. |
| `Cache` | `AddressesLiveCache` | `task_info` does not give the slide: the unslid address is returned, against `RorkHookSharedCache.h:33-37`. |

Why the bounds suffice. The races need two registrations, one load and one image
that several actors scan; a third registration adds only longer lists, which the
theorems cover. A store involves at most two pages, and stores interfere pairwise. A
jump of two instructions is enough to be torn. A table of three commands has a
first, a middle and a last one, and command sizes include zero, misaligned, too
large and large enough to wrap the counter. Two threads are enough for the cache: one
in the block and one that waits, or one that releases and one that is given the same
address; the theorems cover more. The lookup's tests of two fields interact (an offset
and a count, a size and the file's size), hence pairs of changes. `CHECK_DEADLOCK FALSE` is used where the
system stops: a walk, a lookup or a decoder ends, and a process whose thread faulted makes no further
progress there. `Distinct` and `Unloading` check for deadlock, with an
explicit `Terminated` step for the regular end.

Fairness (`FairSpec` of `GlobalRebind`): a thread inside a call keeps running, a
running callback gets on, and a thread that loads images leaves dyld. These are the
scheduler's promises; nothing obliges a call to be made or an image to be loaded.
The number of images is finite in the run, so weak fairness on the loader lock is
enough; with endless loading a thread could starve at the lock. `FairSpec` of
`SharedCache`: a thread in a call keeps running. `open` is called with `O_NONBLOCK`, so
it does not wait for the writer of a FIFO, and the other system calls do not wait for anybody;
files need not stop changing, since every call takes a bounded number of steps.

## 4. Proofs

Every invariant, action property and refinement that a passing run checks is also a
theorem. The theorems hold for every value of the constants that satisfies the modules'
named assumptions, which TLC evaluates in each run.

Some theorems have a hypothesis of their own. Each is a condition on the callers that
the code does not enforce; each holds in the passing run that checks the property, and
without it there is a counterexample.

| Hypothesis | Says | Without it |
|---|---|---|
| `Unchained` | no replacement is another call's replacee | f redirected to f1 and f1 to f2: the callback applies the newest entry first, and an image loaded later ends at f1 |
| `Unloadable = {}` | no image is unloaded | with a `dlclose` during the enumeration the images behind the closed one move down, and the next of them is skipped |
| `OriginalsLeftAlone` | no other call hooks a function in a library that hooks it itself | run `SharedKeepsOriginal` |
| `Agreeing` | two calls that hook a function in one image name the same replacement | `RewritesOnlyReplacee` on the instance of `SharedKeepsOriginal` |
| `KeptApart` | threads store to pages of their own, which no other thread's `ProtectMemory` touches | run `TogetherBalanced` |
| `KeptAway = "page"` | other threads stay off the page of a detour | run `DetourNeighbour` |
| `EnoughForAll` | a descriptor and two addresses for every thread | `open` and `mmap` fail because others have used up what there is |

### Rebind: `GlobalRebindProofs`

For every number of calls, images and cells:

* `TypeCorrect`: types, and that the callback always has an image to work on.
* `RegistrationsStay`: `NoEntryLost`. The inductive part (`RegistryOK`) says that the
  list holds exactly the published calls, each once.
* `GapIsClosed`: `Redirected`, under `Unchained` and `Unloadable = {}`. The inductive
  invariant `IInv` says that every covered image is clean, or that the call's own
  enumeration, the callback's queue, its remaining list or a scan in progress still
  has it ahead (`CoverageOK`); that a scan leaves clean cells behind it (`ScanOK`);
  and that the callback is registered before any call counts images
  (`RegisteredOK`). An image loaded before the count is in the enumeration; one
  loaded after it finds the callback registered and the entry published.
* `SlotsStayFit`: `SignaturesFit`, without a hypothesis. Every cell has the
  signature of its binding or the one that fits its section (`SigOK`), since the pointer
  that is stored is stripped before it is signed anew.
* `OriginalsAreKept`: `KeepsCallingOriginal`, under `OriginalsLeftAlone`. A cell that no
  call is after holds what dyld bound it to, and no scan is about to store into it
  (`KeptOK`): a filter or a library's own exclusion is looked at when the scan begins,
  and the scan keeps its call and its image (`ScansOK`).
* `StoresRewriteReplacees`: the action property `RewritesOnlyReplacee`, under `Unchained`
  and `Agreeing`. A cell holds its binding or the replacement of a call that was after
  the binding, and a scan about to store has read the binding, in a cell that is scanned
  (`StoresOK`): if another scan stored meanwhile, it stored the same pointer.
* `RebindingIsImplemented`: `Rebinds`, that is, `Spec` implements `Rebinding!Spec`, under
  `Unchained`, `Agreeing` and `Unloadable = {}`. `StoresOK` makes a store a `Redirect` of
  its call, or no change where another scan came first. The end of a call is `Finish`,
  loading is `Open`, the end of the callback for an image is `Admit`, and everything else
  changes nothing. What `Finish`, `Open` and `Admit` ask for is that, after the step, no
  image in use has a word left that a call that has returned is to redirect (`Promise`);
  it follows from `Redirected` once it is known who may hold the loader lock in the
  once block (`OnceOK`): as long as the callback is being registered no global call has
  returned, so that counting the queued images as in use promises nothing too early.

### Memory: `ProtectedStoreProofs`

For every number of threads, pages, slots and environments:

* `TypeCorrect`: `TypeOK`.
* `FaultsAreRefusals`: `FaultsOnlyWhenRefused`; `StoresAreBalanced`: `Balanced`;
  `ResultsAreTruthful`: the action property `Truthful`; all under `KeptApart`. The kernel
  may refuse any change.

The inductive invariant says of each store, by its position in the code, what it has
saved, what the pages under its slot allow and whether the window of its thread is open;
and of each page that it is as its owner protected it, unless a store that is responsible
for it is between making it writable and putting it back (`Dirty`), or a restoration was
refused. A store at its `memcpy` has made its pages writable, with the window open if they
are gated, or was refused and has the window open; in the second case a page that is not
writable is where it faults, and it stays so (`FaultOf`), since the store is the only one
on its pages.

### Function: `DetourProofs`

For every number of calls, runners, pages, and length of the jump:

* `TypeCorrect`: `TypeOK`, and that a function being run and a range being patched lie in
  code; the range within one page, which is what the test against the page size is for.
* `DetoursAreSeenWhole`: `RunsLatest`; `NobodyLosesExecution`: `NoFetchFault`;
  `StoresDoNotFault`: `NoStoreFault`; `ProtectionComesBack`: `ProtectionRestored`; all under
  `KeptAway = "page"`.

The inductive invariant has a part on pages: at most one call works on a page, and nobody
runs there meanwhile (`Alone`), and the call's position determines the page's protection
(`ProtOK`); and one on code (`CodeOK`): outside of the range of a call at work, memory
holds what the last successful call left and a core can fetch nothing else; inside, the
saved instructions are what has to come back.

### Internal: `MachOWalkProofs`

For every table, size of structures and width of the counter, without a hypothesis:

* `TypeCorrect`: `TypeOK`. `ReadsAreMapped`: `ReadsStayMapped`. `WalkIsAllOrNothing`:
  `AllOrNothing`. `SlideIsTheDistance`: `SlideIsExact`.

The first loop leaves a path behind it: the offset of every command so far, each within
the table, aligned and where the one before ends (`ValidateOK`). Once it is complete, it
is the only way to tile the table, so that the second loop, which checks nothing, follows
it command by command (`DeliverOK`), and the table is well formed in the sense of
`AllOrNothing`. That the 32-bit counter does not wrap on this path is part of it: the
offsets stay below a size that was itself read from 32 bits.

### Symbols: `SymbolsProofs`

For every image, arguments and width of addresses, without a hypothesis:

* `TypeCorrect`: `TypeOK`. `ReadsAreInside`: `ReadsStayInside`. `LookupIsSound`:
  `FoundIsRight`. `LookupIsComplete`: `FindsWhatIsThere`.

`SearchOK` says, once the checks have passed, where the tables lie in unbounded integers,
that is, that none of the sums that were made modulo `Limit` has wrapped, and that no
entry before the current one matches; `TranslateOK` that the value at hand belongs to the
first one that does; `ReturnedOK` what this makes of the result. The proof of completeness
found that a file image at address 0 is never accepted, which `FindsWhatIsThere` now
takes into account.

### SharedCache: `SharedCacheProofs`, `CacheLookupProofs`

For every number of threads, descriptors, addresses, files and processes:

* `TypeCorrect`: types, and that a thread between `open` and `close` has a descriptor.
* `ViewsAreKept`: `ViewsStayMapped`. No step of another thread takes a mapping away
  from a thread that searches in it.
* `NoLeaks`: `NothingLeaks`. Between calls nothing is open or mapped.
* `LocationRefines`: `LocatesOnce`, that is, `Spec` implements `OnceCell!Spec`. Leaving
  the block is `Decide`, `OncePass` is `Answer`, and everything else is a stuttering step.
* `SearchStaysInBounds`: `ReadsAreBounded`. `FoundSymbolsAreRight`: `ResolvesRightly`.
  `LocatesFirstChoice`: `FirstChoice`.
* `SymbolsAreFound`: `FindsWhatIsThere`, under `EnoughForAll`.

The inductive invariant `IInv` says who owns what. Every open descriptor belongs to
exactly one thread, which is between `open` and `close` (`Descriptors`). Every mapping
belongs to one thread under one name (`Mappings`): `WithMain` and `WithSide` are the
threads that have the main file or a sidecar mapped at their point of the code, and
without a sidecar the second name of the main mapping is no claim to it, which is what
`hasSidecar` guards before `munmap`. `Location` says that at most one thread is in the
block, only while the token says so, and which paths the buffer may hold at each of its
steps; `Answers` that who was given a path was given the decided one; `Roleplay` fixes
when a thread is at its sidecar.

The other theorems add to it. The search is a function of two files, and lemmas about
this function say that it reads within bounds (`SearchStaysInBounds` needs no more, since
a thread at its search has the files it opened mapped), that what it finds is right, and
that in a well-made cache it finds what is there. `ResultOK` carries the second over from
the search to the return. `Choosing` says that, while no file has changed, everything
before the current probe is unusable, and that the base is the first location offered. `Sidecars` says that, while no file has changed and
no call fails, a thread behind its sidecar has one exactly if there is one to be had; that
`open` and `mmap` succeed is counted: every descriptor and every address in use belongs to
another thread, or is this thread's own main mapping, so that one is free.

### Arm64: `Arm64Proofs`

For every width of addresses from 28 bits, instruction, register, immediate and
destination, without a hypothesis:

* `DecodersAreRight`: `DecodesWhatTheProcessorDoes`. `BranchesAreFollowed`:
  `FollowsTheBranch`. `SignsAreExtended`: `ExtendsTheSign`. `JumpArrives`: `JumpLands`.

A number is the sum of the powers of two of its bits. Lemmas say what becomes of the sum
when a field is placed in a word, cut out of it, shifted or extended by its sign, and that
a sum of bits below n is less than `2 ^ n`; they need induction, which is had from the least
number that lacks the property (`Least`), and `2 ^ (n + 1) = 2 * 2 ^ n` from the number of
subsets of a set. Each mask of the source is then shown to select exactly one of the
assembled instructions: every other opcode differs from it in a bit that the mask keeps
and no operand reaches. The jump needs an inductive invariant (`IInv`): before it runs,
nothing has been built (`Fresh`); while it runs, the code is the jump to the destination of
the call, and register 16 holds as many of its 16-bit pieces as instructions were executed
(`Running`). The proof found that the model assembled an `ADD` with a shift of two bits,
which no such instruction has.

### Only model-checked

Liveness (`CallsReturn` of `GlobalRebind` and of `SharedCache`, `LoaderReleased`): the prover
does not handle fairness.

## 5. Not modelled

* Whether a cache and its `.symbols` file belong together: `symbolFileUUID` is not
  compared by the code, and with a file replaced in between the search runs on the pair
  that was opened.
* A cache file truncated while it is mapped (the search would fault).
* The 32-bit targets, where some tests against `SIZE_MAX` and `UINTPTR_MAX` can fail.
* Version: a constant. Tests: read as documentation.
* Weak memory; a slot whose lazy binding dyld resolves during a scan.
* An image rewritten or unmapped between validation and delivery of its table.

## 6. Plan

1. Done: Rebind, then the store it rests on, detours, the load-command walk,
   symbol lookups, the shared cache with its abstract cell, decoders and jump encoding.
2. Done: a theorem for every safety invariant and action property of every component.
3. Done: an abstract specification of rebinding, implemented under the assumptions of the
   theorems. That a store is one step there rests on `Truthful` and
   `FaultsOnlyWhenRefused` of `ProtectedStore`, under `KeptApart`.
4. Left: `GlobalRebind` and `ProtectedStore` composed, so that concurrent rebinds meet the
   page protections that `TogetherBalanced` is about; chained rebinds with a specification
   of the order in which the callback applies them.
