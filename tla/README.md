# A formal model of ngagerecomp

ngagerecomp turns an ARM game for the Nokia N-Gage into C (`recompiler/`) and runs
that C on a small runtime that stands in for Symbian (`runtime/`). This directory
specifies the runtime's stateful parts and the lifter's translation of instructions
and of control flow in TLA+, model-checks them with TLC on small instances and
proves the results that matter most with TLAPS for every value of the constants.
Paths like `scheduler.c` are those under `runtime/src/` or `runtime/src/hle/`;
`lift.py` is `recompiler/lift.py`.

How to run it: `tlc -config <cfg> <module>` for a row of the table of runs,
`tlapm <Component>Proofs.tla` for a module of proofs. `PROJECT.json` says which
source lines each definition stands for and gives, for each property, a bug in the
code that would violate it.

## 1. The system

| Component | State | Operations | Interacts with |
|---|---|---|---|
| guest heap (`heap.c`) | `g_base`, `g_end`, `g_brk`; block headers inside guest memory | init, alloc, alloc_zeroed, free | every shim that makes an object; unwinding frees into it |
| dispatch table (`dispatch.c`) | `g_tab`, `g_n`, `g_cap`, `g_dirty` | register, call (lazy sort, bisection) | generated code and shims call through it; object factories register while the game runs |
| object factory (`hleobj.c`, `fbserv.c`), audio (`media.c`), window server (`wserv.c`) | lazily built vtables, one "universal" object | make an object, call a slot of it | heap and dispatch table |
| calls, leaves, cleanup stack (`kernel.c`, `dispatch.c`, `euser.c`, `debug.c`) | `g_traps`, `g_cleanup`, `ngage_stack`, `ngage_calldepth` | call, run, leave, push, pop, pop-and-destroy, panic, exit, fault report | longjmp crosses every other component's C frames |
| active scheduler (`scheduler.c`) | `g_active`; `iStatus`, `iActive` in guest memory | Add, SetActive, RequestComplete, step, event injection | calls guest code, which calls back into it and may leave |
| periodic timers (`scheduler.c`) | `g_per`, `ngage_g_ticks` | NewL, Start, TickCount, After, pump | as above |
| file server (`efsrv.c`) | `g_fh`: guest object to `FILE*`; host files | Open, Create, Read, Write, Seek, Size, Close | host file system, descriptors |
| descriptors (`desc.c`, `descriptors.c`, part of `euser.c`) | five layouts in guest memory | decode, construct, set length, copy, fill, read a file into | generated code reads and writes the same bytes |
| bitmaps, framebuffer (`fbserv.c`, `framebuffer.c`) | `g_bm`, pixel buffers in guest memory; `g_rgb` | ctor, Create, Load, getters, flip, snapshot | heap, object factory |
| lifter: data processing (`lift.py`, `ngage_runtime.h`) | emitted C over `c->r`, `c->cpsr` | one C statement per instruction | the rest of the generated code |
| lifter: multiplication; integer division (`softfloat.c`) | as above | as above; three imports | the flags of data processing |
| lifter: loads, stores, block transfers | emitted C over `c->r`, `c->mem` | one sequence of C statements per instruction | guest memory accessors, descriptors |
| lifter: control flow (`lift.py`) | labels, jump tables, C activations | branches, calls, tail calls, switches, returns | dispatch table |
| accessors, guard, watchpoint (`ngage_runtime.h`, `debug.c`) | memory bounds, watch address | read, write, fault | every guest access |
| image loader (`image.c`) | guest memory | copies segments once | heap window, accessors |
| discovery and generators (`extract*.py`, `gen_*.py`, the rest of `lift.py`) | files | one pass over an image | produce the generated tables |
| control environment (`coe.c`), floating point (`softfloat.c`), import table (`ngage_hle.h`), oracle harness, configuration | none | — | — |

There is one thread. What makes the runtime hard is not parallelism but
re-entrance and non-local exits: the host calls guest code (a `RunL`, a timer
callback, an entry point), the guest code calls shims that change the very list the
host is walking, and a leave may jump over all of it. The second hard thing is
staleness: tables are keyed by guest addresses, and guest addresses are used again.
The third is arithmetic at the end of a range: sizes near 2^32, shifts by the width
of a word, depths at the end of an array, offsets of block transfers, a length that
shares its word with a type. The fourth is that C functions and their activations
replace the ARM's program counter: whether a `bx` is a call or a jump is decided by
its neighbours.

What makes each component correct:

- heap: live chunks are disjoint and large enough; the walk over headers meets every
  block; zeroed memory reads zero.
- dispatch: an address reaches its handler exactly when it was registered before,
  however registrations and calls alternate.
- factories: a virtual call reaches its method, pointers chased out of an object stay
  valid, the table does not grow with the objects.
- leaves: a leave frees exactly what was pushed since the nearest `ngage_run`, never
  an object twice; recursion is caught before the host stack runs out; reports name
  the real callers.
- scheduler: a step runs an object at most once and every completed one; a completion
  is never forgotten, whatever else happens during the step.
- timers: at most one call of a timer a frame, time moves between them, a pump ends.
- file server: one cursor for each open object; a file that was created is the one that is
  opened, unless one that can only be read is in an earlier place.
- descriptors: one keeps the type, maximum and pointer it was built with, and a call
  writes to no text but its own.
- bitmaps: one entry per bitmap, buffers as large as their shape, reads and writes of
  the flip stay inside, for sizes whose bytes 32 bits can count.
- lifter: the emitted C leaves registers, flags and memory as the ARM does, and goes
  where the ARM goes.

## 2. Modules

    Heap ─ refines → Allocator              MCHeap        HeapProofs
    Dispatch ─ refines → Directory
      └ Objects (factories over the table)  MCObjects     ObjectsProofs
    Kernel                                  MCKernel      KernelProofs
    ActiveObjects                                         ActiveObjectsProofs
    Periodics                                             PeriodicsProofs
    FileServer ─ refines → Cursors          MCFileServer  ServersProofs
    Bitmaps                                 MCBitmaps     ServersProofs
    Words ← Lifted ─ agrees with → Arm
      └ Products (and divisions)            MCLifted      LiftedProofs
    GuestMemory ← Transfers ─ agrees with → ArmTransfers   CodeProofs
      └ Descriptors ─ refines → Strings     MCTransfers
    Flow ─ refines → ArmFlow                MCFlow        CodeProofs

An indented module EXTENDS the one above it: it has the same variables and interleaves
its own actions with those. Every module keeps the names of the C variables and has
one action per operation. A definition whose comment begins with "Slip:" is not
part of the specification: it is the bug by which `PROJECT.json` shows that a
property can fail.

**Heap.** `brk`, `size`, `free` are `g_brk` and the two header words, by header
address; `dirty` is the set of words that may hold something else than 0; `asked` is
a history variable. Arithmetic is modulo `Word`. The loop of the C code is the set
`Fitting` (headers below the frontier that are free and large enough) of which
`FirstFit` takes the lowest; that the loop really visits all headers, by adding
sizes, is the invariant `WalkVisitsEveryBlock`. `Allocator` knows no blocks, only
disjoint chunks, and lets an allocation fail at any time.

**Dispatch.** A call is three kinds of step (`Sort`, `Bisect`, `Finish`), and a
sort may leave entries of equal address in any order, as `qsort` does. `Directory`
is a set of known addresses.

**Objects.** The factories build their vtables over `Dispatch`: a factory decides
what is allocated and queues the methods to register in `pending`, `RegisterNext` is
one turn of its loop. Each allocation fails or not, as one choice, because the heap's
room is not part of the state. `held` is an object the game has, with what its words
should lead to; `failed` is history. With the soft guard a failed allocation gives
address 0, where writes are dropped.

**Kernel.** `frames` are the activations of `ngage_call` that are really on the host
stack, `calldepth` and `stack` what the code believes of them. `LeaveTo` is
`ngage_leave` from the unwinding over the longjmp to the return of `ngage_run`.
`promised` is the cleanup stack as a guest that keeps Symbian's rules sees it, and
`lost` counts activations abandoned by leaves.

**ActiveObjects** and **Periodics.** `running` says whose code is executing; while
it is guest code, the shims are enabled in any order, including those that change
the list the host is walking, and `GuestLeaves` abandons the step or pump. Objects
are destroyed and built again at the same address, and in `ActiveObjects` the memory
of a destroyed object that is still listed may be given to something else
(`Overwrite`), after which `ngage_call_vmethod` calls whatever method it finds there or
refuses it (`RunRefused`). Guest
code that the host enters apart from steps and pumps (boot code, a key event,
`Draw`) is `EnterGuest`.

**FileServer.** A host file is its length. A name is the sequence of paths `open_path`
tries: Open takes the first that is a file (`files`), Create the first where it can write
(`Creatable`), and there may be files where it cannot. Every call is total: unknown objects,
a full table and failing opens give the code's reply. `Cursors` is a map from objects to
cursors.

**Bitmaps.** A buffer is its size and the number of words that are not zero; the
flip and the snapshot choose the entry with the most. After a `Load` onto an entry
that has a buffer, size and buffer do not fit each other any more; the history
variable `stale` marks these entries. Sizes are computed as the C code does, in `Word`
values and with a division that rounds to zero, so that a size may wrap; a request beyond
`Largest` wraps in the heap. `Fits` says when none of this happens. For entries that are
stale or do not fit (`Regular`) the count may be anything.

**Lifted, Products, Transfers.** An action is the C code emitted for one instruction, in the
order of its statements; `Holds` is the table of C conditions, `AddFlags` and `SubFlags` are
the helpers of the header. `Arm` and `ArmTransfers` are written from the architecture and
share only the shapes of instructions (`Words`, `GuestMemory`) with them: subtraction is
addition of the complement, overflow is a signed sum that its word does not show, all
addresses come from the registers before the instruction, and a word is accessed at the
multiple of four below its address and turned by the rest. `ProductsImplementArm`,
`ImplementsArm` and `TransfersImplementArm` compare instruction by instruction: the step of
an instruction must not be excused by another instruction that would have had the effect.
For `Lifted` and `Products` that is a state predicate over all instructions, so that code
that changes nothing is compared as well. An undefined C shift or quotient gives any word.
The loops of block transfers are functions of the register number (`Stored`, `Popped`), one
access after the other as in the code. `Exact` names the addressing forms that the
translation gets right, and `Aligned` the addresses: the runtime's accessors take the bytes
of a word where they are. `ProgramIsExact` has TLC evaluate `Exact` on the program of the
run, which comes to aligned addresses and to others; each of its instructions comes to
aligned ones.

**Descriptors.** The imports that build and use descriptors, between the stores of
`Transfers` on the same memory. `Desc` decodes a descriptor as `ngage_desc` does, and
the refinement maps every place with a descriptor to its decoded record: `Strings`
says what a program may rely on without knowing the layouts.

**Flow.** An image is a function from addresses to instructions and data words; a
function of the lifter's output is `[start, end, heads]`. `frames` are C
activations with their next statement, and `Done` is the return after a tail call or
the closing brace. `Pc` maps the activations to the ARM's program counter: the
next statement of the innermost activation that has more to do than to return.
`ArmFlow` has no functions, only the program counter. What computes is one
instruction that leaves any value and any condition behind. `Liftable` says of an
image what `lift.py` takes for granted of it and never checks.

The ARM modules are marked external in the map.

## 3. What is model-checked

| Run | Instance | Shows |
|---|---|---|
| `heap` | window of 64 bytes at an unaligned base, up to 4 blocks, requests 0, 5, 20 | type; the walk; blocks cover requests and stay inside; zeroed memory is zero and nobody else's is cleared; refines `Allocator` |
| `dispatch` (`MCObjects`) | one function of generated code, 2 kinds of objects with 2 and 1 methods, 7 addresses to call, up to 4 registrations, first capacity 2, up to 2 failed allocations of each vtable | type and array growth; bisection brackets the target; virtual calls reach their methods; chains of pointers stay valid; methods are not registered again; refines `Directory` |
| `kernel` | 2 functions, 2 objects, depth limit 3, report array of 2, 2 traps, 3 pushes | type; the runtime's cleanup stack is the guest's; no double free; leaves free what was pushed; recursion is caught; reports show callers |
| `active` | 3 objects, a list of 2, at most 1 unanswered completion each | type; once per step; a step serves what was due; a completion is served |
| `active_idle` | 2 objects | **violation**: a `RunL` without a completion |
| `periodics` | 3 timers, a table of 2, pumps of up to 2 frames, 4 ticks | type; once a frame; time advances; a frame covers the table; pumps end |
| `files` | 3 objects, 2 slots, 2 names with a common fallback path, files of up to one byte, one path that cannot be written | type; one slot per object; refines `Cursors`; what was created is opened, exactly if nothing is ahead of it |
| `bitmaps` | 3 bitmaps, 2 entries, 2 buffers, modes of 8, 16 and 32 bits, words of 9 bits; sizes with padded rows, no width, a negative width, a negative height, a row that wraps and rows that together do | type; one entry per bitmap; buffers and Headers of sizes that fit; the flip reads and writes inside |
| `lifted` | words of 3 bits, 2 registers, every start | type; conditions after CMP are comparisons, with multiplications and divisions in between; every instruction, multiplication (with its flags) and quotient agrees with `Arm` |
| `lifted_sbit` | the same, with MOVS and a shifted operand | **violation**: the carry is not the ARM's |
| `transfers` | bytes of 2 bits, words of 4 bytes, 50 bytes of memory; 5 registers and 2 instructions in a row; or 2 places for descriptors, 2 descriptors of the image, one text and 3 steps | every aligned instruction agrees with `ArmTransfers`; descriptors refine `Strings` |
| `flow` | every image with a function of 5 instructions of which 3 are free, a leaf or forwarding function, an import's thunk and a switch over a table of labels or of functions; 4 activations | the emitted functions refine `ArmFlow` |

Why these bounds are enough. Each is past the point where the last kind of behaviour
begins. Four blocks are one more than needed to reuse a block between two live ones
with the frontier behind them; 20 is reused for 5 and 0 but not the other way
round. Four registrations of four addresses pass the first growth of the array, and
repeat methods after a failed allocation while calls go below, between and above
them. Depth 3 with a report array of 2 has a depth that fits, one that is
outgrown and one that is refused; 2 traps are the least that nest, and 3 are refused.
A list of 2 with 3 objects has an addition before the index, behind it, and one that
is dropped; so have the timers. Two slots with 3 objects make the table full with an
object left to refuse, and stale keys; no property tells the positions inside a file
apart, and one byte leaves the start, the end, and a place behind the end of a file that
another object cut. Words of 3 bits hold all cases of
carry, overflow and sign, and shifts by 0, by less, by the width and by more; the
carry and overflow rules look only at the top bits, and long products have 6 bits.
Words of four bytes are needed for the little-endian order of `ngage_r32`, the
byte's own width is not. A byte has two bits so that the first word of a descriptor
has four bits of type, as on the device, and four of length. The memory lies in the
middle of the address range so that accesses fall off both ends. Words of 9 bits are the
least in which a row of the padded size fits at 32 bits a pixel, while another row and
another product of rows wrap, to 0 among others; 24 bits a pixel, which only make the run
longer, are left to the theorems. Three steps are enough to
build two descriptors and let one call meet both, in either order. Three free
instructions hold a call before a call, the `mov lr, pc` idiom before or after
any other instruction, loops and early returns; four activations are a function that
calls one that forwards to a thunk that ends in an import.

The bounds that are not the program's own are `MaxTable`, `MaxFailed`, `MaxPush`,
`MaxOwed`, `MaxCount`, `MaxTicks`, `MaxSize`, `MaxBufs`, `MaxInk`, `MaxSteps`,
`MaxUses` and `MaxFrames`; each is in the guard of the action it bounds. `kernel`,
`transfers` and `flow` switch deadlock checking off: a process that called `abort()`
stops, and so do an execution of `MaxSteps` or `MaxUses` steps and a function that
has returned to the host.

**Guest assumptions.** The guest pops what it pushed since the `ngage_run` it is under,
pushes and deletes objects it owns (`Kernel`), sets an object active that is not, starts a
timer that exists and is not active, and does not destroy the object whose `RunL` is running
(`ActiveObjects`, `Periodics`), frees live blocks and writes inside them (`Heap`), accesses
words and blocks at multiples of four and halfwords at even addresses (`Transfers`), sets no
length above the maximum, copies no more than fits and leaves what is before a text alone
(`Descriptors`), returns to the value that lr had when a function was entered, compares an
index before a table jump and does not run into data (`Flow`). They are Symbian's own rules
and those of the procedure call standard; breaking them panics a real device.

Of the host, `FileServer` assumes that a file that is there can be read, and `Bitmaps` that
`malloc` gives the frame and that `size_t` has 64 bits.

**Fairness.** `ActiveObjects`: guest code that the host entered comes
back or leaves, and a step that was begun goes on (weak fairness, the C loop has
nothing to wait for); the host begins steps again and again (strong fairness of
`BeginStep`, since the host's loop alternates steps with other guest code, which
disables it for a while). `CompletedIsServed` says further that guest code leaves
only finitely often, as its hypothesis: an object whose `RunL` leaves at every step
starves those behind it. `Periodics`: the pump goes on and callbacks end. A callback
that starts one new timer per call does not keep the pump from ending because the
table is finite, which is what `PumpEnds` checks.

## 4. What is proved

Each theorem is `Spec => ...` (`OSpec`, `PSpec` and `BitmapSpec` for `Objects`, `Products`
and `Bitmaps`) for all constants that satisfy the named assumptions.

| Module | Theorems | Assumptions |
|---|---|---|
| `HeapProofs` | `TypeCorrect`, `WalkIsSound`, `RequestsAreCovered`, `PermanentBlocks`, `ZeroedMemoryReadsZero`, `HeapImplementsAllocator` | `HeapAssumption`; `RequestsDoNotWrap` as a hypothesis |
| `ObjectsProofs` | of the table: `ArrayFits`, `SearchIsSound`, `LookupIsLogarithmic`, `DispatchImplementsDirectory`; of the factories over it: `FactoriesUseTheTable`, `ObjectTypes`, `VirtualCallsReach`, `ChasesAreSafe`, `MethodsRegisteredOnce` | `DispatchAssumption`, `ObjectsAssumption` |
| `KernelProofs` | `TypeCorrect`, `RunawayCaught`, `ReportsAreRight`; under `CleanupIsLargeEnough` also `CleanupFaithful`, `NoDoubleFree`, `LeaveUnwinds` | `KernelAssumption` |
| `ActiveObjectsProofs` | `TypeCorrect`, `RunsOnce`, `ServesDue` | `ActiveAssumption` |
| `PeriodicsProofs` | `TypeCorrect`, `CalledOnce`, `TicksBetweenCalls`, `FramesAreComplete` | `PeriodicsAssumption` |
| `ServersProofs` | of the file server: `TypeCorrect`, `SlotsAreUnique`, `CreatedIsFound`, `FileServerImplementsCursors`; of the bitmaps: `BitmapTypeCorrect`, `EntriesAreUnique`, `BuffersAreLargeEnough`, `FlipsStayInside` | `FileAssumption`, `ClosedAssumption`; `BitmapAssumption` |
| `LiftedProofs` | `TypeCorrect`, `ConditionsAreRight`; with multiplications and divisions `ProductTypes`, `ConditionsOutliveProducts`; for exact instructions `ExactIsArm`, `ProductsAreArm` | `WordAssumption`, `ProgramAssumption`, `ProductsAssumption` |
| `CodeProofs` | of control flow: `ActivationsGoHome`, `LiftedCodeFollowsTheArm`; of loads and stores: `WordsStayWords`, `EmittedTransfersAreTheArms` | `FlowAssumption`; that every image is `Liftable` as a hypothesis; `MemoryAssumption`, `TransfersAssumption`; that every instruction is `Exact` as a hypothesis; aligned accesses, in the property |

**Heap.** The invariant is the conjunction of `FrontierOK` (the frontier is aligned
and between base and end), `Shapes` (which functions have which domain), `BlockOK`
(sizes are positive multiples of 8 and cover the request), `Ordered` (a later header
is not before the end of an earlier block) and `Chained` (what follows a block is a
header or the frontier). `WalkVisitsEveryBlock` alone is not inductive: without
alignment and `After(h) <= brk` the next bump could be written over a block. The
refinement maps the header at h to the chunk at h + 8 and takes disjointness from
`Ordered`. `RequestsDoNotWrap` is necessary; see the departures below.
`ZeroedReadsZero` is a property of a step: the words that are cleared are those of the
rounded request, which `Fitting` and the bump keep inside the block (`WordsGrow`), and
no live block shares a word with the one that was granted (`WordsApart`,
`GrantedApart`), so that nobody else's payload is cleared.

**Dispatch and Objects.** `TableOK` ties the table to the history of registrations
(every entry belongs to a known address, every known address has an entry, and a
clean table is sorted) and `SearchBrackets` is the loop invariant. A hit follows
from the bracket with `lo = hi`, and a miss because a registered target would be on
one side of it. `FactoriesUseTheTable` says that each step of the factories is one
of the table or leaves it alone, so that all of this carries over. A virtual call
reaches its method because every slot of a vtable that was built is registered or
still pending, and no call begins while something is. `RegisteredOnce` bounds how often
a method is in the table by how often its vtable could not be allocated, which is not
inductive: a method that is pending is about to be there once more. `CountsOK` counts
the places of a method in the table and in `pending` together, one for the vtable if
it was built and one for each failure; sorting moves places but keeps their number,
because it is a bijection of them.

**Kernel.** `DepthOK` is `calldepth = Len(frames) + lost`: the counter never counts
too little, so the depth test stops at most `MaxDepth` live activations although it
drifts (`RunawayCaught`); with `lost = 0` it is exact, and `StackOK` says that the
slots below it are the frames (`ReportsAreRight`). `TrapsOK` orders the levels in
nested traps; `PushedOK` and `CleanupOK` keep the guest's view and the runtime's
equal and free of repetitions. Nesting is why `CleanupIsPromised` needs more than
itself: after a leave the outer trap's level must still be below the new top.

**ActiveObjects.** `OncePerStep` and `StepServesDue` are properties of a whole walk
over a list that changes under it. The invariant says what lies behind the index:
`ListedOnce` (an object has one place), `RanBehind` (what was run is behind the index,
or at it while its code runs), `Reached` (what was due and is behind the index was
run) and `StillDue` (what was due and was not run is still listed and complete: only
a run makes an object inactive, and the guest issues on inactive objects only). A
step that ends has the index behind the whole list, which gives both theorems.

**Periodics.** The same argument for the table of timers (`RecordedOnce`, `AtIndex`,
`FiredBehind`, `FrameCovers`), where `RecordedOnce` holds for timers that were never
deleted; `NotYet` adds that what the frame has not called was last called at an
earlier tick, which is `TimeAdvances`.

**FileServer.** `OneSlotPerHandle` makes `CursorOf` a function; each call is then one
step of `Cursors` on its object. That room is refused only when `MaxOpen` others are
open is a counting argument: with no slot free, slots and open objects are in
bijection (`OpenCount`). `MadeFirst` remembers that what was created under a name is the
first of its paths that could be created; `FoundIsMade` compares that one with the first
that exists.

**Bitmaps.** `BuffersHold` says of every entry that is not stale that its buffer holds
the bytes that its shape asks for, as far as the heap can add them up, and `FrameHolds` the
same of the host's frame; `EntriesAreUnique` is inductive with the types. The invariant
holds for sizes that wrap as well. That what is asked for is what the shape needs is
arithmetic on sizes that fit (`WidthFacts`, `BytesFit`), to which `FlipsStayInside` adds
that of padded rows.

**Lifted.** The invariant adds `FlagsAreCompared` to the type: as long as the
history variable holds the operands of the last CMP, the flags are those of
`SubFlags`. `ConditionsCompare` follows from it by the signed and unsigned order of
words. The type theorem includes the undefined shifts and all instructions, not only
those of the checked program. Agreement with the ARM needs the types only, and
programs of exact instructions (`Exact`: no constant shift by the width, no flags of
a logical instruction whose operand may have a carry of its own; `ExactProduct`: no long
product with the S-bit or with both words in one register). Additions agree because a
carry is a sum that
its word does not show (`AddAgrees`), subtractions by the complement (`SubAgrees`),
shifts by an amount from a register case by case (`AmountAgrees`). A product agrees
modulo the width (`SumsAreReduced`, `TwoWords`), and its N and Z are those of the word
that it leaves (`FlagsAgree`). A quotient that is rounded to zero
leaves a remainder below the divisor with the dividend's sign, and it fits a word but
for the least number by -1 (`TruncatedDivides`, `DivisionAgrees`). `PlainIsExact` says
that the checked program is one of those the theorems are about, and `lifted_sbit`
shows that the other kind does disagree.

**Flow.** The refinement mapping `Pc` looks past activations that have only to return, so
every return must leave it where the ARM goes. The invariant says that of all activations at
once: `Homes` (an activation was entered with the address where its callers go on),
`PlacesOK` (each is at a statement of its own function; only the innermost may be a shim,
and lr is then its return address), `LrOK` (the value of lr is one that a `bl` or a `mov lr,
pc` left) and `CallsOK` (the `bx` of an indirect call is only reached from the `mov lr, pc`
before it, with the address behind the `bx` in lr). Each statement is then a goto
(`GotoStep`), a call whose caller goes on where lr says or has only to return (`CallStep`),
or a return (`ReturnStep`), and `StepFollows` is one lemma for each action. `CallContinues`,
which looks for `mov lr, pc` among decoded instructions, is right by `CallsAreFound`, and
the switch by `TargetsFacts`. The theorem is about images that are `Liftable`, because
`lift.py` takes these things for granted and the ARM does not: the heads are all the
instructions of the function and it does not run out of its end (`HeadsAreWhole`); a jump
that leaves it reaches a start or a shim (`TargetsAreKnown`); the words that an index can
reach in a table are all labels or none is (`TablesAreUniform`); the two instructions of an
indirect call stay together (`CallsAreWhole`). `ImagesAreLiftable` in `MCFlow` has TLC
evaluate the hypothesis on the images of the run.

**Transfers.** The invariant `HoldsWords` (registers hold words, memory holds bytes) is
kept by every instruction, since a read of n bytes fits n bytes (`ReadFits`). Agreement
with the ARM is a lemma for each kind. `LoadStoreStep`: the base that the code
computes after the access is the one the ARM computes before it, as long as nothing that
was loaded is read (`DisplacedFacts`). `LdmStmStep`, `PushStep` and `PopStep`: the code
counts up from the lowest word, the ARM away from the base (`PlaceFacts`). The code stores
one word after the other and the ARM all at once, which is the same because the words of a
list do not overlap, also where addresses wrap around (`PositionFacts`, `WordsApart`,
`StoredOverlays`); where the ARM ignores the lowest bits of an address they are 0
(`AlignedAccess`, `AlignedPlaces`); a pop reads sp again for every load and finds it where
it was (`PoppedFetches`). The values of a loop are guessed and confirmed at the least register
number where they would differ. `MemoryAssumption` says that all the registers of a list
fit into the address space; what `TransfersAssumption` and it say of powers is
arithmetic that the provers lack and TLC evaluates.

Only model-checked: `Descriptors`; the liveness properties
`CompletedIsServed` and `PumpEnds`, since liveness under fairness and facts about
ENABLED are out of the prover's reach. Where a proof needs a least or a greatest
number (the first slot, the end of a jump table, the innermost activation, the end of a
loop over registers), it takes it from the well-foundedness of the natural numbers; no
module declares a recursive operator. Only
proved: that blocks are permanent (`PermanentBlocks`), that the search halves
(`LookupIsLogarithmic`) and that activations go home (`ActivationsGoHome`).

## 5. Where the code departs from what it says

With a run (a TLC counterexample):

1. `scheduler.c:129` "run RunL for any CActive whose request has completed": an idle
   object, whose status is simply not `KRequestPending`, is run at every step
   (`active_idle`).
2. `recompiler/README.md:86-87` lists the S-bit as handled: logical instructions do
   not set the carry from the shifter (`lifted_sbit`).

Without a run. These are in the models, or outside the assumptions of a theorem, and
worth knowing:

- `heap.c:24`: a request near 2^32 wraps to a small block (or past the memory test at
  line 40). `RequestsDoNotWrap` excludes it.
- `dispatch.c:27` "a real call stack (push on entry, pop on return)": a leave longjmps
  (`kernel.c:63`) over activations whose decrement (`dispatch.c:79`) never runs, so
  the depth drifts up, until a program with many leaves is aborted for a recursion it
  does not have. `RunawayIsCaught` and `ReportShowsCallers` say what still holds.
- `debug.c:38`, `debug.c:47`, `euser.c:105`: reports read `ngage_stack[i]` up to the
  depth, which may exceed its 512 entries. `ReportShowsCallers` says
  `calldepth <= StackLen`.
- `kernel.c:23`: a push onto a full cleanup array is dropped, after which pops remove
  other objects than the guest's. `CleanupIsLargeEnough` excludes it.
- `kernel.c:59`: a leave with no trap returns, although `ngage_runtime.h:157` says
  "(no return)" and `euser.c:98` that a panic never returns. `Leave` models it.
- `hleobj.c:38-41`: a universal object whose vtable could not be allocated is kept
  without one for ever; and each failing build of a vtable registers its methods
  again. `ChaseStaysValid` and `RegisteredOnce` count failures.
- `scheduler.c:133-142`, `:49-54`: a leave out of a `RunL` or callback abandons the
  rest of the step or pump.
- `scheduler.c:164`: destroying or cancelling an object is a no-op; the list keeps its
  address, and the step runs a dead object or clears a word (`scheduler.c:137`) of
  whatever is there now. `scheduler.c:9` ("no-ops for now") is out of date for
  `CActiveScheduler::Add`.
- `scheduler.c:31`: nothing is removed from `g_per`, so a timer that was deleted and made
  again at its address is called twice a frame (line 44 says "one frame each"), and
  the 17th is dropped while it reads as active. `OncePerFrame` speaks of timers that
  were never deleted.
- `scheduler.c:146` "on the guest stack": the key event is allocated on the guest heap
  (line 150) and never freed.
- `efsrv.c:5` "Writes are supported too": `RFile::Open` opens for reading (line 74),
  so a later `Write` stores nothing and answers KErrNone (line 113-114).
- `efsrv.c:52-64`: `Create` opens a path with "wb" and `Open` with "rb". Where a name's
  first path is a file that can be read and not written, `Create` makes the file in the
  second place and a later `Open` finds the old one in the first. `CreatedIsOpened` says
  that this is the only case.
- `efsrv.c:80`: `Create` has cut the file before it learns that no slot is free.
  `efsrv.c:76`: opening an open object forgets its stream without `fclose`.
- `descriptors.c:54`: `PtrZ` of a descriptor at its maximum writes its zero behind the
  text, and `SetLength` and the copies check no maximum. The contract of
  `Descriptors` excludes both.
- `euser.c:18-22`: `rangechk` looks only at the ends of a block and its callers go on
  whatever it finds; `ngage_runtime.h:34`: the guard's `a + sz` wraps at the last addresses.
- `fbserv.c:81`: `Load` sets 256 x 256 and keeps a smaller buffer; the flip then reads behind
  it. Properties of `Bitmaps` leave `stale` entries out.
- `fbserv.c:69`: a Header says 16 bits per pixel for bitmaps of 8 (EColor256), 24 and 32
  bits, and its size is negative with the height. `BufferFits` says what holds.
- `framebuffer.c:39-40`, `fbserv.c:40`: the bytes of a bitmap are computed in 32 bits and
  wrap. A bitmap of 65536 x 65536 pixels of 16 bits asks for 0 bytes and Create answers
  KErrNone, a negative width may ask for nearly 2^32 bytes; the entry keeps the size, and
  the flip then reads behind the buffer. Overflow of `width * bpp` is undefined in
  C besides; the models wrap. `Fits` excludes these sizes from `BufferFits` and
  `PresentStaysInside`, which fail without it.
- `framebuffer.c:83`: a 24-bit bitmap is stored with 3 bytes per pixel and read with 4.
  `PresentStaysInside` leaves the mode out, as `framebuffer.c:8-9` does.
- `softfloat.c:44`: the least integer divided by -1 is undefined in C; a division by
  zero gives 0.
- `lift.py:121, 123`: LSR #32 and ASR #32 become C shifts by the width of the type, which
  are undefined. `Values` lets them give any word.
- `lift.py:233-247` emits no flags for a long multiplication with the S-bit. `ExactProduct`
  excludes it.
- `ngage_runtime.h:52-69`: words are read and written byte by byte at any address. An ARMv4
  turns a word that LDR takes from an unaligned address, and STR, LDM and STM access the
  aligned word below it. `Aligned` excludes these accesses; without it
  `TransfersImplementArm` fails.
- `lift.py:430` with `:413`: LDMDA and STMDA of one register with write-back add to the base
  where the ARM subtracts. `lift.py:355, 377`: a load into its own index register
  with pre-indexed write-back uses the loaded value for the base. `lift.py:328-330`:
  a post-indexed shifted register loses its shift. `lift.py:384-386`: a push of sp stores
  the moved sp. `Exact` excludes them; with one of the first three in `MCProgram`,
  `TransfersImplementArm` fails.
- `lift.py:468`: a `bx` is a call when the instruction decoded before it is
  `mov lr, pc`, whatever their conditions and whether or not something jumps between
  the two. `CallsAreWhole` gives both one condition and no label in between.
- `recompiler/README.md:98-101` says that jump tables are dispatched at run time;
  `lift.py:182-187` emits a C switch without a default, and `lift.py:502` ends the table
  at the first word that is no label of the function: a larger index falls through
  to the next statement. `TableJump` models it; `TablesAreUniform` excludes it.
- `lift.py:521`: a function whose last instruction may fall through, such as a call that is
  meant never to come back, returns to its caller where the ARM runs on into what follows.
  `HeadsAreWhole` excludes it.
- `dispatch.c:82-83`: a call of an address that is not registered, such as the inside of
  a function, is logged and comes back. `CallThen` models it.

## 6. Not modelled

- ADC, SBC and RSC are stubs in the code; pc as an operand and folded literals are
  constants of an instruction.
- The image loader copies segments once, before there is a guest to observe it;
  `ngage_fs_mount` and `ngage_fb_init` set a path once.
- The accessors' hard guard is `MemFault` in `Kernel`, its report's text is left out.
  The watchpoint, `ngage_trace` and `NGAGE_ABI_CHECK` are debugging aids.
- Contents of files, the rewriting of path names, pixel values (`px_to_rgb`) and PPM
  files are data that no property looks at. `ApplicationRect` is a constant.
- Floating point is the host's own arithmetic between bit casts: a TLA+ model would
  be the same operator twice.
- Discovery of functions, generators, extraction, import declarations, oracle harness
  and configuration: programs and data that run once, outside the game, from files to
  files. `Flow` takes what discovery found as the constant `Functions`.

## 7. Plan

Done, in this order, the most important first: heap, dispatch, kernel, scheduler,
timers, files, bitmaps, data processing, transfers; then the factories over the
dispatch table, multiplication and division, descriptors over transfers, and
control flow; proofs of all components but descriptors.

Left:

1. `Runtime`: `Kernel`, `Objects` and `Heap` in one state, with `ngage_call` searching
   the table while frames nest and leaves freeing into the real heap, and the
   refinement of `Kernel`'s set of live objects by the heap's blocks.
2. Proofs: the refinement of `Strings` by `Descriptors`, which can build on the lemmas
   about memory in `CodeProofs`.
3. Larger words for `Products` and longer programs for `Descriptors`, by simulation.
