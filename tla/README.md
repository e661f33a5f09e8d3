# A TLA+ verification of vkfft-rs

TLA+ modules that model parts of vkfft-rs, TLC configurations that check them
on small instances, and theorems about them whose proofs TLAPS checks.  Paths
are relative to the repository root, which is `src/` here; most of the code is
in `src/src/`.

1. [The system](#1-the-system): components, state, operations, hard behaviours
2. [Plan](#2-plan): modules, compositions, runs and theorems, in order
3. [VulkanRuntime](#3-vulkanruntime-and-exclusivetickets)
4. [ProgramMemory](#4-programmemory)
5. [LevelZeroRuntime](#5-levelzeroruntime) and its proofs
6. [NativeRuntimes](#6-nativeruntimes): HIP, CUDA, OpenCL, Metal
7. [FftProgram](#7-fftprogram)
8. [What disagrees](#8-what-disagrees-with-the-documentation)
9. [What is only model-checked, and what is not modelled](#9-limits)

To repeat everything, in this directory: `tlc -config X.cfg M` for each run of
`PROJECT.json` and `tlapm M.tla` for each module with theorems.

## 1. The system

vkfft-rs reimplements VkFFT in Rust.  A call goes through these layers:

    FftConfig --validate--> FftPlan --build--> TransformIr / *_ir --flatten-->
    ProgramIr --lower each pass--> KernelIr --emit--> shader source
    ProgramIr --memory_plan--> allocations --runtime--> device

The front half is sequential and pure; its risks are numbers (factors, indices,
lengths, sizes).  The back half is six runtimes that keep state between calls;
its risks are ownership and order.

### Components

| component | state it keeps | operations | what makes it hard |
|---|---|---|---|
| Vulkan runtime (`backend/vulkan/runtime.rs`) | execution lock; pools of staging buffers, transients, pipelines, command-buffer/fence slots; caches of pipelines and lookup tables | async submission and its ticket, synchronous execution, chain of two programs, five `clear_cached_*`, drop | `Sync`: tickets recycle on any thread without the lock; device errors at every step |
| Level Zero runtime (`backend/level_zero/runtime.rs`) | pools of device and host memory, queues, lists, kernels; caches of modules and tables, with capacities; `active_submissions` | submission and its ticket, `clear_runtime_caches`, drop | tickets overlap and finish in any order; raw handles with relinquish/insert pairs; destroy errors |
| CUDA, HIP runtimes | streams, modules, transients, host buffers; FIFO archives of PTX and hipRTC code | the same | a failing launch after an earlier one of the same submission |
| OpenCL, Metal runtimes | kernels or pipelines by source, buffers by size, tables by bytes, each bounded | the same | FIFO eviction while a ticket holds the entry, byte budgets |
| Native planner (`backend/native.rs`, `native_runtime.rs`) | none between calls | source generation for six dialects; preparation of a program's storage | agreement of two descriptions of the same memory |
| ProgramIr (`program_ir.rs`) | none between calls | `validate`, `memory_plan`, builders that fuse passes | aliasing of scratch memory across passes that the device may overlap |
| Planner (`planner.rs`) | none | factorisation, choice of Stockham, Rader or Bluestein, radix schedule | schedules that must cover the length; 2^64 boundaries |
| Scheduler (`scheduler.rs`) | none | upload split, registers per thread, boost, grouping | many device-dependent limits at once |
| Kernel IR (`kernel_ir.rs`) and transform builders (`*_ir.rs`) | none | index mappings, stages, exchanges, interpreters | permutations that must invert each other; exchanges through shared memory |
| Emitters (`backend/vulkan.rs`, `native.rs`) | none | source and SPIR-V text | a semantics of the emitted language |
| Configuration, application (`config.rs`, `application.rs`) | none | validation, choice of the transform builder | combinations of options |
| Numerics (`binary16.rs`, `double_double.rs`, `lut.rs`) | none | conversions, error-free arithmetic, tables of roots | rounding |
| GPU test lock (`backend/mod.rs`) | owner and depth of a process-wide lock | lock, unlock, around contexts in tests | test builds only |

### Interactions

A runtime asks `ProgramIr::memory_plan` for the allocations of a program, turns
each into a buffer (own memory, a pooled one, or a cached table), compiles or
finds the kernel of each pass, records the passes with barriers between those
that touch the same written allocation, submits, and hands the caller a ticket
that owns what it took from the pools.  Waiting on the ticket, or dropping it,
returns the resources to the pools *on the thread of the caller*, where the
next submission may already be building.  The contract between planner and
runtime is the memory plan; the contract between runtime and caller is the
ticket.

### Properties that make the components correct

* A pooled or cached handle has one owner; what the device may still touch
  belongs to the submission that gave it to the device.
* Every exit of every call, error paths included, pools, destroys or hands on
  each handle; nothing is lost and nothing is freed twice.
* A cached lookup table holds its values before any program reads it.
* Whatever memory is shared, a pass reads what it would read if each resource
  had memory of its own.
* Waiting ends, and the execution lock is given back.
* An index mapping loses and duplicates no element; the composition of the
  passes is the transform.

`PROJECT.json` lists the hazards behind them, each at its line, with the
properties that would catch it.

## 2. Plan

In order of what matters most to a user of the library:

1. `VulkanRuntime` with the abstract `ExclusiveTickets` (done): the only
   runtime that is shared by threads.
2. `ProgramMemory` (done): the memory plan that all runtimes rely on.
3. `LevelZeroRuntime` against the same `ExclusiveTickets` (done).
4. `FftProgram` (done for complex, real, R2R, ND and zero-padded transforms and
   for convolutions): Stockham, four-step, Cooley-Tukey, Rader and Bluestein programs over a finite
   field, against the definition of the transform.  Next, one workgroup at the
   level of threads, registers, shared memory and barriers, refining a pass that
   reads and stores in two steps.
5. `NativeRuntimes` (done): HIP, CUDA, OpenCL and Metal against the same
   `ExclusiveTickets`, and its theorems (`NativeProofs`,
   `NativeTicketProofs`).
6. The planner: factorisation, radix schedule, smooth lengths, primitive roots,
   and the choice of algorithm, against number-theoretic definitions.
7. Convolutions (done): further programs of `FftProgram`, in `ConvolutionPrograms`.

Composition: `ExclusiveTickets` is the abstract specification of every runtime
module.  `ProgramMemory` models the planner and, on top of its result, the
execution with the barriers that `VulkanRuntime` records; the two meet in the
sequence of allocations, which `VulkanRuntime` and `LevelZeroRuntime` take as
the constant `Plan`.

Theorems, in order: type correctness and single ownership of the Vulkan
runtime (done); its refinement of `ExclusiveTickets` (done); nothing forgotten
(done); the reads of an aliased program are those of an unaliased one (done);
every property of the Level Zero runtime (done); stability of descriptor sets,
uploaded tables and the drop of the device (done); the types, references, live
handles, active tickets and results of `NativeRuntimes`, and its refinement
(done); that the mappings of `StockhamIo` are bijections and that uploads and
Cooley-Tukey children put together are the whole transform, for all lengths
(done); the bytes of bounded caches (done); that the stages, the uploads and the
Cooley-Tukey nodes compute discrete Fourier transforms (done); that a device
with any interleaving of workgroups leaves what the interpreters leave, and that
programs of uploads are safe on it (done); direct transforms of prime lengths, and
that programs composed of kernels, nodes and uploads compute their transforms on
the device (done); then the convolutions of Rader and Bluestein, which need the
convolution theorem.

## 3. VulkanRuntime and ExclusiveTickets

`VulkanRuntime.tla` models the self-contained context of
`src/backend/vulkan/runtime.rs`.

**State.**  A *job* is one API call on a thread of its own, from the moment it
starts until it returns or, for an asynchronous submission, until its ticket is
waited or dropped.  A handle is a member of a finite set (`Staging`,
`Transient`, `Pipe`, `Slot`, `LutBuffer`); a handle that does not exist is in
`fresh`, so creating and destroying are moves like any other.  `pool` counts
how often a handle lies in its pool, which makes a double push visible; `held`
is what the call or ticket owns; `leaked` is what was dropped without a
destructor.  `queue` holds the submissions that the device has not finished,
each with all the handles it uses; `signaled` the fences.

**Actions.**  Whatever a function does under one mutex guard is one action:

| code | actions |
|---|---|
| `submit_program_*`, `execute_program_*`, `execute_program_chain_*` | `Begin`, `execution_guard` |
| `allocate_program_storage` and its tables | `allocate_program_storage`, `StorageReady` |
| descriptor sets and pipelines | `take_async_pipeline`, `pipeline_for_shader_occurrence`, `PassesBound` |
| `take_submission_slot`, reset, recording, submit | `take_submission_slot`, `ResetSlot`, `ResetSlotFails`, `submit_staged_program`, `SubmitFails` |
| any early return while building | `BuildFails`; `Exhausted` when the finite model has no handle left |
| `wait`, `Drop`, `finish` | `TicketWait`, `TicketDrop`, `wait_for_completion`, `WaitFails`, `DropPending`, `SyncIdle`, `ReadOutputFails`, `commit_program_luts`, the four `recycle_*` |
| `clear_cached_*` | `BeginClear`, `ClearIdles`, `ClearPool` |
| drop of the context | `ContextDrop` |
| the device | `GpuCompletes`, `DeviceLost` |

`ExclusiveTickets.tla` says what all of that is for, without pools, locks or
fences: a resource has one owner; the device uses only what the submitting
ticket owns; nothing leaves its owner while the device may use it.  The
refinement mapping sends a handle to the job that holds it, to the context
(cached pipelines, leaked slots) or to nobody.

**Runs.**  All have two jobs, `j1` and `j2`, besides the thread that clears.
Two suffice because a hazard here is a pair: one call or ticket that gives a
resource away and one that takes it; chains add a second program inside one
job.  Supplies of handles are as large as the two jobs can use at once (a third
of a kind is there where recycled and new ones must be told apart).

* `vulkan_tables`: both jobs, async or sync, read one lookup table while the
  table cache is cleared.  Three table buffers: one per job and the cached one.
  A cached table is always uploaded (`CachedTablesUploaded`), and the next
  submission of the device finds its tables (`TablesReadyForExecution`).
* `vulkan_tickets`: one job dispatches one shader twice.  No descriptor set is
  rewritten while a submission reads it or an earlier pass of the same program
  needs it (`DescriptorsStable`); with four pipelines, as many as both jobs
  need, and the clear of the runtime objects.
* `vulkan_faults`: an async submission beside a chain, one fault anywhere
  (`MaxFaults = 1`): driver error, failing wait, lost device.  Ownership,
  `NothingForgotten`, and the refinement.
* `vulkan_live`: the same kind of system with one fault and fairness; waits
  end and the lock is given back.

`CHECK_DEADLOCK FALSE` everywhere: the context may be dropped, and then the
system has stopped for good.

**Fairness.**  The device finishes what it was given (`GpuCompletes`), and a
call that is past the execution lock keeps running (`Build`, `Complete`,
`ClearIdles`, `ClearPool`).  Nothing obliges a caller to start, to wait on its
ticket or to drop it, and `std::sync::Mutex` promises no turn, so *entering*
the lock has no fairness: `LockReleased` says that the lock is given back, not
that anyone in particular gets it.

**Proofs.**  `VulkanRuntimeProofs` proves `TypeOK` and `ExclusiveOwnership`;
both are inductive (the second together with the first) because every move of
handles goes through `Take`, `Recycle` or `ReturnError`, whose effect is stated
once per operator.  `NothingForgotten` is not inductive: an exit gives back
what the *phase* of the call says it owns, so `HeldByPhase` (which kinds of
handle a call may own in each phase) and `AllPlaced` are added.
`NothingOutlivesDevice` needs `DeviceGone` on top: once the context is dropped
every call is idle, and every handle is destroyed or lost to a failed reset.
The dropping thread can only be that far when nobody else holds a reference.

Its second part is about time: what the device does between two steps of a
caller.

* `InFlightStaysOwned`: that a signaled fence means a finished submission needs
  the conjunction `FlightInv` of `EntriesOwned`, `OneEntryEach` (a job has one
  entry in the queue) and `FenceReset` (the fence of an entry in the queue is
  unsignaled).
* `CachedTablesUploaded` and `TablesReadyForExecution`: `TableInv` follows a
  table from its allocation to the cache.  A job that uploads has one buffer for
  each key (`OneKeyEach`); while its submission is in the queue, the entry
  uploads them (`UploadsPending`); a job whose submission ended has its tables
  on the device (`FinishedUploaded`), and what a program reads is cached, being
  uploaded by the job itself or already on the device (`PendingOrUploaded`).
  Invariant beside it is `LockInv`: a call that builds, and a synchronous call
  until it recycles its staging buffer, holds the execution lock, and so does a
  clear.  Without it a clear could free the table that a program under
  construction has just found.
* `DescriptorsStable`: `DescriptorInv` says that the pipelines of the passes
  bound so far are the job's own (`PassesOwned`), that an entry in the queue
  reads the sets of its own passes (`EntriesBound`), and that for one pipeline
  the passes use its descriptor sets one after the other (`OneEntryPerPipe`).
  The lemma it turns on is `OccurrenceGrows`: a later pass of one shader has
  strictly more earlier occurrences, so the cardinality that the code uses as an
  index never repeats.

The refinement (`Refinement`) maps every step to a step of `ExclusiveTickets` or a
stutter.  It and the other theorems of that part assume `~IdleCanFail`,
that `queue_wait_idle` fails only on a lost device; section 8 shows what happens
otherwise.  The other assumption is `RuntimeAssumption`: the kinds of handle
are disjoint and the constants have their types.

## 4. ProgramMemory

`ProgramMemory.tla` models `ProgramIr::validate` and `memory_plan`
(`src/program_ir.rs`), the preparation of the allocations and the execution of
the passes with the barriers that the Vulkan runtime records.

**State.**  The planner's variables keep the source's names: `allocations`,
`resource_allocations`, `lifetimes`, `scratch_slots`; `step` and `next` are the
program counter of its loops.  `memory` holds, per allocation, the *origin* of
its contents: the pass and resource that wrote it, the upload, the zero fill,
or stale.  `started` and `finished` are the passes the device has begun and
ended.

**Actions.**  One iteration of a loop each: `PlanExternal`, `PlanTable`,
`PlanLifetime`, `PlanScratch` (the best-fit search for a dead allocation), then
`Prepare`, `StartPass`, `FinishPass`, `Download`.  A pass may start while its
predecessor runs exactly when no barrier was recorded between them.

**Properties.**  `ReadsAreLogical`: each value a pass reads is the one its
resource would hold had every resource memory of its own.  `OutputIsLogical`:
so is what is downloaded.  `PassesIsolated`: no pass runs beside another that
writes an allocation it uses.  `AllocationsFit`: an allocation has at least the
bytes of each of its resources.

**Run.**  `program_memory`: all programs of four passes over an input, an
output and three scratch resources with two profiles of sizes and shapes, one
pass possibly accumulating into scratch, and the programs over two lookup
tables that `validate` must accept or refuse.  Three scratch resources are the
fewest for which a resource can choose between two dead allocations, and four
passes the fewest for which it is reused twice; programs that differ only in
the names of scratch are generated once.

**Proofs.**  `ProgramMemoryProofs` proves all five for every set of programs.
The invariant is `TypeOK /\ PlanInv /\ RunInv`.  `PlanInv` describes the
planner at every loop head: what the resources of one allocation have in common
(`Shared`), that the two directions of the map agree (`Linked`), what is
planned so far (`Planned`), the exact first and last pass of each pending
scratch resource (`Lifetimes`), that a slot's `last` is the last use of any of
its resources (`Slots`), and sizes (`Sizes`).  `RunInv` then says that at most
one pass runs and that each allocation holds the last write of the resource
whose lifetime covers the current pass.  The hypotheses are those of the code:
`ProgramsAssumption` (types), `PassesAssumption` (every kernel has an output
binding, which `KernelIr::validate` enforces, and does not read through one
binding what an earlier one overwrites), and for `AllocationsFit` that all
scratch has one scalar (`UniformScalars`); without it the statement is false,
see section 8.

## 5. LevelZeroRuntime

`LevelZeroRuntime.tla` models `LevelZeroExecutionContext`
(`src/backend/level_zero/runtime.rs`), which holds raw pointers and is not
`Sync`: `call` names the one ticket whose method runs, but tickets overlap,
each on its own queue, and end in any order.

**State and actions.**  As for Vulkan, plus what is particular here: caches
and pools with capacities (`MaxModules`, `MaxKernels`, `MaxLists`); a kernel
whose module did not fit into the cache owns that module, and is not pooled
(`made[k].key`); the counter `active`, which `clear_runtime_caches` checks; and
the pairs of relinquishing a handle and pooling it, in `recycle_kernels` and
`recycle_command_list`.  The actions are the steps between which a method can
return an error: `take_queue`, `create_command_list`, `allocate`,
`create_module`, `create_kernel`, `allocate_host`, `execute_command_lists` with
`SubmitFails`; `synchronize` and `SynchronizeFails`; `insert_lut`,
`FreeDuplicateFails`; the `recycle_*`; `DropWaits`, `DropEnds`;
`ClearRuntimeCaches`, `ClearPool`, `ClearPoolFails`; `DropContext`.  The device
ends submissions in any order (`DeviceEnds`).

**Run.**  `level_zero`: two tickets that share a table and a kernel source, one
of them with a second source; every cache holds one entry, so hit, miss and
full all happen; one driver call fails anywhere.  Queues and command lists are
symmetric; the choice among equal pooled handles is by `CHOOSE`, which is
immaterial because handles of these two kinds carry nothing that tells them
apart.  The supply of handles is finite, so a call may stop where a real one
would create another: deadlock is not checked.  Properties: single ownership,
nothing lost unless a destroy failed, tables ready, modules that outlive their
kernels, nothing left after the drop, and the refinement of
`ExclusiveTickets`.

**Proofs.**  All seven are proved for every value of the constants.
`LevelZeroProofs` proves the invariant `Inv` that the others rest on: the types
(`TypesOK`, the groups of `TypeOK` without its capacities); `Control`, that one
method runs at a time and that `active` counts the tickets the driver accepted;
`Owned`, that every handle is in one place, that a buffer is cached for one
table and a module for one binary; `TablesHeld`, that the tables a ticket
uploads are buffers of its own, one each, and not cached before it allocated the
last of them; `OneList`, a ticket's single command list, without which the pool
of lists could exceed its capacity; and `Capacities`.  None of these is inductive
alone: freeing a duplicate table needs `TablesHeld`, and that needs `Owned`.
Its second part adds to it

* `KernelsBacked`, `RecordedModule`, `ClearProgress`: a kernel's module is in
  the cache or with the ticket that owns the kernel, and a clear empties the
  modules last, when no kernel is left (`LevelZeroModulesOutlive`);
* `InFlight` and `Closed`: what the device works on is held by a ticket that has
  still to wait for it (`LevelZeroNothingOutlives`);
* `ReadyTables`: a program reads the tables it uploads itself and cached ones, a
  submission that ended has uploaded its tables, and a cached buffer holds its
  table (`LevelZeroTablesReady`);

and maps every step to a step of `ExclusiveTickets` or a stutter
(`LevelZeroRefines`).  The last three theorems assume `MaxFaults <= 1`: a ticket
whose wait fails waits again when it is dropped and again when its queue is
destroyed, and the results of the last two are ignored, so two failing calls
suffice to free memory that the device uses.  `LevelZeroNothingLeaked` assumes
`DebugAssertions` (section 8).  The assumption on the constants,
`RuntimeAssumption`, says that there are finitely many handles and tickets, that
the kinds of handle are disjoint, and that there is a queue.

## 6. NativeRuntimes

HIP, CUDA, OpenCL and Metal contexts have one shape: queue, allocations, code,
launches, a ticket, and pools to which the wait returns what the ticket owns.
`NativeTickets` models that shape, `BoundedCaches` the caches with an order of
eviction and a byte budget, and one module for each backend what is its own:

| module | what differs |
|---|---|
| `HipRuntime` | modules are cached up to `MaxModules`, others belong to the ticket; a FIFO archive of compiled code by source, and code restored from it; a submission that fails destroys what it has, its modules first (`hip_unload`); `active_submissions` guards the clear |
| `CudaRuntime` | every module is cached; the clear synchronises the context first; tables and PTX are cached without bound; resident chains hand the output of one program to the next |
| `OpenClRuntime` | kernels are taken from a pool by source and belong to the ticket; programs are cached; `active_submissions`; resident chains as in CUDA |
| `MetalRuntime` | objects are reference counted: the command buffer retains what it uses, a cache evicts entries that tickets still hold; buffers are pooled up to `MaxBuffers` |

`NativeRuntimes` is their union: `backend` chooses one of the four at the start.
The contexts are not `Sync`, so one call runs at a time (`call`), tickets
overlap, and `DeviceEnds` may fall between any two steps.  A chain (CUDA and
OpenCL) executes several programs, whose output stays on the device (`resident`).

**Run.**  `native_runtimes`: two tickets, programs that share a shader and have
a table each, a chain of both programs, caches of one table, one module, one
pipeline, two archived codes and two pooled buffers, and one failing driver
call anywhere.  Handles of a kind are interchangeable: `VIEW UpToHandles` maps a
state to how many handles are in each combination of places, which is exact
while there are enough handles of each kind (more of them give the same number
of states).  A finite supply of handles may stop a call: deadlock is not
checked.  `ReferencesKept`: the references to each handle are those kept
somewhere, so nothing is lost or released twice.  `UsedHandlesLive`: what the
device works with is neither destroyed nor pooled; `Unloaded` names the one
exception (section 8).  `ReturnsOwnResult`: a wait
returns what its own programs computed from its own input.  `ActiveCounts`,
`CachesAccounted`, and `ImplementsExclusiveTickets`, the refinement of the same
abstract specification as the other runtimes, but for the step `UnloadsInUse` of
the same exception.

**Assumed of the drivers.**  `hipFree`, `cuMemFree` and the destructor of a
stream wait for the device; nothing of the kind is assumed of `hipModuleUnload`;
OpenCL and Metal keep what queued work uses until it
ends; what is left in a pooled buffer is worthless to the next owner, and a new
handle does not have the name of one that a ticket still remembers.  Buffers are
of one size class; Metal evicts any of several equal buffers where the code takes
the oldest.  CUDA's pool of pinned host output buffers is not modelled.

**Proved**, in `NativeProofs` and `NativeTicketProofs`, for
any number of tickets, handles, programs, keys and sources and for all four
backends.  The inductive invariant is `Inv`:

* `Types`, without the bounds that follow from what `pool` and `active` count;
* `Control`: which call runs, how far each ticket is (`Flow`: what it has
  allocated and loaded in each phase, one buffer for each entry of the plan),
  and that the caches change in no other call;
* for HIP, CUDA and OpenCL `ExplicitOwned`: every handle is in one place
  (`OnePlace`: created or not, pooled once, held by one ticket, cached under one
  key, leaked), and what a ticket refers to in `memory` and `loaded` is in its
  own hands or cached (`TicketOwns`, `Backed`);
* for Metal `MetalCounted`: the reference count of an object is the number of
  pools, cache entries and places in tickets that name it (`Counted`), and a
  buffer that a ticket writes has that one reference (`MetalTicket`).

Neither half is inductive alone: a handle may be destroyed or pooled only
because nobody else has it, which needs the flow of the ticket that lets it go.
With `ActiveInv` (`active` is the number of tickets in the phases that count)
follow `NativeTypesCorrect`, `NativeReferencesKept` and `NativeActiveCounts`.

`NativeCachesAccounted` is about the bytes a bounded
cache records: its invariant `Booked` says that the order lists each key at one
place (`Distinct`) and that the bytes are the total of the costs along the
order.  The total of what remains when the oldest leave (`TotalOfRest`) is what
the evictions leave by subtraction (`BytesWithoutIs`), and one more entry adds
its cost (`TotalOfMore`); that the evictions stop in time is `EvictFits`.  The
rest is that every insertion of the runtimes is for a key that is not cached,
and that the buffers Metal recycles beyond `MaxBuffers` are released
(`RecycledFit`).  The totals are recursive functions over the order; their
lemmas are by induction (section 9).

`FlightInv` says that what the device works on is in the hands of its ticket or
shared, or one of the modules that a failed submission of HIP has dropped
(`Gone`), and that no clear runs meanwhile; `NativeUsedHandlesLive` follows for
`MaxFaults <= 1`.  The bound is the code's: the waits of a drop ignore their
errors (`DropWaits`), so that after two that fail in a row buffers are freed
under the device.

`NativeReturnsOwnResult`, under the same bound, needs in addition `ResultsInv`:
each cached table holds the bytes of its key and each cached module was made
from its source (`CachesRight`); what a call has placed and loaded so far holds
what its plan asks for, and its input the data of the ticket after the programs
before this one (`Prepared`); once the device is done the output is the result
of the program (`HasOutput`), until it is read and, in a chain, while it waits
as the `resident` buffer for the next program (`HandsOn`).  The proof is a frame
argument.  A step changes the contents only of handles that are `Loose` (not
created, pooled or leaked) before or after it, or of the output that the device
has just computed (`Touches`); nothing a ticket `Needs` and nothing in a cache
is `Loose` (`InvTight`, from `Inv` and `FlightInv`), and nobody else needs that
output (`OutputApart`).  So each ticket keeps what it relies on in every step
that is not its own (`SameResult`), and there is one lemma for each group of its
own steps (`PlacesResult`, `LoadsResult`, `ComputedResult`, `RecyclesResult` and
their like).

`NativeRefines` maps every step to a step of `ExclusiveTickets` or a stutter,
again for `MaxFaults <= 1`.  What a ticket has for itself is `held` in the
explicit APIs and its transient buffers in Metal (`OwnedBy`); a handle that
somebody refers to and no ticket has for itself belongs to the context
(`InUse`), and one that is new or pooled to nobody.  `Exclusive`, from `Inv` and
`FlightInv`, says that no two tickets own a handle and that the device works
with what its ticket owns or the context keeps, as long as no submission of HIP
has failed and left work to the device (`NoModulesDropped`).  Then a pop from a pool or a
creation is an `Acquire` (`ObtainsStep`, `SharedBufferStep`); a table that goes
to the cache, the recycling of a finished ticket and the destructors are a
`Release` by a ticket that does not run (`HeldReleased`,
`TransientsReleased`); launches and the commit are `Submit`; and compiling,
evicting, clearing and the drop of the context `Keep` what they touch out of the
hands of the tickets (`KeepStep`), because none of them changes what a ticket
owns.  The step that drops the modules of a failed HIP submission is
`UnloadsInUse` (`UnloadStep`); until the device is done with that submission
nothing else happens (`OnlyDevice`), so nobody gets those modules meanwhile.

`NativeAssumption` says that the sets are finite, the kinds of handle disjoint,
and that a program has an allocation for its input and ends with that of its
output, as `ProgramIr::validate` and the memory plan ensure.

## 7. FftProgram

Ten modules model what `program_ir.rs` makes of a transform or of a convolution
and what a device computes when it executes it.  The transform is complex, real
or a cosine or sine transform, of one or more dimensions, padded or not, and the
caller's tensors have any strides; the convolution has one or several kernels,
whose spectra the caller supplies, between scalars or vectors of coordinates.

| module | code | content |
|---|---|---|
| `UnitCircle` | `complex.rs` | complex numbers |
| `StockhamIo` | `StockhamIoMapping` and the mappings composed with it (`kernel_ir.rs`), the boundary modifiers of Cooley-Tukey passes | where transform `batch` reads and stores element `i`, and by which fraction of a revolution it turns it |
| `FftPasses` | `execute_*_ir` of `kernel_ir.rs`, `recursive_ir.rs`, `rader_ir.rs`, `bluestein_ir.rs` | what a workgroup of each kind of pass stores |
| `FftIr` | the builders of those files, `lut.rs`, `RecursiveProgramBuilder` (`program_ir.rs`) | from a plan to nodes, from nodes, with their boundary fusions, to resources and passes |
| `CosineTransforms` | `r2r_ir.rs` | the passes before and behind the complex transform of a DCT or DST of types 1 to 4 |
| `TensorPasses` | `nd_ir.rs`, `real_ir.rs`, `zero_pad_ir.rs` | lines of an axis, external layouts, real boundaries, padding |
| `TensorPrograms` | the builders of `nd_ir.rs`, `nd_real_ir.rs`, `real_ir.rs`, `r2r_ir.rs` and `ProgramIr::{one_dim_fft, real_fft, nd_fft, nd_real_fft, r2r, nd_r2r}` | which passes a transform has, in which order, over which resources |
| `ConvolutionPrograms` | `convolution_ir.rs`, `ProgramIr::{convolution, nd_convolution, nd_real_convolution}`, the single passes that `backend/vulkan.rs` emits | which transforms are fused with the product into one pass, the uploads around it, the product over matrices of kernels |
| `Dispatch` | the device: dispatches, workgroups, barriers | the state machine of any program, given what a workgroup stores |
| `FftProgram` | `TransformIr::program_ir` and the caller | which program and which input, and what the output should be |

**Numbers.**  The code computes in floating point; `UnitCircle` replaces that
by exact arithmetic over the field with Q^2 elements for the prime Q = 3359,
where `exp_i` of every fraction of a revolution with a denominator that divides
3360 exists and `conj` is the inverse on the unit circle.  The constant `Root`
is a root of unity of that order, and `CircleAssumption` makes TLC check that
and that its quarter turn is the imaginary unit.  What is computed there is
equal exactly when the formulas are; rounding is not modelled.  Memory that
nobody wrote holds `Unwritten`, and so does everything computed from it.

**State and actions** (`Dispatch`).  `program` is what the builders make of `case`; `pass`
is the pass that runs, `memory` the contents of each resource.  `Load` starts
the next workgroup of the dispatch, which reads all its inputs; `Store(w)`
stores the outputs of one that is in flight, in any order; `NextPass` is the
barrier.  A workgroup stands for all the invocations that compute one transform
of a pass.  They start in the order of the dispatch with at most `Resident = 2`
in flight: `WorkgroupsIndependent` says that no workgroup can see what another
stores, so other orders lead to the same memory.

**Properties.**  `OutputIsTransform`: at the end the memory of the caller's
output is the transform of its input, defined by a sum over the elements with
one weight each (the DFT of `reference.rs`, the definitions of `evaluate_bin`
in `r2r_ir.rs` for cosine and sine transforms), with zeros where the padding
is, and untouched in the gaps of the caller's layout; for a convolution it is
the circular convolution with every kernel, computed from the taps and not from
their spectra.  `NothingFromUnwritten`:
no stored value depends on memory that nobody wrote.  `OutputsFullyOverwritten`:
a pass stores every element of its output, the contract under which
`memory_plan` hands out memory that is not cleared, which `ProgramMemory` takes
for granted (`ForwardUploadOfKernels` names the one exception: the forward
uploads of one batch that is convolved with several kernels through three
uploads bind a scratch as long as all outputs write-only, against
`program_ir.rs:6790-6794`, but store, and their successors read, one batch
only).  `WorkgroupsIndependent`: no element is stored twice and no pass
reads what it writes.  `TypeOK` adds that no store is outside of its resource.

**Run.**  `fft_program`: the cases of `MCFftProgram`, in both directions and
with and without normalisation, for every element of a basis of the inputs; the
transforms are linear over the reals, so they stand for all inputs.  In a half
spectrum the basis has the imaginary unit as well where an element has a mirror
image, and the mirror image inside the half spectrum holds the conjugate.  The
cases are chosen by structure, not by size:

* complex lines of at most 30 points: each strategy of a Rader convolution
  (Stockham, recursive, gathered because its convolution is split into uploads
  or is Bluestein), each fusion of a Cooley-Tukey node, two and three uploads
  with each kind of component in each position that the mapping distinguishes,
  the external retagging that needs a second scratch, and each inverse of a
  Bluestein convolution;
* real lines: half-length and full-length, in front of each root algorithm that
  absorbs their boundary passes and of each that does not, and with storage of
  another scalar type, which gives up the fusion;
* tensors: two and three axes, omitted axes, transposed and pitched layouts with
  gaps behind rows and batches, real tensors with odd and even rows;
* cosine and sine transforms: all eight kinds on lines of even and odd length
  (type 4 has a reduction for each), over Bluestein, Rader and uploads, on
  planes, padded, formatted and not normalised;
* convolutions of lines, in one pass, in two and three uploads and in separate
  passes, with one batch or several, one kernel or several, conjugated or not,
  in F64 and with storage of another scalar type; matrices of kernels, full and
  symmetric; complex and real planes of one or two coordinates, formatted and
  padded;
* padding of each axis on the spatial or the frequency side of the transform.

The factors and dimensions differ wherever their exchange could hide a mistake,
and two batches are used where an index depends on the batch.

**Proved**, in `StockhamProofs`, for all lengths, factors and numbers of batches:
first the index arithmetic that the run checks on short lines.  A pass is any upload
(`IsUpload`) or a child of a Cooley-Tukey node whose own mapping is one
(`IsMapping`); the batches fill whole lines, `PerLine` transforms each, as the
builders have it.

* `StoresOnce` and `ReadsOnce`: `output_index` and `input_index` are bijections
  from the elements of the transforms to the places of their lines.  Each mapping
  is brought to one of two forms, elements in order (`PlainBijection`) and columns
  (`ColumnBijection`), composed with the exchange of two digits (`SwapBijection`)
  for the first and third of three uploads and with the elements of the parent
  (`ParentElements`) for a left child.  All of it rests on the uniqueness of
  digits (`Digits`, `Split`).
* `TwoUploads`, `ThreeUploads`, `CooleyTukey`: a pass reads what the one before
  stored, the last result is where a transform of the whole line has it, and the
  turns of the passes add up, modulo whole revolutions (`SameTurn`), to the turn
  n * k / len of the whole transform.  This is the step of `OutputIsTransform`
  that depends on lengths.

Then the numbers, for every length that divides `Q + 1`, the order of the circle,
so that its turns exist (`Divides`).  `OutputIsTransform` itself is about whole
programs and stays with TLC; these theorems are the part of it that the passes of
Stockham transforms and Cooley-Tukey nodes contribute, without a bound on lengths:

* `StockhamIsFourier`: the stages compute the discrete Fourier transform of what
  they read, whatever the schedule of radices.  The invariant of the induction is
  `Transforms`: before stage `s + 1`, block `b` of the memory holds the transform of
  the elements `b`, `b + d`, ... of the source, where `d` blocks are left to join.  A stage keeps it (`StageTransforms`) because a sum over `m * r`
  elements is a sum of `r` sums (`Regroup`) and the turn of an element is the
  product of the turns of its digits (`RootSplit`).
* `StockhamPassTransforms`: a dispatch of the kernel through any mapping leaves
  these transforms, turned and scaled, at the places of the mapping.  It rests on
  `StoresOnce`: `Written` chooses one of the values stored to a place, and there
  is one only.
* `TwoUploadsAreFourier`, `ThreeUploadsAreFourier`, `CooleyTukeyIsFourier` and
  `FusedCooleyTukeyIsFourier`: transforms of the factors, connected by the mappings
  of uploads, by the five steps of a node or by its fused left child, make up the
  transform of the product, in the order that the mapping of the whole gives.
  Nothing is assumed of the children but that they transform their rows
  (`Transformed`, `LinesTransformed`), so the theorems for nodes apply at every
  level of a tree, and to children of every kind.  The algebra is `SplitFourier`,
  a transform of `a * b` points as transforms of `b` and of `a` points, and
  `FactorTimes`: scaling by `a` and by `b` is scaling once by `a * b`.
* `TwoStockhamUploads` puts the two levels together: two dispatches, from
  memories with any contents.
* `DirectRaderIsFourier`: the transform of a prime number of points that multiplies
  by a table of roots in generator order (`RaderDirect`).  What it needs of the
  generator is `Generates`, that its powers are the residues other than zero, each
  once; that powers repeat after `prime - 1` follows (`PowerWraps`), and the terms of
  each sum are those of the transform in another order (`SumPermuted`).

`DispatchProofs` is about the device itself, for any `Resident` and any program of
the passes that `Stores` describes: workgroups run beside each other, and what each
read is old when it stores.

* `DeviceInterprets`: at the end the memory is `Interpreted`, that of the
  interpreters of the library, which run one workgroup after the other.
  `Executable` is the hypothesis: in the memory that the interpreters reach, each
  pass is `Separate`, that is, each place of its output belongs to one workgroup
  and it does not read its output.  The inductive invariant `DeviceInv` says that
  a workgroup in flight is going to store what it would store if it ran alone on
  the memory before the pass (`Now`), and that the memory is `Now` with the stores
  of the workgroups that have `Ended`.  Nothing weaker is inductive: a workgroup
  may start after others have stored, and reads what it should only because none of
  them stores where it reads.
* `DeviceIndependent`, `DeviceTypeOK` and `DeviceUsesWritten` are
  `WorkgroupsIndependent`, `TypeOK` and `NothingFromUnwritten` from that invariant;
  the last for `Complete` programs, whose passes store only defined values when
  they are interpreted.  They take a property of passes that run alone to one of
  all interleavings.
* `DeviceTransforms`, `DeviceTwoUploads` and `DeviceThreeUploads` discharge these
  hypotheses, for all lengths and factors, for the programs of one, two and three
  Stockham uploads (`MappedSeparate` from `StoresOnce`; `Turning` and
  `ResultDefined` for the defined values): workgroups stay apart, nothing unwritten
  is used, whatever the scratch held, and at the end the target holds the discrete
  Fourier transform of every line.  For these programs that is all that
  `OutputIsTransform` asks.  Source and target may be one buffer where there is
  scratch between them, and one of the two buffers of three uploads may be the target.
* The programs of the library are trees, so the last part composes programs from parts.
  A *task* (`IsTask`) is a number of lines, a length, a mapping, a direction and a
  scale; passes *compute* it (`Computes`) when, from every memory that is `Ready`
  (the source is full, the places to be written exist, the tables hold what they
  should), the interpreters reach a memory in which the task is `Fulfilled` and
  nothing but the resources they may write has changed.  The passes may then be
  parts of another program, wherever what it still has to read is elsewhere.
  `KernelComputes` is the leaf: a Stockham transform, or a direct transform of prime
  length with its table of roots (`RootsTable`).  `TwoUploadsCompute`,
  `ThreeUploadsCompute`, `CooleyTukeyComputes` (the five steps: pack, right child,
  twiddle and transpose, left child, scatter) and `FusedCooleyTukeyComputes` (the
  left child does the last two) are the inner nodes, for children computed in any
  way.  `DeviceComputes` executes the result: workgroups stay apart, nothing
  unwritten is used, and the task is fulfilled at the end.

They follow from `CircleAssumption`, that the points of the circle are distinct
and the quarter turn is the imaginary unit, which the run evaluates; the laws of
a commutative ring, of conjugation and of the turns (`WAdd`, `WWhole`) are proved
from the definitions of `Add`, `Mul` and `Circle`.  `Leaf` and `Branch` say of
which Stockham passes and nodes the theorems speak: those without a modifier, a fused
multiplication or one of the boundary mappings of real transforms; `PrimeLeaf` of the
direct prime transforms whose mapping turns nothing that they read.  Most of the Stockham passes
and of the nodes that the cases of the run flatten into are of this form.

Left to TLC are the passes outside `Leaf`, `PrimeLeaf` and `Branch`, the
convolutions of Rader and Bluestein (they are no nodes of the composition above,
because that a convolution is a product of transforms is not proved), R2R kernels,
tensors, padding, that flattening connects the passes as the theorems suppose, and
`OutputsFullyOverwritten`, which is about the resources that flattening allocates.

## 8. What disagrees with the documentation

Four runs expect a violation, each of one property that a comment, document or
test of the repository states; `PROJECT.json` quotes the lines.

* `vulkan_idle_fails`: `Drop` of a ticket ignores the result of
  `queue_wait_idle` and recycles the ticket's pipeline and slot although its
  submission may still run.  It takes a driver that fails the wait for the fence
  of a ticket dropped without being waited for, and then the idle wait, without
  losing the device.
* `program_mixed_scratch`: an allocation keeps the scalar of its first scratch
  resource; a double-double resource that takes over F64 scratch gets half the
  bytes it needs.
* `program_shared_tables`: the preparation contract for caller-owned storage
  refuses the allocation that the plan makes two equal tables share.
* `level_zero_release`: without debug assertions the insertion into the kernel
  pool, an argument of `debug_assert!`, does not happen: the relinquished
  kernel is lost.

Passing properties name two exceptions, cases in which the code does not do what
they otherwise say.

* `UsedHandlesLive` and `ImplementsExclusiveTickets` (`Unloaded`,
  `UnloadsInUse`): when a launch of `submit_prepared` in `hip/runtime.rs` fails
  after an earlier one, its locals are dropped in reverse order.  The modules
  that did not fit into the cache are unloaded (`hip_unload`) before freeing the
  buffers or destroying the stream waits for the launches already queued.  No
  line of the repository says that the device is done with them by then.
* `OutputsFullyOverwritten` (`ForwardUploadOfKernels`): forward uploads of one
  batch that is convolved with several kernels bind a scratch as long as all
  outputs write-only but store one batch of it, against
  `program_ir.rs:6790-6794`.  Nothing comes of it (`NothingFromUnwritten`): their
  successors read that batch only.

## 9. Limits

**Only model-checked.**  Liveness (`TicketsFinish`, `LockReleased`) and
whatever needs ENABLED are out of the prover's reach.
Induction is not: `InductionTheorems` derives it from the least number
principle, for sets instead of predicates (`SetInduction`, `BoundedInduction`,
`StrongInduction`), and from it that a recursion over a range has one solution
(`RecursionExists`, `RecursionUnique`).  The byte totals of section 6 and the sums
and stages of section 7 are proved with it.  `FftIr` builds trees with RECURSIVE
operators, which the prover cannot use, so `OutputIsTransform` and `OutputsFullyOverwritten`
stay with TLC as statements about what the builders make of a plan, and that all
their programs satisfy the hypotheses of the theorems of `DispatchProofs` does as
well; section 7 says for which of them it is proved.

**Abstracted.**  Byte sizes of pooled buffers (a pool hit is any pooled handle
of the kind), the LIFO order of pools, the contents of buffers other than
tables, the descriptor layouts.  A poisoned mutex is not modelled: it needs a
panic inside a guard.  A ticket that is leaked with `mem::forget` keeps its
resources, in the code as in the model (its owner never acts again).

In `FftProgram`: the exchange between the stages of a Stockham transform
through registers and shared memory (a transform is one step), grouped batches
and the two kernels that fuse a whole Rader node into one grouped workgroup, and
the choice of the plan: a case is any plan, whether or
not the planner would choose it for so short a length.  Twiddles read from a
table and twiddles computed in place are the same numbers.  Of convolutions, the
normalisation of the cross-power spectrum is left out, because it takes a square
root, which the field does not give; so are real convolutions with storage of
another scalar type.  Whether a device has the shared memory for a single pass is
an input of a case.

**Not modelled.**  The emitters produce source text and SPIR-V, whose meaning
would need a semantics of these languages; device discovery is a sequence of
foreign calls; the error analysis of double-double arithmetic is about real
numbers.  The implementation has 249,438 lines; emitters (`backend/vulkan.rs`
alone 37,189), the six runtimes' foreign calls, the scheduler's tables of device
heuristics with its snapshot of upstream's, double-double kernels and tests are
most of them, so the lines that definitions here translate stay a small share,
well below a third.  The remaining components are in the plan; `PROJECT.json` gives each
its status and reason.
