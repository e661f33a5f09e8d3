--------------------------- MODULE VulkanRuntime ---------------------------
(***************************************************************************)
(* The self-contained Vulkan context of src/backend/vulkan/runtime.rs: the *)
(* pools of staging buffers, device-local transients, descriptor/pipeline  *)
(* instances and command-buffer/fence slots, the cache of immutable lookup *)
(* tables, the execution lock, and the three ways a program runs: an async *)
(* submission that hands out a ticket, a synchronous execution, and a      *)
(* chain of two programs whose intermediate output stays on the device.    *)
(*                                                                         *)
(* A Job is one call of the API on a thread of its own.  Everything a call *)
(* does under one pool mutex is one action, so recycling by a ticket that  *)
(* is waited or dropped interleaves with the submission that another       *)
(* thread is building under the execution lock.  The device executes the   *)
(* queue in order and signals the fence of a submission when it is done.   *)
(*                                                                         *)
(* A handle is a member of a finite set; a handle in `fresh` does not      *)
(* exist, creating one takes it from there and destroying it returns it.   *)
(* Byte sizes and the LIFO order of a pool are abstracted; `pool` counts   *)
(* how often a handle is pooled, so pushing one twice is visible.          *)
(***************************************************************************)
EXTENDS Naturals, Sequences, FiniteSets

CONSTANTS
    Job,          \* concurrent API calls
    Maint,        \* the thread inside one of the clear_cached_* functions
    Staging,      \* HostVisibleStorageBuffer handles
    Transient,    \* pooled DeviceLocalStorageBuffer handles
    Pipe,         \* VulkanComputePipeline handles, one descriptor set each
    Slot,         \* command-buffer/fence pairs
    LutBuffer,    \* device-local buffers that hold lookup tables
    Key,          \* VulkanLutCacheKey values
    Shader,       \* VulkanPipelineObjectKey values
    Plan,         \* Plan[j]: the memory plan of j's program, a sequence of
                  \*   keys (LookupTable) and None (any other allocation)
    ShaderOfPipe, \* the shader a pipeline handle is created for
    Shaders,      \* Shaders[j]: the shader of each pass of j's program
    Modes,        \* Modes[j]: the entry points j uses, a subset of AllModes
    Clears,       \* the clear functions exercised, a subset of AllClears
    MaxFaults,    \* bound on injected device and driver errors
    IdleCanFail,  \* may queue_wait_idle fail on a device that is not lost
    None

Handle == Staging \cup Transient \cup Pipe \cup Slot
AllModes == {"async", "sync", "chain"}

\* The pools that each clear_cached_* function empties, in order, after
\* waiting for the queue.
AllClears == {<<"idle", "lut">>, <<"idle", "transient">>, <<"idle", "slot">>,
              <<"idle", "staging", "syncPipe", "asyncPipe", "slot">>}

ASSUME RuntimeAssumption ==
    /\ IsFiniteSet(Job)
    /\ Maint \notin Job /\ None \notin Job /\ None # Maint
    /\ None \notin Handle \cup LutBuffer \cup Key
    /\ Staging \cap Transient = {}
    /\ (Staging \cup Transient) \cap Pipe = {}
    /\ (Staging \cup Transient \cup Pipe) \cap Slot = {}
    /\ Plan \in [Job -> Seq(Key \cup {None})]
    /\ Shaders \in [Job -> Seq(Shader)]
    /\ ShaderOfPipe \in [Pipe -> Shader]
    /\ Modes \in [Job -> SUBSET AllModes] /\ Clears \subseteq AllClears
    /\ MaxFaults \in Nat /\ IdleCanFail \in BOOLEAN

VARIABLES
    lock,       \* execution_lock: the Job or Maint inside it, or None
    phase,      \* where each job is in its call
    mode,       \* the entry point of the call
    stage,      \* 1, and 2 for the second program of a chain
    count,      \* allocations made, then passes bound, by the current step
    fresh,      \* handles that do not exist
    pool,       \* how often each handle is in its pool
    held,       \* handles owned by the call or the ticket it returned
    leaked,     \* slots dropped without being destroyed or pooled
    resident,   \* the preserved output that a chain carries over
    luts,       \* luts[j][k]: the buffer j's program reads key k from
    pending,    \* PendingLutCacheInsert keys of the call
    lutCache,   \* the shared cache of uploaded tables
    content,    \* the key whose values a table buffer holds on the device
    pipes,      \* the pipeline of each bound pass
    syncCache,  \* pipeline_object_cache, by shader and occurrence
    queue,      \* submissions the device has not finished, in order
    signaled,   \* slots whose fence is signaled
    lost,       \* VK_ERROR_DEVICE_LOST
    clearing,   \* pools the clear in progress has still to empty
    alive,      \* FALSE once the context is dropped
    faults      \* errors injected so far

handleVars == <<fresh, pool, held, leaked>>
lutVars    == <<luts, pending, lutCache, content>>
pipeVars   == <<pipes, syncCache>>
gpuVars    == <<queue, signaled, lost>>
callVars   == <<lock, phase, mode, stage, count, resident>>
restVars   == <<clearing, alive>>
vars == <<handleVars, lutVars, pipeVars, gpuVars, callVars, restVars, faults>>

Phases == {"idle", "locking", "alloc", "bind", "slot", "reset", "record",
           "ticket", "wait", "dropWait", "dropIdle", "syncIdle",
           "commit", "transients", "staging", "pipes", "recycleSlot"}
Pools == {"staging", "transient", "asyncPipe", "syncPipe", "slot", "lut"}
MaxPasses == {Len(Shaders[j]) : j \in Job}
Occurrences == UNION {0 .. n : n \in MaxPasses}

NoLuts == [k \in Key |-> None]
IsSync(j) == mode[j] # "async"
CachedPipes == {syncCache[c] : c \in DOMAIN syncCache} \ {None}
LiveLuts == ({lutCache[k] : k \in Key}
             \cup UNION {{luts[j][k] : k \in Key} : j \in Job}) \ {None}

Init ==
    /\ lock = None
    /\ phase = [j \in Job |-> "idle"]
    /\ mode = [j \in Job |-> "async"]
    /\ stage = [j \in Job |-> 1]
    /\ count = [j \in Job |-> 0]
    /\ fresh = Handle
    /\ pool = [h \in Handle |-> 0]
    /\ held = [j \in Job |-> {}]
    /\ leaked = {}
    /\ resident = [j \in Job |-> None]
    /\ luts = [j \in Job |-> NoLuts]
    /\ pending = [j \in Job |-> {}]
    /\ lutCache = NoLuts
    /\ content = [b \in LutBuffer |-> None]
    /\ pipes = [j \in Job |-> <<>>]
    /\ syncCache = [c \in Shader \X Occurrences |-> None]
    /\ queue = <<>>
    /\ signaled = {}
    /\ lost = FALSE
    /\ clearing = <<>>
    /\ alive = TRUE
    /\ faults = 0

-----------------------------------------------------------------------------
(* Moves of handles between the pools and the calls.                       *)

Pooled(S) == {h \in S : pool[h] > 0}

\* Some handle of S that does not exist yet; which one is immaterial.
Creatable(S) == IF S \cap fresh = {} THEN {}
                ELSE {CHOOSE h \in S \cap fresh : TRUE}

\* A pool pop, or a creation when the pool of S has nothing to offer.
Obtainable(S) == IF Pooled(S) # {} THEN Pooled(S) ELSE Creatable(S)

\* Variant: the pool is counted down for a handle that was just created.
TakeAlwaysPops(j, hs) ==
    /\ held' = [held EXCEPT ![j] = @ \cup hs]
    /\ pool' = [h \in Handle |-> IF h \in hs THEN pool[h] - 1 ELSE pool[h]]
    /\ fresh' = fresh \ hs
    /\ UNCHANGED leaked

Take(j, hs) ==
    /\ held' = [held EXCEPT ![j] = @ \cup hs]
    /\ pool' = [h \in Handle |-> IF h \in hs /\ pool[h] > 0
                                 THEN pool[h] - 1 ELSE pool[h]]
    /\ fresh' = fresh \ hs
    /\ UNCHANGED leaked

\* Variant: a vector is recycled by reference and not taken out of the ticket.
RecycleWithoutTake(j, hs) ==
    /\ pool' = [h \in Handle |-> IF h \in hs THEN pool[h] + 1 ELSE pool[h]]
    /\ UNCHANGED <<fresh, leaked, held>>

Recycle(j, hs) ==
    /\ held' = [held EXCEPT ![j] = @ \ hs]
    /\ pool' = [h \in Handle |-> IF h \in hs THEN pool[h] + 1 ELSE pool[h]]
    /\ UNCHANGED <<fresh, leaked>>

InjectFault == faults < MaxFaults /\ faults' = faults + 1

Goto(j, p) == phase' = [phase EXCEPT ![j] = p]

\* The call returns: its local state is gone.
Return(j) ==
    /\ Goto(j, "idle")
    /\ mode' = [mode EXCEPT ![j] = "async"]
    /\ stage' = [stage EXCEPT ![j] = 1]
    /\ count' = [count EXCEPT ![j] = 0]

\* Variant: device buffers are raw handles and forgotten on every error.
DestroyedWithoutBuffers(j, keep, lose) ==
    held[j] \ (keep \cup lose \cup Transient)

\* What the destructors of the locals of a failing call destroy.
Destroyed(j, keep, lose) == held[j] \ (keep \cup lose)

\* The call returns an error: what it owns is destroyed with its locals, but
\* for `keep`, which it pools, and `lose`, which it forgets.
ReturnError(j, keep, lose) ==
    /\ held' = [held EXCEPT ![j] = {}]
    /\ pool' = [h \in Handle |-> IF h \in keep THEN pool[h] + 1
                                 ELSE pool[h]]
    /\ fresh' = fresh \cup Destroyed(j, keep, lose)
    /\ leaked' = leaked \cup lose
    /\ luts' = [luts EXCEPT ![j] = NoLuts]
    /\ pending' = [pending EXCEPT ![j] = {}]
    /\ pipes' = [pipes EXCEPT ![j] = <<>>]
    /\ resident' = [resident EXCEPT ![j] = None]
    /\ lock' = None
    /\ Return(j)
    /\ UNCHANGED <<lutCache, content, syncCache, restVars>>

-----------------------------------------------------------------------------
(* Building a submission under the execution lock.                         *)

Begin(j, m) ==
    /\ alive /\ phase[j] = "idle"
    /\ mode' = [mode EXCEPT ![j] = m]
    /\ stage' = [stage EXCEPT ![j] = 1]
    /\ Goto(j, "locking")
    /\ UNCHANGED <<lock, count, resident, handleVars, lutVars, pipeVars,
                   gpuVars, restVars, faults>>

execution_guard(j) ==
    /\ phase[j] = "locking" /\ lock = None
    /\ lock' = j
    /\ count' = [count EXCEPT ![j] = 0]
    /\ Goto(j, "alloc")
    /\ UNCHANGED <<mode, stage, resident, handleVars, lutVars, pipeVars,
                   gpuVars, restVars, faults>>

AllocationsDone(j) == count[j] >= Len(Plan[j])

\* A staging buffer for the next allocation, and a transient, the cached
\* table, or a new table buffer whose insertion is left pending.
allocate_program_storage(j) ==
    /\ phase[j] = "alloc" /\ ~AllocationsDone(j)
    /\ count' = [count EXCEPT ![j] = @ + 1]
    /\ LET k == Plan[j][count[j] + 1] IN
       \E s \in Obtainable(Staging) :
          \/ /\ k = None
             /\ \E t \in Obtainable(Transient) : Take(j, {s, t})
             /\ UNCHANGED lutVars
          \/ /\ k # None /\ lutCache[k] # None
             /\ Take(j, {s})
             /\ luts' = [luts EXCEPT ![j][k] = lutCache[k]]
             /\ UNCHANGED <<pending, lutCache, content>>
          \/ /\ k # None /\ lutCache[k] = None
             /\ Take(j, {s})
             /\ ~(LutBuffer \subseteq LiveLuts)
             /\ LET b == CHOOSE x \in LutBuffer : x \notin LiveLuts IN
                   /\ luts' = [luts EXCEPT ![j][k] = b]
                   /\ content' = [content EXCEPT ![b] = None]
             /\ pending' = [pending EXCEPT ![j] = @ \cup {k}]
             /\ UNCHANGED lutCache
    /\ UNCHANGED <<lock, phase, mode, stage, resident, pipeVars, gpuVars,
                   restVars, faults>>

\* All allocations exist.  The second program of a chain puts the resident
\* buffer in the place of the input allocation, which returns to its pool.
StorageReady(j) ==
    /\ phase[j] = "alloc" /\ AllocationsDone(j)
    /\ count' = [count EXCEPT ![j] = 0]
    /\ Goto(j, "bind")
    /\ IF resident[j] = None
       THEN UNCHANGED <<handleVars, resident>>
       ELSE /\ \E t \in (held[j] \cap Transient) \ {resident[j]} :
                  Recycle(j, {t})
            /\ resident' = [resident EXCEPT ![j] = None]
    /\ UNCHANGED <<lock, mode, stage, lutVars, pipeVars, gpuVars, restVars,
                   faults>>

\* Variant: every pass of a shader shares the first occurrence.
OneOccurrence(j, i) == 0

occurrence(j, i) ==
    Cardinality({m \in 1 .. i - 1 : Shaders[j][m] = Shaders[j][i]})

PipesFor(j, i) == {p \in Pipe : ShaderOfPipe[p] = Shaders[j][i]}

BindPass(j, i, p) ==
    /\ pipes' = [pipes EXCEPT ![j] = Append(@, p)]
    /\ count' = [count EXCEPT ![j] = i]

\* An async pass owns a pipeline instance; its descriptor set is written.
take_async_pipeline(j) ==
    /\ phase[j] = "bind" /\ ~IsSync(j) /\ count[j] < Len(Shaders[j])
    /\ \E p \in Obtainable(PipesFor(j, count[j] + 1)) :
          Take(j, {p}) /\ BindPass(j, count[j] + 1, p)
    /\ UNCHANGED <<lock, phase, mode, stage, resident, lutVars, syncCache,
                   gpuVars, restVars, faults>>

\* A synchronous pass uses the cached instance of its occurrence.
pipeline_for_shader_occurrence(j) ==
    /\ phase[j] = "bind" /\ IsSync(j) /\ count[j] < Len(Shaders[j])
    /\ LET i == count[j] + 1
           c == <<Shaders[j][i], occurrence(j, i)>>
       IN \/ /\ syncCache[c] # None
             /\ BindPass(j, i, syncCache[c])
             /\ UNCHANGED <<syncCache, fresh>>
          \/ /\ syncCache[c] = None
             /\ \E p \in Creatable(PipesFor(j, i)) :
                   /\ BindPass(j, i, p)
                   /\ syncCache' = [syncCache EXCEPT ![c] = p]
                   /\ fresh' = fresh \ {p}
    /\ UNCHANGED <<lock, phase, mode, stage, resident, pool, held, leaked,
                   lutVars, gpuVars, restVars, faults>>

PassesBound(j) ==
    /\ phase[j] = "bind" /\ count[j] = Len(Shaders[j])
    /\ Goto(j, "slot")
    /\ UNCHANGED <<lock, mode, stage, count, resident, handleVars, lutVars,
                   pipeVars, gpuVars, restVars, faults>>

\* A slot is popped to be reset, or created.
take_submission_slot(j) ==
    /\ phase[j] = "slot"
    /\ \E s \in Obtainable(Slot) :
          /\ Take(j, {s})
          /\ Goto(j, IF s \in fresh THEN "record" ELSE "reset")
          /\ signaled' = IF s \in fresh THEN signaled \ {s} ELSE signaled
    /\ UNCHANGED <<lock, mode, stage, count, resident, lutVars, pipeVars,
                   queue, lost, restVars, faults>>

SlotOf(j) == held[j] \cap Slot

ResetSlot(j) ==
    /\ phase[j] = "reset"
    /\ signaled' = signaled \ SlotOf(j)
    /\ Goto(j, "record")
    /\ UNCHANGED <<lock, mode, stage, count, resident, handleVars, lutVars,
                   pipeVars, queue, lost, restVars, faults>>

\* Resetting the fence or the command buffer fails: the pair, a plain copy
\* without a destructor, is forgotten.
ResetSlotFails(j) ==
    /\ phase[j] = "reset" /\ InjectFault
    /\ ReturnError(j, {}, SlotOf(j))
    /\ UNCHANGED gpuVars

\* No handle left to create, or the driver refuses.
Exhausted(j) ==
    \/ phase[j] = "alloc" /\ ~AllocationsDone(j)
       /\ \/ Obtainable(Staging) = {}
          \/ /\ Plan[j][count[j] + 1] = None
             /\ Obtainable(Transient) = {}
          \/ /\ Plan[j][count[j] + 1] # None
             /\ LutBuffer \subseteq LiveLuts
    \/ phase[j] = "bind" /\ count[j] < Len(Shaders[j])
       /\ LET i == count[j] + 1 IN
          IF IsSync(j)
          THEN /\ syncCache[<<Shaders[j][i], occurrence(j, i)>>] = None
               /\ PipesFor(j, i) \cap fresh = {}
          ELSE Obtainable(PipesFor(j, i)) = {}
    \/ phase[j] = "slot" /\ Obtainable(Slot) = {}

BuildFails(j) ==
    /\ phase[j] \in {"alloc", "bind", "slot"}
    /\ \/ Exhausted(j) /\ UNCHANGED faults
       \/ InjectFault
    /\ ReturnError(j, {}, {})
    /\ UNCHANGED gpuVars

\* Recording or vkQueueSubmit fails: only the slot returns to its pool.
SubmitFails(j) ==
    /\ phase[j] = "record"
    /\ \/ lost /\ UNCHANGED faults
       \/ InjectFault
    /\ ReturnError(j, SlotOf(j), {})
    /\ UNCHANGED gpuVars

\* Variant: the copies from staging to the new tables are not recorded.
SubmissionWithoutUploads(j) ==
    [job |-> j, uses |-> held[j], pipes |-> pipes[j],
     luts |-> luts[j], uploads |-> {}]

Submission(j) ==
    [job |-> j, uses |-> held[j], pipes |-> pipes[j],
     luts |-> luts[j], uploads |-> pending[j]]

\* Variant: the guard of an async call lives as long as its ticket.
LockKept(j) == lock

\* The guard of an async call ends with it, a synchronous one keeps it.
LockAfterSubmit(j) == IF IsSync(j) THEN lock ELSE None

\* vkQueueSubmit.  An async call returns its ticket and leaves the lock, a
\* synchronous one waits inside it.
submit_staged_program(j) ==
    /\ phase[j] = "record" /\ ~lost
    /\ queue' = Append(queue, Submission(j))
    /\ Goto(j, IF IsSync(j) THEN "wait" ELSE "ticket")
    /\ lock' = LockAfterSubmit(j)
    /\ UNCHANGED <<mode, stage, count, resident, handleVars, lutVars,
                   pipeVars, signaled, lost, restVars, faults>>

-----------------------------------------------------------------------------
(* The device.                                                             *)

GpuCompletes ==
    /\ queue # <<>>
    /\ LET e == Head(queue) IN
          /\ signaled' = signaled \cup (e.uses \cap Slot)
          /\ content' = [b \in LutBuffer |->
                            IF \E k \in e.uploads : e.luts[k] = b
                            THEN CHOOSE k \in e.uploads : e.luts[k] = b
                            ELSE content[b]]
    /\ queue' = Tail(queue)
    /\ UNCHANGED <<callVars, handleVars, luts, pending, lutCache, pipeVars,
                   lost, restVars, faults>>

DeviceLost ==
    /\ ~lost /\ InjectFault
    /\ lost' = TRUE /\ queue' = <<>>
    /\ UNCHANGED <<callVars, handleVars, lutVars, pipeVars, signaled,
                   restVars>>

-----------------------------------------------------------------------------
(* Completion: VulkanPendingProgram and the synchronous epilogue.          *)

\* The owner calls wait(), or lets the ticket go out of scope.
TicketWait(j) ==
    /\ phase[j] = "ticket"
    /\ Goto(j, "wait")
    /\ UNCHANGED <<lock, mode, stage, count, resident, handleVars, lutVars,
                   pipeVars, gpuVars, restVars, faults>>

TicketDrop(j) ==
    /\ phase[j] = "ticket"
    /\ Goto(j, "dropWait")
    /\ UNCHANGED <<lock, mode, stage, count, resident, handleVars, lutVars,
                   pipeVars, gpuVars, restVars, faults>>

\* Variant: wait_for_fences is not called, or its timeout is zero.
DoneUnchecked(j) == TRUE

Done(j) == SlotOf(j) \subseteq signaled

\* wait_for_fences returns.  The synchronous path recycles its slot here.
wait_for_completion(j) ==
    /\ phase[j] = "wait" /\ Done(j)
    /\ Goto(j, "commit")
    /\ IF IsSync(j) THEN Recycle(j, SlotOf(j)) ELSE UNCHANGED handleVars
    /\ UNCHANGED <<lock, mode, stage, count, resident, lutVars, pipeVars,
                   gpuVars, restVars, faults>>

\* Variant: a failing wait is tried again.
RetryWait(j) == IF IsSync(j) THEN "syncIdle" ELSE "dropWait"

AfterWaitFailure(j) ==
    IF phase[j] = "dropWait" THEN "dropIdle"
    ELSE IF IsSync(j) THEN "syncIdle" ELSE "dropWait"

\* The wait fails: Drop waits again, the synchronous path idles the queue.
WaitFails(j) ==
    /\ phase[j] \in {"wait", "dropWait"}
    /\ \/ lost /\ UNCHANGED faults
       \/ InjectFault
    /\ Goto(j, AfterWaitFailure(j))
    /\ UNCHANGED <<lock, mode, stage, count, resident, handleVars, lutVars,
                   pipeVars, gpuVars, restVars>>

InFlight(j) == \E n \in 1 .. Len(queue) : queue[n].job = j

\* Variant: Drop recycles right after the failed wait.
NoIdle(j) == UNCHANGED faults

\* queue_wait_idle returns: everything submitted before it has finished.
\* Its own result is ignored.
IdleReturns(j) ==
    \/ ~InFlight(j) /\ UNCHANGED faults
    \/ IdleCanFail /\ InjectFault

SyncIdle(j) ==
    /\ phase[j] = "syncIdle" /\ IdleReturns(j)
    /\ ReturnError(j, SlotOf(j), {})
    /\ UNCHANGED gpuVars

\* Drop discards the pending table insertions.
DropPending(j) ==
    /\ \/ phase[j] = "dropWait" /\ Done(j) /\ UNCHANGED faults
       \/ phase[j] = "dropIdle" /\ IdleReturns(j)
    /\ pending' = [pending EXCEPT ![j] = {}]
    /\ Goto(j, "transients")
    /\ UNCHANGED <<lock, mode, stage, count, resident, handleVars, luts,
                   lutCache, content, pipeVars, gpuVars, restVars>>

\* Reading the staged output back fails.  A ticket falls into Drop, the
\* synchronous path drops its buffers.
ReadOutputFails(j) ==
    /\ InjectFault
    /\ \/ /\ phase[j] = "commit" /\ ~IsSync(j)
          /\ Goto(j, "dropWait")
          /\ UNCHANGED <<lock, mode, stage, count, resident, handleVars,
                         lutVars, pipeVars, restVars>>
       \/ /\ phase[j] = "transients" /\ IsSync(j)
          /\ mode[j] = "chain" => stage[j] = 2
          /\ ReturnError(j, {}, {})
    /\ UNCHANGED gpuVars

commit_program_luts(j) ==
    /\ phase[j] = "commit"
    /\ lutCache' = [k \in Key |-> IF k \in pending[j] /\ lutCache[k] = None
                                  THEN luts[j][k] ELSE lutCache[k]]
    /\ pending' = [pending EXCEPT ![j] = {}]
    /\ Goto(j, "transients")
    /\ UNCHANGED <<lock, mode, stage, count, resident, handleVars, luts,
                   content, pipeVars, gpuVars, restVars, faults>>

Preserves(j) == mode[j] = "chain" /\ stage[j] = 1

\* Transients return to the pool, the tables of the call are released; the
\* first program of a chain keeps its output.
recycle_program_transients(j) ==
    /\ phase[j] = "transients"
    /\ IF Preserves(j)
       THEN \E t \in held[j] \cap Transient :
               /\ Recycle(j, (held[j] \cap Transient) \ {t})
               /\ resident' = [resident EXCEPT ![j] = t]
       ELSE Recycle(j, held[j] \cap Transient) /\ UNCHANGED resident
    /\ luts' = [luts EXCEPT ![j] = NoLuts]
    /\ Goto(j, "staging")
    /\ UNCHANGED <<lock, mode, stage, count, pending, lutCache, content,
                   pipeVars, gpuVars, restVars, faults>>

\* Staging returns to the pool; a synchronous execution is over and leaves
\* the lock, a chain goes on to take it again for its second program.
recycle_staging_buffers(j) ==
    /\ phase[j] = "staging"
    /\ Recycle(j, held[j] \cap Staging)
    /\ IF IsSync(j)
       THEN lock' = None /\ pipes' = [pipes EXCEPT ![j] = <<>>]
       ELSE UNCHANGED <<lock, pipes>>
    /\ \/ /\ ~IsSync(j) /\ Goto(j, "pipes")
          /\ UNCHANGED <<mode, stage, count>>
       \/ /\ IsSync(j) /\ Preserves(j) /\ Goto(j, "locking")
          /\ stage' = [stage EXCEPT ![j] = 2]
          /\ UNCHANGED <<mode, count>>
       \/ IsSync(j) /\ ~Preserves(j) /\ Return(j)
    /\ UNCHANGED <<resident, lutVars, syncCache, gpuVars, restVars, faults>>

recycle_async_pipelines(j) ==
    /\ phase[j] = "pipes"
    /\ Recycle(j, held[j] \cap Pipe)
    /\ pipes' = [pipes EXCEPT ![j] = <<>>]
    /\ Goto(j, "recycleSlot")
    /\ UNCHANGED <<lock, mode, stage, count, resident, lutVars, syncCache,
                   gpuVars, restVars, faults>>

recycle_submission_slot(j) ==
    /\ phase[j] = "recycleSlot"
    /\ Recycle(j, SlotOf(j))
    /\ Return(j)
    /\ UNCHANGED <<lock, resident, lutVars, pipeVars, gpuVars, restVars,
                   faults>>

-----------------------------------------------------------------------------
(* The clear_cached_* functions and the drop of the context.               *)

BeginClear(list) ==
    /\ alive /\ lock = None
    /\ lock' = Maint
    /\ clearing' = list
    /\ UNCHANGED <<phase, mode, stage, count, resident, handleVars, lutVars,
                   pipeVars, gpuVars, alive, faults>>

HandlesOf(p) ==
    CASE p = "staging" -> Pooled(Staging)
      [] p = "transient" -> Pooled(Transient)
      [] p = "asyncPipe" -> Pooled(Pipe)
      [] p = "slot" -> Pooled(Slot)
      [] p = "syncPipe" -> CachedPipes
      [] p = "lut" -> {}

\* queue_wait_idle before the first pool; an error ends the clear.
ClearIdles ==
    /\ clearing # <<>> /\ Head(clearing) = "idle"
    /\ \/ /\ queue = <<>> /\ ~lost
          /\ clearing' = Tail(clearing)
          /\ UNCHANGED <<lock, faults>>
       \/ /\ lost \/ IdleCanFail
          /\ IF lost THEN UNCHANGED faults ELSE InjectFault
          /\ clearing' = <<>> /\ lock' = None
    /\ UNCHANGED <<phase, mode, stage, count, resident, handleVars, lutVars,
                   pipeVars, gpuVars, alive>>

\* Empty the next pool under its mutex; leave the lock after the last.
ClearPool ==
    /\ clearing # <<>> /\ Head(clearing) # "idle"
    /\ LET p == Head(clearing) IN
          /\ fresh' = fresh \cup HandlesOf(p)
          /\ pool' = [h \in Handle |-> IF h \in HandlesOf(p) /\ p # "syncPipe"
                                       THEN 0 ELSE pool[h]]
          /\ syncCache' = IF p = "syncPipe"
                          THEN [c \in DOMAIN syncCache |-> None]
                          ELSE syncCache
          /\ lutCache' = IF p = "lut" THEN NoLuts ELSE lutCache
    /\ clearing' = Tail(clearing)
    /\ lock' = IF Len(clearing) = 1 THEN None ELSE lock
    /\ UNCHANGED <<phase, mode, stage, count, resident, held, leaked, luts,
                   pending, content, pipes, gpuVars, alive, faults>>

\* Variant: the cached synchronous pipelines are left to their own Drop.
DrainedPools == Pooled(Handle)

\* What the destructor of the context destroys before the device.
Drained == Pooled(Handle) \cup CachedPipes

\* Tickets borrow the context, so none is left when it is dropped.
ContextDrop ==
    /\ alive /\ lock = None
    /\ \A j \in Job : phase[j] = "idle"
    /\ alive' = FALSE
    /\ fresh' = fresh \cup Drained
    /\ pool' = [h \in Handle |-> 0]
    /\ syncCache' = [c \in DOMAIN syncCache |-> None]
    /\ lutCache' = NoLuts
    /\ queue' = <<>>
    /\ UNCHANGED <<callVars, held, leaked, luts, pending, content, pipes,
                   signaled, lost, clearing, faults>>

-----------------------------------------------------------------------------
Build(j) ==
    \/ execution_guard(j) \/ allocate_program_storage(j) \/ StorageReady(j)
    \/ take_async_pipeline(j) \/ pipeline_for_shader_occurrence(j)
    \/ PassesBound(j) \/ take_submission_slot(j)
    \/ ResetSlot(j) \/ ResetSlotFails(j)
    \/ BuildFails(j) \/ SubmitFails(j) \/ submit_staged_program(j)

Complete(j) ==
    \/ wait_for_completion(j) \/ WaitFails(j) \/ SyncIdle(j)
    \/ DropPending(j) \/ ReadOutputFails(j) \/ commit_program_luts(j)
    \/ recycle_program_transients(j) \/ recycle_staging_buffers(j)
    \/ recycle_async_pipelines(j) \/ recycle_submission_slot(j)

Next ==
    \/ \E j \in Job :
          \/ \E m \in Modes[j] : Begin(j, m)
          \/ Build(j) \/ TicketWait(j) \/ TicketDrop(j) \/ Complete(j)
    \/ GpuCompletes \/ DeviceLost
    \/ \E list \in Clears : BeginClear(list)
    \/ ClearIdles \/ ClearPool \/ ContextDrop

Spec == Init /\ [][Next]_vars

\* A call that has submitted keeps running, and the device keeps executing.
\* Nothing obliges the owner of a ticket to wait for it, and std::sync::Mutex
\* promises no turn, so entering the execution lock is not fair.
Fairness ==
    /\ WF_vars(GpuCompletes)
    /\ WF_vars(ClearIdles) /\ WF_vars(ClearPool)
    /\ \A j \in Job :
          /\ WF_vars(phase[j] # "locking" /\ Build(j))
          /\ WF_vars(Complete(j))

FairSpec == Spec /\ Fairness

-----------------------------------------------------------------------------
SubmissionRecord ==
    [job : Job, uses : SUBSET Handle, pipes : Seq(Pipe),
     luts : [Key -> LutBuffer \cup {None}], uploads : SUBSET Key]

\* The type invariant: what every variable holds.
TypeOK ==
    /\ lock \in Job \cup {Maint, None}
    /\ phase \in [Job -> Phases]
    /\ mode \in [Job -> AllModes]
    /\ stage \in [Job -> 1 .. 2]
    /\ count \in [Job -> Nat]
    /\ fresh \in SUBSET Handle
    /\ pool \in [Handle -> Nat]
    /\ held \in [Job -> SUBSET Handle]
    /\ leaked \in SUBSET Slot
    /\ resident \in [Job -> Transient \cup {None}]
    /\ luts \in [Job -> [Key -> LutBuffer \cup {None}]]
    /\ pending \in [Job -> SUBSET Key]
    /\ lutCache \in [Key -> LutBuffer \cup {None}]
    /\ content \in [LutBuffer -> Key \cup {None}]
    /\ pipes \in [Job -> Seq(Pipe)]
    /\ syncCache \in [Shader \X Occurrences -> Pipe \cup {None}]
    /\ queue \in Seq(SubmissionRecord)
    /\ signaled \in SUBSET Slot
    /\ lost \in BOOLEAN
    /\ clearing \in Seq(Pools \cup {"idle"})
    /\ alive \in BOOLEAN
    /\ faults \in 0 .. MaxFaults

Entries == {queue[n] : n \in 1 .. Len(queue)}

OneOwner(h) ==
    /\ pool[h] <= 1
    /\ pool[h] = 1 => h \notin fresh
    /\ \A j \in Job : h \in held[j] => /\ pool[h] = 0 /\ h \notin fresh
                                      /\ h \notin CachedPipes
                                      /\ \A i \in Job \ {j} : h \notin held[i]
    /\ h \in CachedPipes => pool[h] = 0 /\ h \notin fresh
    /\ h \in leaked => /\ pool[h] = 0 /\ h \notin fresh
                       /\ h \notin CachedPipes
                       /\ \A j \in Job : h \notin held[j]

\* A handle is in one place only: not created, pooled once, owned by one call
\* or ticket, in the synchronous pipeline cache, or leaked.  A ticket that
\* fails half way through recycling and is then dropped, or two threads
\* recycling at once, never hand the same handle out twice.
ExclusiveOwnership == \A h \in Handle : OneOwner(h)

\* No handle is forgotten: every exit of every call pools it, destroys it or
\* passes it on, but for the slot whose reset failed, and a call that has
\* returned owns nothing.
NothingForgotten ==
    \A h \in Handle :
       \/ h \in fresh \cup leaked \cup CachedPipes
       \/ pool[h] > 0
       \/ \E j \in Job : phase[j] # "idle" /\ h \in held[j]

\* What the device may still touch belongs to the call that submitted it,
\* whatever that call, other tickets and the clear functions do meanwhile.
InFlightStaysOwned ==
    \A e \in Entries :
       /\ e.uses \subseteq held[e.job]
       /\ \A k \in Key : e.luts[k] # None => e.luts[k] \in LiveLuts

\* Writing the descriptor set of a pass never touches the set of an earlier
\* pass of the same program, though both dispatch the same shader, nor a set
\* that a submission the device has not finished reads.
DescriptorsStable ==
    [][\A j \in Job : \A i \in DOMAIN pipes'[j] \ DOMAIN pipes[j] :
          /\ \A m \in DOMAIN pipes[j] : pipes[j][m] # pipes'[j][i]
          /\ \A e \in Entries : \A m \in DOMAIN e.pipes :
                e.pipes[m] # pipes'[j][i]]_pipes

\* A cached table has been uploaded: an insertion waits for the fence of the
\* submission that carries the upload, and a dropped ticket inserts nothing.
CachedTablesUploaded ==
    \A k \in Key : lutCache[k] # None => content[lutCache[k]] = k

\* The submission the device executes next finds every table it reads on the
\* device already or uploads it itself.
TablesReadyForExecution ==
    queue # <<>> =>
       LET e == Head(queue) IN
       \A k \in Key : e.luts[k] # None =>
          k \in e.uploads \/ content[e.luts[k]] = k

\* After the context is dropped nothing created from its device is left but
\* the slots leaked by a failed reset.
NothingOutlivesDevice == ~alive => Handle \subseteq fresh \cup leaked

\* Every wait or drop of a ticket returns, whatever fails, without needing
\* the execution lock.
TicketsFinish ==
    \A j \in Job :
       (phase[j] \in {"wait", "dropWait"} /\ mode[j] = "async")
          ~> phase[j] = "idle"

\* The execution lock is always given back: a synchronous execution does not
\* keep the other threads out for ever, and neither does a clear.
LockReleased == \A a \in Job \cup {Maint} : lock = a ~> lock # a

\* The owner of a handle as ExclusiveTickets sees it.  A leaked slot stays
\* with the context.
OwnerOf(h) ==
    IF \E j \in Job : h \in held[j] THEN CHOOSE j \in Job : h \in held[j]
    ELSE IF h \in CachedPipes \cup leaked THEN Maint
    ELSE None

Tickets == INSTANCE ExclusiveTickets WITH
    Resource <- Handle, Ticket <- Job, Free <- None, Shared <- Maint,
    owner <- [h \in Handle |-> OwnerOf(h)],
    busy <- UNION {e.uses : e \in Entries}

\* The context gives each live ticket exclusive use of its resources.
ImplementsExclusiveTickets == Tickets!Spec
=============================================================================
