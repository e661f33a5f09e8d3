-------------------------- MODULE LevelZeroRuntime --------------------------
(***************************************************************************)
(* LevelZeroExecutionContext of src/backend/level_zero/runtime.rs: pools   *)
(* of device and host memory, queues, command lists and kernels, and the   *)
(* caches of modules and lookup tables.                                    *)
(*                                                                         *)
(* The context holds raw pointers and so is neither Send nor Sync: one     *)
(* call runs at a time.  Its tickets overlap nevertheless, each with a     *)
(* queue of its own, and are waited or dropped in any order while the      *)
(* device works; `call` is the ticket (or Maint, for the clear) whose      *)
(* method runs.  The actions are the steps of the methods between which    *)
(* one of them may return an error.                                        *)
(*                                                                         *)
(* A handle is a member of a finite set; a handle in `fresh` does not      *)
(* exist.  Byte sizes and the order of the pools are abstracted.           *)
(***************************************************************************)
EXTENDS Naturals, Sequences, FiniteSets

CONSTANTS
    Job,              \* tickets
    Maint,            \* the caller of clear_runtime_caches
    Device, Host,     \* memory
    Queue, List,      \* command queues and command lists
    Kernel, Module,
    Key,              \* bytes of a lookup table
    Source,           \* kernel sources
    Binary,           \* Binary[s]: what source s compiles to
    Plan,             \* Plan[j]: the memory plan of j's program, a sequence of
                      \*   keys, "host" (initialised from the host) and
                      \*   "device"; the last allocation is the output
    Shaders,          \* Shaders[j]: the source of each pass of j's program
    MaxModules,       \* LEVEL_ZERO_MODULE_CACHE_MAX_ENTRIES
    MaxKernels,       \* LEVEL_ZERO_KERNEL_POOL_MAX_INSTANCES
    MaxLists,         \* LEVEL_ZERO_COMMAND_LIST_POOL_MAX_INSTANCES
    DebugAssertions,  \* is debug_assert! compiled in
    MaxFaults,        \* bound on calls of the driver that fail
    None

Handle == Device \cup Host \cup Queue \cup List \cup Kernel \cup Module
Binaries == {Binary[s] : s \in Source}

ASSUME RuntimeAssumption ==
    /\ None \notin Job \cup Handle /\ Maint \notin Job \cup {None}
    /\ IsFiniteSet(Job) /\ IsFiniteSet(Handle) /\ Queue # {}
    /\ Device \cap (Host \cup Queue \cup List \cup Kernel \cup Module) = {}
    /\ Host \cap (Queue \cup List \cup Kernel \cup Module) = {}
    /\ Queue \cap (List \cup Kernel \cup Module) = {}
    /\ List \cap (Kernel \cup Module) = {} /\ Kernel \cap Module = {}
    /\ Binary \in [Source -> Binaries]
    /\ Plan \in [Job -> Seq(Key \cup {"host", "device"})]
    /\ Shaders \in [Job -> Seq(Source)]
    /\ \A j \in Job : Plan[j] # <<>> /\ Plan[j][Len(Plan[j])] \notin Key
    /\ MaxModules \in Nat /\ MaxKernels \in Nat /\ MaxLists \in Nat
    /\ MaxFaults \in Nat /\ DebugAssertions \in BOOLEAN

VARIABLES
    call,        \* whose method runs, or None
    phase,       \* where each ticket is
    count,       \* allocations made, then passes recorded
    fresh,       \* handles that do not exist
    pool,        \* how often each handle is in its pool
    held,        \* handles that a submission or its ticket owns
    leaked,      \* handles that nobody will destroy
    tables,      \* tables[j][k]: the buffer j's program reads table k from
    pending,     \* pending_luts: the tables that j uploads
    lutCache,    \* lut_cache
    content,     \* the table that a device buffer holds, or None
    module,      \* the module of the pass being recorded
    moduleCache, \* module_cache
    made,        \* the source, module and pool key of each kernel
    running,     \* submissions the device works on
    uses,        \* the handles a submission was recorded with
    active,      \* active_submissions
    clearing,    \* pools the clear has still to empty
    destroyFailed, \* has freeing or destroying a handle failed
    alive,       \* FALSE once the context is dropped
    faults       \* driver calls that have failed

handleVars == <<fresh, pool, held, leaked>>
lutVars    == <<tables, pending, lutCache, content>>
kernelVars == <<module, moduleCache, made>>
gpuVars    == <<running, uses>>
restVars   == <<active, clearing, destroyFailed, alive>>
vars == <<call, phase, count, handleVars, lutVars, kernelVars, gpuVars,
          restVars, faults>>

NoTables == [k \in Key |-> None]

\* new() pools the queue it creates; on an Intel device the subgroup probe
\* then takes that queue and destroys it.
Init ==
    /\ call = None
    /\ phase = [j \in Job |-> "idle"] /\ count = [j \in Job |-> 0]
    /\ \E qs \in {{}, {CHOOSE q \in Queue : TRUE}} :
          /\ fresh = Handle \ qs
          /\ pool = [h \in Handle |-> IF h \in qs THEN 1 ELSE 0]
    /\ held = [j \in Job |-> {}] /\ leaked = {}
    /\ tables = [j \in Job |-> NoTables] /\ pending = [j \in Job |-> {}]
    /\ lutCache = NoTables /\ content = [d \in Device |-> None]
    /\ module = None /\ moduleCache = [b \in Binaries |-> None]
    /\ made = [k \in Kernel |-> None]
    /\ running = {} /\ uses = [j \in Job |-> {}]
    /\ active = 0 /\ clearing = <<>> /\ destroyFailed = FALSE
    /\ alive = TRUE /\ faults = 0

-----------------------------------------------------------------------------
(* Moves of handles.                                                       *)

Pooled(S) == {h \in S : pool[h] > 0}

\* A pool pop, or a creation when the pool of S has nothing to offer; which
\* of several equal handles is immaterial.
Obtainable(S) ==
    IF Pooled(S) # {} THEN {CHOOSE h \in Pooled(S) : TRUE}
    ELSE IF S \cap fresh # {} THEN {CHOOSE h \in S \cap fresh : TRUE}
    ELSE {}

Take(j, hs) ==
    /\ held' = [held EXCEPT ![j] = @ \cup hs]
    /\ pool' = [h \in Handle |-> IF h \in hs /\ pool[h] > 0
                                 THEN pool[h] - 1 ELSE pool[h]]
    /\ fresh' = fresh \ hs
    /\ UNCHANGED leaked

\* Variant: the handle is pooled and its guard still owns it.
RecycleWithoutRelinquish(j, hs) ==
    /\ pool' = [h \in Handle |-> IF h \in hs THEN pool[h] + 1 ELSE pool[h]]
    /\ UNCHANGED <<fresh, held, leaked>>

Recycle(j, hs) ==
    /\ held' = [held EXCEPT ![j] = @ \ hs]
    /\ pool' = [h \in Handle |-> IF h \in hs THEN pool[h] + 1 ELSE pool[h]]
    /\ UNCHANGED <<fresh, leaked>>

\* Destroyed handles leave no contents behind.
Destroy(hs) ==
    /\ fresh' = fresh \cup hs
    /\ content' = [d \in Device |-> IF d \in hs THEN None ELSE content[d]]
    /\ made' = [k \in Kernel |-> IF k \in hs THEN None ELSE made[k]]

\* Relinquished and put nowhere.
Forget(j, hs) ==
    /\ held' = [held EXCEPT ![j] = @ \ hs]
    /\ leaked' = leaked \cup hs
    /\ UNCHANGED <<fresh, pool>>

InjectFault == faults < MaxFaults /\ faults' = faults + 1
Goto(j, p) == phase' = [phase EXCEPT ![j] = p]
At(j, p) == call = j /\ phase[j] = p

\* The destructors of everything a submission or ticket still owns.
Release(j) ==
    /\ Destroy(held[j])
    /\ held' = [held EXCEPT ![j] = {}]
    /\ tables' = [tables EXCEPT ![j] = NoTables]
    /\ pending' = [pending EXCEPT ![j] = {}]
    /\ Goto(j, "idle") /\ count' = [count EXCEPT ![j] = 0]
    /\ call' = None
    /\ module' = None
    /\ UNCHANGED <<pool, leaked, lutCache, moduleCache>>

-----------------------------------------------------------------------------
(* submit_prepared.                                                        *)

SubmitPhases == {"queue", "list", "alloc", "module", "kernel",
                 "execute"}

Submit(j) ==
    /\ alive /\ call = None /\ phase[j] = "idle" /\ j \notin running
    /\ call' = j /\ Goto(j, "queue")
    /\ UNCHANGED <<count, handleVars, lutVars, kernelVars, gpuVars, restVars,
                   faults>>

take_queue(j) ==
    /\ At(j, "queue")
    /\ \E q \in Obtainable(Queue) : Take(j, {q})
    /\ Goto(j, "list")
    /\ UNCHANGED <<call, count, lutVars, kernelVars, gpuVars, restVars, faults>>

create_command_list(j) ==
    /\ At(j, "list")
    /\ \E l \in Obtainable(List) : Take(j, {l})
    /\ Goto(j, "alloc")
    /\ UNCHANGED <<call, count, lutVars, kernelVars, gpuVars, restVars, faults>>

\* The next allocation: the cached table, or device memory and, when it is
\* initialised, the host memory it is copied from.
allocate(j) ==
    /\ At(j, "alloc") /\ count[j] < Len(Plan[j])
    /\ count' = [count EXCEPT ![j] = @ + 1]
    /\ LET e == Plan[j][count[j] + 1] IN
       \/ /\ e \in Key /\ lutCache[e] # None
          /\ tables' = [tables EXCEPT ![j][e] = lutCache[e]]
          /\ UNCHANGED <<handleVars, pending, lutCache, content>>
       \/ /\ e \in Key => lutCache[e] = None
          /\ \E d \in Obtainable(Device) :
                /\ IF e = "device" THEN Take(j, {d})
                   ELSE \E h \in Obtainable(Host) : Take(j, {d, h})
                /\ content' = [content EXCEPT ![d] = None]
                /\ IF e \in Key
                   THEN /\ tables' = [tables EXCEPT ![j][e] = d]
                        /\ pending' = [pending EXCEPT ![j] = @ \cup {e}]
                   ELSE UNCHANGED <<tables, pending>>
          /\ UNCHANGED lutCache
    /\ UNCHANGED <<call, phase, kernelVars, gpuVars, restVars, faults>>

Allocated(j) ==
    /\ At(j, "alloc") /\ count[j] = Len(Plan[j])
    /\ count' = [count EXCEPT ![j] = 0]
    /\ Goto(j, "module")
    /\ UNCHANGED <<call, handleVars, lutVars, kernelVars, gpuVars, restVars,
                   faults>>

NextSource(j) == Shaders[j][count[j] + 1]

CachedModules == {moduleCache[b] : b \in Binaries} \ {None}

\* Variant: the capacity of the module cache is exceeded by one.
HasCapacityOffByOne == Cardinality(CachedModules) <= MaxModules

HasCapacity == Cardinality(CachedModules) < MaxModules

\* The module of the next pass: cached, created and cached, or, when the cache
\* is full, owned by the kernel.
create_module(j) ==
    /\ At(j, "module") /\ count[j] < Len(Shaders[j])
    /\ Goto(j, "kernel")
    /\ LET b == Binary[NextSource(j)] IN
       \/ /\ moduleCache[b] # None
          /\ module' = moduleCache[b]
          /\ UNCHANGED <<moduleCache, handleVars>>
       \/ /\ moduleCache[b] = None
          /\ \E m \in Obtainable(Module) :
                /\ module' = m
                /\ \/ /\ HasCapacity
                      /\ moduleCache' = [moduleCache EXCEPT ![b] = m]
                      /\ fresh' = fresh \ {m}
                      /\ UNCHANGED <<pool, held, leaked>>
                   \/ /\ ~HasCapacity
                      /\ Take(j, {m})
                      /\ UNCHANGED moduleCache
    /\ UNCHANGED <<call, count, lutVars, made, gpuVars, restVars, faults>>

\* Variant: a kernel of a module that it owns has a pool key, too.
AlwaysPoolKey(m) == TRUE

\* A kernel whose module is not cached has no pool key.
HasPoolKey(m) == m \in CachedModules

\* A pooled kernel of this source, or a new one.
ObtainableKernels(m, s) ==
    LET pooled == {k \in Pooled(Kernel) : made[k].source = s} IN
    IF HasPoolKey(m) /\ pooled # {} THEN {CHOOSE k \in pooled : TRUE}
    ELSE IF Kernel \cap fresh # {} THEN {CHOOSE k \in Kernel \cap fresh : TRUE}
    ELSE {}

\* A kernel of the pass, from the pool or created, recorded with its arguments.
create_kernel(j) ==
    /\ At(j, "kernel")
    /\ \E k \in ObtainableKernels(module, NextSource(j)) :
          /\ Take(j, {k})
          /\ made' = IF k \in fresh
                     THEN [made EXCEPT ![k] = [source |-> NextSource(j),
                              module |-> module, key |-> HasPoolKey(module)]]
                     ELSE made
    /\ module' = None
    /\ count' = [count EXCEPT ![j] = @ + 1]
    /\ Goto(j, "module")
    /\ UNCHANGED <<call, lutVars, moduleCache, gpuVars, restVars, faults>>

\* The output is copied to host memory, of its own if it was not initialised.
allocate_host(j) ==
    /\ At(j, "module") /\ count[j] = Len(Shaders[j])
    /\ IF Plan[j][Len(Plan[j])] = "host" THEN UNCHANGED handleVars
       ELSE \E h \in Obtainable(Host) : Take(j, {h})
    /\ Goto(j, "execute")
    /\ UNCHANGED <<call, count, lutVars, kernelVars, gpuVars, restVars, faults>>

execute_command_lists(j) ==
    /\ At(j, "execute")
    /\ running' = running \cup {j}
    /\ uses' = [uses EXCEPT ![j] = held[j]]
    /\ active' = active + 1
    /\ Goto(j, "pending") /\ call' = None
    /\ UNCHANGED <<count, handleVars, lutVars, kernelVars, clearing,
                   destroyFailed, alive, faults>>

\* A driver call of any of the steps fails.
SubmitFails(j) ==
    /\ call = j /\ phase[j] \in SubmitPhases /\ InjectFault
    /\ Release(j)
    /\ UNCHANGED <<gpuVars, restVars>>

-----------------------------------------------------------------------------
(* The device.                                                             *)

\* A submission ends; the tables it uploads are in device memory.
DeviceEnds(j) ==
    /\ j \in running
    /\ running' = running \ {j}
    /\ uses' = [uses EXCEPT ![j] = {}]
    /\ content' = [d \in Device |->
                      IF \E k \in pending[j] : tables[j][k] = d
                      THEN CHOOSE k \in pending[j] : tables[j][k] = d
                      ELSE content[d]]
    /\ UNCHANGED <<call, phase, count, handleVars, tables, pending, lutCache,
                   kernelVars, restVars, faults>>

-----------------------------------------------------------------------------
(* LevelZeroPendingProgram: wait, finish and drop.                         *)

Wait(j) ==
    /\ call = None /\ phase[j] = "pending"
    /\ call' = j /\ Goto(j, "sync")
    /\ UNCHANGED <<count, handleVars, lutVars, kernelVars, gpuVars, restVars,
                   faults>>

DropTicket(j) ==
    /\ call = None /\ phase[j] = "pending"
    /\ call' = j /\ Goto(j, "drop")
    /\ UNCHANGED <<count, handleVars, lutVars, kernelVars, gpuVars, restVars,
                   faults>>

\* Variant: the queue is not synchronised.
NotWaited(j) == TRUE

DeviceDone(j) == j \notin running

synchronize(j) ==
    /\ At(j, "sync") /\ DeviceDone(j)
    /\ Goto(j, "tables")
    /\ UNCHANGED <<call, count, handleVars, lutVars, kernelVars, gpuVars,
                   restVars, faults>>

\* finish returns the error and the drop waits again.
SynchronizeFails(j) ==
    /\ At(j, "sync") /\ InjectFault
    /\ Goto(j, "drop")
    /\ UNCHANGED <<call, count, handleVars, lutVars, kernelVars, gpuVars,
                   restVars>>

\* A table enters the cache, or is freed when another ticket was first.
insert_lut(j, k) ==
    /\ At(j, "tables") /\ k \in pending[j]
    /\ pending' = [pending EXCEPT ![j] = @ \ {k}]
    /\ held' = [held EXCEPT ![j] = @ \ {tables[j][k]}]
    /\ IF lutCache[k] = None
       THEN /\ lutCache' = [lutCache EXCEPT ![k] = tables[j][k]]
            /\ UNCHANGED <<fresh, content, made>>
       ELSE /\ Destroy({tables[j][k]})
            /\ UNCHANGED lutCache
    /\ UNCHANGED <<call, phase, count, pool, leaked, tables, module,
                   moduleCache, gpuVars, restVars, faults>>

\* Freeing the duplicate fails.
FreeDuplicateFails(j, k) ==
    /\ At(j, "tables") /\ k \in pending[j] /\ lutCache[k] # None
    /\ InjectFault
    /\ pending' = [pending EXCEPT ![j] = {}]
    /\ Forget(j, {tables[j][k]})
    /\ destroyFailed' = TRUE
    /\ Goto(j, "drop")
    /\ UNCHANGED <<call, count, tables, lutCache, content, kernelVars,
                   gpuVars, active, clearing, alive>>

recycle_buffers(j) ==
    /\ At(j, "tables") /\ pending[j] = {}
    /\ Recycle(j, held[j] \cap (Device \cup Host))
    /\ Goto(j, "reset")
    /\ UNCHANGED <<call, count, lutVars, kernelVars, gpuVars, restVars, faults>>

\* The list stays with the ticket if it cannot be reset or the pool is full.
recycle_command_list(j) ==
    /\ At(j, "reset")
    /\ \/ /\ Cardinality(Pooled(List)) < MaxLists
          /\ Recycle(j, held[j] \cap List)
          /\ UNCHANGED faults
       \/ /\ Cardinality(Pooled(List)) >= MaxLists
          /\ UNCHANGED <<handleVars, faults>>
       \/ InjectFault /\ UNCHANGED handleVars
    /\ Goto(j, "recycle")
    /\ UNCHANGED <<call, count, lutVars, kernelVars, gpuVars, restVars>>

Least(m, n) == IF m < n THEN m ELSE n

\* Variant: a kernel is relinquished before the capacity is checked.
RecycleRelinquishFirst(j) ==
    /\ At(j, "recycle")
    /\ Forget(j, {k \in held[j] \cap Kernel : made[k].key})
    /\ Goto(j, "return")
    /\ UNCHANGED <<call, count, lutVars, kernelVars, gpuVars, restVars, faults>>

\* Kernels with a pool key return to the pool while there is room.  The call
\* that pools them is the argument of a debug_assert!.
recycle_kernels(j) ==
    /\ At(j, "recycle")
    /\ LET keyed == {k \in held[j] \cap Kernel : made[k].key}
           room  == MaxKernels - Cardinality(Pooled(Kernel))
       IN IF DebugAssertions
          THEN \E S \in SUBSET keyed :
                  /\ Cardinality(S) = Least(room, Cardinality(keyed))
                  /\ Recycle(j, S)
          ELSE IF room > 0 THEN Forget(j, keyed) ELSE UNCHANGED handleVars
    /\ Goto(j, "return")
    /\ UNCHANGED <<call, count, lutVars, kernelVars, gpuVars, restVars, faults>>

recycle_queue(j) ==
    /\ At(j, "return")
    /\ Recycle(j, held[j] \cap Queue)
    /\ Goto(j, "free")
    /\ UNCHANGED <<call, count, lutVars, kernelVars, gpuVars, restVars, faults>>

\* Dropping a ticket that has not completed waits, and so does the destructor
\* of its queue; neither looks at the result.
DropWaits(j) ==
    /\ call = j /\ phase[j] \in {"drop", "dropQueue"}
    /\ \/ DeviceDone(j) /\ UNCHANGED faults
       \/ InjectFault
    /\ Goto(j, IF phase[j] = "drop" THEN "dropQueue" ELSE "free")
    /\ UNCHANGED <<call, count, handleVars, lutVars, kernelVars, gpuVars,
                   restVars>>

\* The ticket is gone.
DropEnds(j) ==
    /\ At(j, "free")
    /\ Release(j)
    /\ active' = active - 1
    /\ UNCHANGED <<gpuVars, clearing, destroyFailed, alive, faults>>

-----------------------------------------------------------------------------
(* clear_runtime_caches and the destructor of the context.                 *)

\* Variant: tickets in flight do not keep the caches from being cleared.
NoneActiveUnchecked == TRUE

NoneActive == active = 0

ClearOrder == <<"device", "host", "lut", "queue", "list", "kernel", "module">>

ClearRuntimeCaches ==
    /\ alive /\ call = None /\ NoneActive
    /\ call' = Maint /\ clearing' = ClearOrder
    /\ UNCHANGED <<phase, count, handleVars, lutVars, kernelVars, gpuVars,
                   active, destroyFailed, alive, faults>>

CachedTables == {lutCache[k] : k \in Key} \ {None}

InPool(p) ==
    CASE p = "device" -> Pooled(Device) [] p = "host" -> Pooled(Host)
      [] p = "queue" -> Pooled(Queue)   [] p = "list" -> Pooled(List)
      [] p = "kernel" -> Pooled(Kernel) [] p = "lut" -> CachedTables
      [] p = "module" -> CachedModules

\* The handles of one pool are destroyed but for those in S.
Empty(p, S) ==
    /\ Destroy(InPool(p) \ S)
    /\ leaked' = leaked \cup S
    /\ pool' = [h \in Handle |-> IF h \in InPool(p) THEN 0 ELSE pool[h]]
    /\ lutCache' = IF p = "lut" THEN NoTables ELSE lutCache
    /\ moduleCache' = IF p = "module" THEN [b \in Binaries |-> None]
                      ELSE moduleCache
    /\ UNCHANGED <<phase, count, held, tables, pending, module, gpuVars,
                   active, alive>>

ClearPool ==
    /\ call = Maint
    /\ Empty(Head(clearing), {})
    /\ clearing' = Tail(clearing)
    /\ call' = IF Len(clearing) = 1 THEN None ELSE Maint
    /\ UNCHANGED <<destroyFailed, faults>>

\* A failing destroy returns at once and the rest of the drained pool is
\* dropped undestroyed; only the loop over the modules goes on.
ClearPoolFails ==
    /\ call = Maint /\ InjectFault
    /\ \E S \in SUBSET InPool(Head(clearing)) \ {{}} :
          /\ Head(clearing) = "module" => Cardinality(S) = 1
          /\ Empty(Head(clearing), S)
    /\ clearing' = <<>> /\ call' = None /\ destroyFailed' = TRUE

\* Variant: the destructor forgets the modules.
ContextOwnsPools == Pooled(Handle) \cup CachedTables

ContextOwns == Pooled(Handle) \cup CachedTables \cup CachedModules

\* Tickets borrow the context: none is left.  Errors are ignored.
DropContext ==
    /\ alive /\ call = None /\ \A j \in Job : phase[j] = "idle"
    /\ alive' = FALSE
    /\ Destroy(ContextOwns)
    /\ pool' = [h \in Handle |-> 0]
    /\ lutCache' = NoTables /\ moduleCache' = [b \in Binaries |-> None]
    /\ UNCHANGED <<call, phase, count, held, leaked, tables, pending, module,
                   gpuVars, active, clearing, destroyFailed, faults>>

Call(j) ==
    \/ take_queue(j) \/ create_command_list(j) \/ allocate(j) \/ Allocated(j)
    \/ create_module(j) \/ create_kernel(j) \/ allocate_host(j)
    \/ execute_command_lists(j) \/ synchronize(j)
    \/ \E k \in Key : insert_lut(j, k)
    \/ recycle_buffers(j) \/ recycle_command_list(j) \/ recycle_kernels(j)
    \/ recycle_queue(j) \/ DropWaits(j) \/ DropEnds(j)

Failure(j) ==
    \/ SubmitFails(j) \/ SynchronizeFails(j)
    \/ \E k \in Key : FreeDuplicateFails(j, k)

Next ==
    \/ \E j \in Job : \/ Submit(j) \/ Wait(j) \/ DropTicket(j)
                      \/ Call(j) \/ Failure(j) \/ DeviceEnds(j)
    \/ ClearRuntimeCaches \/ ClearPool \/ ClearPoolFails \/ DropContext

Spec == Init /\ [][Next]_vars

-----------------------------------------------------------------------------
Phases == SubmitPhases \cup {"idle", "pending", "sync", "tables", "reset",
                             "recycle", "return", "drop", "dropQueue", "free"}

\* The type invariant; the bounded pools keep within their capacity.
TypeOK ==
    /\ call \in Job \cup {Maint, None}
    /\ phase \in [Job -> Phases] /\ count \in [Job -> Nat]
    /\ fresh \subseteq Handle /\ leaked \subseteq Handle
    /\ pool \in [Handle -> Nat] /\ held \in [Job -> SUBSET Handle]
    /\ tables \in [Job -> [Key -> Device \cup {None}]]
    /\ pending \in [Job -> SUBSET Key]
    /\ lutCache \in [Key -> Device \cup {None}]
    /\ content \in [Device -> Key \cup {None}]
    /\ module \in Module \cup {None}
    /\ moduleCache \in [Binaries -> Module \cup {None}]
    /\ Cardinality(CachedModules) <= MaxModules
    /\ made \in [Kernel -> {None} \cup [source : Source, module : Module,
                                        key : BOOLEAN]]
    /\ Cardinality(Pooled(Kernel)) <= MaxKernels
    /\ Cardinality(Pooled(List)) <= MaxLists
    /\ running \subseteq Job /\ uses \in [Job -> SUBSET Handle]
    /\ active \in Nat /\ faults \in 0 .. MaxFaults
    /\ clearing \in Seq({ClearOrder[i] : i \in 1 .. 7})
    /\ destroyFailed \in BOOLEAN /\ alive \in BOOLEAN

\* The places a handle can be in, and how often it is there.
Owners(h) ==
    (IF h \in fresh THEN 1 ELSE 0) + (IF h \in leaked THEN 1 ELSE 0)
    + pool[h] + Cardinality({j \in Job : h \in held[j]})
    + Cardinality({k \in Key : lutCache[k] = h})
    + Cardinality({b \in Binaries : moduleCache[b] = h})

\* Every handle has exactly one owner: it is destroyed once, and nobody else
\* uses it while a ticket does.
ExclusiveOwnership == \A h \in Handle : Owners(h) = 1

\* Only an error while memory or an object is destroyed loses a handle.
NothingLeaked == leaked # {} => destroyFailed

\* A kernel that was relinquished is in the pool.
KernelsPooled == leaked \cap Kernel = {} \/ destroyFailed

\* A program that runs on the device reads tables that were uploaded before
\* its own kernels run, from memory that still exists.
TablesReady ==
    \A j \in running : \A k \in Key :
       tables[j][k] # None =>
          /\ tables[j][k] \notin fresh /\ pool[tables[j][k]] = 0
          /\ k \in pending[j] \/ content[tables[j][k]] = k

\* A kernel that exists, in the pool or with a ticket, has its module.
ModulesOutliveKernels ==
    \A k \in Kernel \ (fresh \cup leaked) : made[k].module \notin fresh

\* The device works on nothing once the context is gone, and everything that
\* existed was destroyed.
NothingOutlivesContext ==
    ~alive => running = {} /\ fresh \cup leaked = Handle

\* The abstract owner of a handle: a ticket, the context for good, or nobody.
OwnerOf(h) ==
    IF \E j \in Job : h \in held[j] THEN CHOOSE j \in Job : h \in held[j]
    ELSE IF h \in CachedTables \cup CachedModules \cup leaked THEN Maint
    ELSE None

Tickets == INSTANCE ExclusiveTickets WITH
    Resource <- Handle, Ticket <- Job, Free <- None, Shared <- Maint,
    owner <- [h \in Handle |-> OwnerOf(h)],
    busy <- UNION {uses[j] : j \in running}

\* The tickets of this runtime, too, own what the device works on.
ImplementsExclusiveTickets == Tickets!Spec
=============================================================================
