--------------------------- MODULE NativeTickets ---------------------------
(***************************************************************************)
(* What the execution contexts of HIP, CUDA, OpenCL and Metal have in      *)
(* common: their state, how handles move, the device, and the tickets.     *)
(*                                                                         *)
(* A context is used by one thread, so one call runs at a time; its        *)
(* tickets overlap, and the device works in between.  `call` is the ticket *)
(* (or Maint) whose method runs.  The actions are the steps of the methods *)
(* between which one of them may return an error.                          *)
(*                                                                         *)
(* A handle is a member of a finite set and exists while its reference     *)
(* count is positive.  The explicit APIs hold one reference for each       *)
(* handle; the objects of Metal are retained and released.  Buffers are    *)
(* all of one size, so that every pooled buffer fits every request; what   *)
(* is left in a pooled buffer is of no use to the next owner.              *)
(***************************************************************************)
EXTENDS BoundedCaches

CONSTANTS
    Job,         \* tickets
    Maint,       \* the caller of clear_runtime_caches
    Device,      \* device buffers
    Queue,       \* streams or command queues
    Module,      \* modules, OpenCL programs, Metal pipelines
    Kernel,      \* OpenCL kernels
    Key,         \* bytes of a lookup table
    Source,      \* shader sources
    Program,
    Entries,     \* Entries[p]: the allocations of p, a sequence of keys,
                 \*   "input" and "device"; the last one is the output
    Shaders,     \* Shaders[p]: the source of each pass of p
    Chains,      \* Chains[j]: what ticket j may execute, sequences of programs
    Archive,     \* what archives hold: pairs of a source and its code
    MaxFaults,   \* bound on calls of the driver that fail
    None

Handle == Device \cup Queue \cup Module \cup Kernel

ASSUME NativeAssumption ==
    /\ IsFiniteSet(Job) /\ IsFiniteSet(Handle)
    /\ None \notin Job \cup Handle \cup Key \cup Source
    /\ Maint \notin Job \cup {None}
    /\ Device \cap (Queue \cup Module \cup Kernel) = {}
    /\ Queue \cap (Module \cup Kernel) = {} /\ Module \cap Kernel = {}
    /\ Key \cap {"input", "device"} = {}
    \* A program has an input and an output, with allocations of their own.
    /\ Entries \in [Program -> Seq(Key \cup {"input", "device"})]
    /\ Shaders \in [Program -> Seq(Source)]
    /\ \A p \in Program : /\ Entries[p] # << >> /\ Shaders[p] # << >>
                          /\ \E i \in DOMAIN Entries[p] : Entries[p][i] = "input"
                          /\ Entries[p][Len(Entries[p])] = "device"
    /\ \A j \in Job : \A c \in Chains[j] : c \in Seq(Program) \ {<< >>}
    /\ Archive \subseteq Source \X {"compiled", "restored"}
    /\ MaxFaults \in Nat

VARIABLES
    call,        \* whose method runs, or None
    phase,       \* where each ticket is
    chain,       \* the programs of each ticket; several in a resident chain
    stage,       \* the program of the chain it is at
    count,       \* allocations made, passes loaded, passes launched
    refs,        \* references to each handle; 0: it does not exist
    pool,        \* how often each handle is in its pool
    held,        \* handles whose guard a ticket owns
    leaked,      \* handles that nobody will destroy
    memory,      \* memory[j][i]: the buffer of allocation i
    pending,     \* pending_luts: indices of the tables to cache
    resident,    \* the output that the next program of the chain gets
    content,     \* what is in a buffer: a table, <<j, n>> for the data of j
                 \*   after n programs, or None for anything else
    lutCache, moduleCache, codeCache,
    loaded,      \* the module, kernel or pipeline of each pass
    made,        \* the source a module or kernel was made from
    running,     \* tickets the device has work of
    uses,        \* the handles that this work uses
    active,      \* active_submissions
    clearing,    \* pools the clear has still to empty
    results,     \* what a wait has read, or None
    alive,       \* FALSE once the context is dropped
    faults       \* driver calls that have failed

flowVars   == <<call, phase, chain, stage, count>>
handleVars == <<refs, pool, held, leaked>>
dataVars   == <<memory, pending, resident, content, lutCache>>
codeVars   == <<loaded, made, moduleCache, codeCache>>
gpuVars    == <<running, uses>>
restVars   == <<clearing, results, alive>>
nativeVars == <<flowVars, handleVars, dataVars, codeVars, gpuVars, active,
                restVars, faults>>

Init ==
    /\ call = None
    /\ phase = [j \in Job |-> "idle"] /\ chain = [j \in Job |-> << >>]
    /\ stage = [j \in Job |-> 0] /\ count = [j \in Job |-> 0]
    /\ refs = [h \in Handle |-> 0] /\ pool = [h \in Handle |-> 0]
    /\ held = [j \in Job |-> {}] /\ leaked = {}
    /\ memory = [j \in Job |-> << >>] /\ pending = [j \in Job |-> {}]
    /\ resident = [j \in Job |-> None] /\ content = [d \in Device |-> None]
    /\ lutCache = EmptyCache /\ moduleCache = EmptyCache
    /\ codeCache = EmptyCache
    /\ loaded = [j \in Job |-> << >>]
    /\ made = [h \in Module \cup Kernel |-> None]
    /\ running = {} /\ uses = [j \in Job |-> {}]
    /\ active = 0 /\ clearing = << >> /\ results = [j \in Job |-> None]
    /\ alive = TRUE /\ faults = 0

-----------------------------------------------------------------------------
(* Moves of handles.                                                       *)

Pooled(S) == {h \in S : pool[h] > 0}

\* A new handle is none that a ticket still remembers.
Fresh(S) == {h \in S : refs[h] = 0 /\ h \notin leaked
                         /\ \A j \in Job : h \notin ToSet(memory[j]) \cup ToSet(loaded[j])}

\* Which of several equal handles is immaterial.
OneOf(S) == IF S = {} THEN {} ELSE {CHOOSE h \in S : TRUE}

\* A pool pop, or a creation when the pool is empty.
Obtainable(S) == IF Pooled(S) # {} THEN OneOf(Pooled(S)) ELSE OneOf(Fresh(S))

\* One more reference to each handle of `new`, one less to each of `old`.
Referenced(r, new, old) ==
    [h \in Handle |-> Minus(r[h] + (IF h \in new THEN 1 ELSE 0),
                            IF h \in old THEN 1 ELSE 0)]

\* What has no reference left loses its contents, and so does what is lost.
Scrubbed(c, r, lost) ==
    [h \in DOMAIN c |-> IF r[h] = 0 \/ h \in lost THEN None ELSE c[h]]

Scrub(r, lost) == /\ content' = Scrubbed(content, r, lost)
                  /\ made' = Scrubbed(made, r, lost)

Unpool(hs) == pool' = [h \in Handle |-> Minus(pool[h], IF h \in hs THEN 1 ELSE 0)]

Take(j, h) ==
    /\ held' = [held EXCEPT ![j] = @ \cup {h}]
    /\ refs' = [refs EXCEPT ![h] = IF pool[h] > 0 THEN @ ELSE 1]
    /\ Unpool({h})
    /\ UNCHANGED leaked

Destroy(hs) ==
    /\ refs' = [h \in Handle |-> IF h \in hs THEN 0 ELSE refs[h]]
    /\ Scrub(refs', {})

InjectFault == faults < MaxFaults /\ faults' = faults + 1
Goto(j, p) == phase' = [phase EXCEPT ![j] = p]
At(j, p) == call = j /\ phase[j] = p

\* Part of a step that only moves on in the call.
Continue(j, p) == Goto(j, p) /\ UNCHANGED <<call, chain, stage>>

TheProgram(j) == chain[j][stage[j]]
Passes(j) == Shaders[TheProgram(j)]
Plan(j) == Entries[TheProgram(j)]
Index(j) == count[j] + 1
TheEntry(j) == Plan(j)[Index(j)]
Output(j) == memory[j][Len(Plan(j))]
Tables(j) == {i \in DOMAIN memory[j] : Plan(j)[i] \in Key}
Transients(j) == {memory[j][i] : i \in DOMAIN memory[j] \ Tables(j)}

-----------------------------------------------------------------------------
(* Submission.                                                             *)

Submit(j, programs, first) ==
    /\ alive /\ call = None /\ phase[j] = "idle"
    /\ call' = j /\ Goto(j, first)
    /\ chain' = [chain EXCEPT ![j] = programs]
    /\ stage' = [stage EXCEPT ![j] = 1]
    /\ results' = [results EXCEPT ![j] = None]
    /\ UNCHANGED <<count, handleVars, dataVars, codeVars, gpuVars, active,
                   clearing, alive>>

take_queue(j) ==
    /\ At(j, "queue")
    /\ \E q \in Obtainable(Queue) : Take(j, q)
    /\ Continue(j, "alloc")
    /\ UNCHANGED <<count, dataVars, codeVars, gpuVars, restVars>>

Allocating(j) == At(j, "alloc") /\ count[j] < Len(Plan(j))

Place(j, d) ==
    /\ memory' = [memory EXCEPT ![j] = Append(@, d)]
    /\ count' = [count EXCEPT ![j] = @ + 1]

\* The table is cached: the buffer belongs to the context.
cached_table(j) ==
    /\ Allocating(j) /\ TheEntry(j) \in Keys(lutCache)
    /\ Place(j, lutCache.entries[TheEntry(j)])
    /\ UNCHANGED <<call, phase, chain, stage, handleVars, pending, resident,
                   content, lutCache, codeVars, gpuVars, active, restVars>>

\* A buffer of S gets the table and is to be cached by the wait.
upload_table(j, S) ==
    /\ Allocating(j) /\ TheEntry(j) \in Key \ Keys(lutCache)
    /\ \E d \in S : /\ Take(j, d) /\ Place(j, d)
                    /\ content' = [content EXCEPT ![d] = TheEntry(j)]
    /\ pending' = [pending EXCEPT ![j] = @ \cup {Index(j)}]
    /\ UNCHANGED <<call, phase, chain, stage, resident, lutCache, codeVars,
                   gpuVars, active, restVars>>

take_transient(j) ==
    /\ Allocating(j) /\ TheEntry(j) \notin Key
    /\ TheEntry(j) = "input" => resident[j] = None
    /\ \E d \in Obtainable(Device) :
          /\ Take(j, d) /\ Place(j, d)
          /\ content' = IF TheEntry(j) = "input"
                        THEN [content EXCEPT ![d] = <<j, stage[j] - 1>>]
                        ELSE content
    /\ UNCHANGED <<call, phase, chain, stage, pending, resident, lutCache,
                   codeVars, gpuVars, active, restVars>>

\* The output of the previous program becomes the input of this one.
take_resident(j) ==
    /\ Allocating(j) /\ TheEntry(j) = "input" /\ resident[j] # None
    /\ Place(j, resident[j])
    /\ resident' = [resident EXCEPT ![j] = None]
    /\ UNCHANGED <<call, phase, chain, stage, handleVars, pending, content,
                   lutCache, codeVars, gpuVars, active, restVars>>

allocated(j) ==
    /\ At(j, "alloc") /\ count[j] = Len(Plan(j))
    /\ Continue(j, "module") /\ count' = [count EXCEPT ![j] = 0]
    /\ UNCHANGED <<handleVars, dataVars, codeVars, gpuVars, active, restVars>>

Loading(j) == At(j, "module") /\ count[j] < Len(Passes(j))
NextSource(j) == Passes(j)[Index(j)]

\* What was loaded for the next pass.
Loaded(j, h) ==
    /\ loaded' = [loaded EXCEPT ![j] = Append(@, h)]
    /\ count' = [count EXCEPT ![j] = @ + 1]
    /\ Continue(j, "module")

all_loaded(j) ==
    /\ At(j, "module") /\ count[j] = Len(Passes(j))
    /\ Continue(j, "launch") /\ count' = [count EXCEPT ![j] = 0]
    /\ UNCHANGED <<handleVars, dataVars, codeVars, gpuVars, active, restVars>>

Used(j) == held[j] \cup ToSet(memory[j]) \cup ToSet(loaded[j])

\* Each launch is at work at once.
launch(j) ==
    /\ At(j, "launch") /\ count[j] < Len(Passes(j))
    /\ running' = running \cup {j}
    /\ uses' = [uses EXCEPT ![j] = Used(j)]
    /\ count' = [count EXCEPT ![j] = @ + 1]
    /\ UNCHANGED <<call, phase, chain, stage, handleVars, dataVars, codeVars,
                   active, restVars>>

\* The ticket is returned; the call of a chain goes on to wait.
Submitted(j) ==
    /\ Goto(j, IF Len(chain[j]) = 1 THEN "pending" ELSE "sync")
    /\ call' = IF Len(chain[j]) = 1 THEN None ELSE j
    /\ UNCHANGED <<chain, stage, count, handleVars, dataVars, codeVars,
                   gpuVars, restVars>>

all_launched(j) ==
    /\ At(j, "launch") /\ count[j] = Len(Passes(j))
    /\ Submitted(j)

SubmitPhases == {"queue", "alloc", "module", "compiled", "launch"}

\* A driver call of any of the steps fails, and the locals are dropped.
SubmitFails(j) ==
    /\ call = j /\ phase[j] \in SubmitPhases /\ InjectFault
    /\ phase[j] = "launch" => count[j] < Len(Passes(j))
    /\ Continue(j, "unwind")
    /\ UNCHANGED <<count, handleVars, dataVars, codeVars, gpuVars, active,
                   restVars>>

-----------------------------------------------------------------------------
(* The device.                                                             *)

\* A program whose tables, kernels and input are right computes its output.
Computes(j) ==
    /\ count[j] = Len(Passes(j))
    /\ \A i \in Tables(j) : content[memory[j][i]] = Plan(j)[i]
    /\ \A i \in DOMAIN Plan(j) :
          Plan(j)[i] = "input" => content[memory[j][i]] = <<j, stage[j] - 1>>
    /\ \A i \in DOMAIN Passes(j) : made[loaded[j][i]] = Passes(j)[i]

DeviceEnds(j) ==
    /\ j \in running
    /\ running' = running \ {j}
    /\ uses' = [uses EXCEPT ![j] = {}]
    /\ content' = [content EXCEPT ![Output(j)] =
                      IF Computes(j) THEN <<j, stage[j]>> ELSE None]
    /\ UNCHANGED <<flowVars, handleVars, memory, pending, resident, lutCache,
                   codeVars, active, restVars>>

DeviceDone(j) == j \notin running
DeviceIdle == running = {}

-----------------------------------------------------------------------------
(* The tickets: wait, finish and drop.                                     *)

Wait(j) ==
    /\ call = None /\ phase[j] = "pending"
    /\ call' = j /\ Goto(j, "sync")
    /\ UNCHANGED <<chain, stage, count, handleVars, dataVars, codeVars, gpuVars,
                   active, restVars>>

DropTicket(j) ==
    /\ call = None /\ phase[j] = "pending"
    /\ call' = j /\ Goto(j, "drop")
    /\ UNCHANGED <<chain, stage, count, handleVars, dataVars, codeVars, gpuVars,
                   active, restVars>>

LastStage(j) == stage[j] = Len(chain[j])

synchronize(j) ==
    /\ At(j, "sync") /\ DeviceDone(j)
    /\ Continue(j, IF LastStage(j) THEN "read" ELSE "tables")
    /\ UNCHANGED <<count, handleVars, dataVars, codeVars, gpuVars, active,
                   restVars>>

read_output(j) ==
    /\ At(j, "read")
    /\ results' = [results EXCEPT ![j] = content[Output(j)]]
    /\ Continue(j, "tables")
    /\ UNCHANGED <<count, handleVars, dataVars, codeVars, gpuVars, active,
                   clearing, alive>>

\* The wait or the copy fails; the ticket is dropped.
FinishFails(j) ==
    /\ call = j /\ phase[j] \in {"sync", "read"} /\ InjectFault
    /\ Continue(j, "drop")
    /\ UNCHANGED <<count, handleVars, dataVars, codeVars, gpuVars, active,
                   restVars>>

\* A table enters the cache, or is freed when another ticket was first.
insert_lut(j, i) ==
    /\ At(j, "tables") /\ i \in pending[j]
    /\ pending' = [pending EXCEPT ![j] = @ \ {i}]
    /\ held' = [held EXCEPT ![j] = @ \ {memory[j][i]}]
    /\ IF Plan(j)[i] \in Keys(lutCache)
       THEN Destroy({memory[j][i]}) /\ UNCHANGED lutCache
       ELSE /\ lutCache' = InsertIfVacant(lutCache, Plan(j)[i], memory[j][i])
            /\ UNCHANGED <<refs, content, made>>
    /\ UNCHANGED <<flowVars, pool, leaked, memory, resident, loaded,
                   moduleCache, codeCache, gpuVars, active, restVars>>

\* Freeing the duplicate fails.
FreeDuplicateFails(j, i) ==
    /\ At(j, "tables") /\ i \in pending[j] /\ InjectFault
    /\ Plan(j)[i] \in Keys(lutCache)
    /\ pending' = [pending EXCEPT ![j] = {}]
    /\ held' = [held EXCEPT ![j] = @ \ {memory[j][i]}]
    /\ leaked' = leaked \cup {memory[j][i]}
    /\ Continue(j, "drop")
    /\ UNCHANGED <<count, refs, pool, memory, resident, content, lutCache,
                   codeVars, gpuVars, active, clearing, results, alive>>

\* The transients, the queue and the handles of `others` return to their
\* pools; the output of a program within a chain goes on.
recycle(j, others) ==
    /\ At(j, "tables") /\ pending[j] = {}
    /\ LET kept == IF LastStage(j) THEN {} ELSE {Output(j)}
           back == (Transients(j) \ kept) \cup (held[j] \cap Queue) \cup others
       IN /\ held' = [held EXCEPT ![j] = @ \ back]
          /\ pool' = [h \in Handle |-> pool[h] + (IF h \in back THEN 1 ELSE 0)]
          /\ content' = [d \in Device |-> IF d \in back THEN None ELSE content[d]]
          /\ resident' = [resident EXCEPT ![j] = IF LastStage(j) THEN None
                                                 ELSE Output(j)]
    /\ Continue(j, "free")
    /\ UNCHANGED <<count, refs, leaked, memory, pending, lutCache, codeVars,
                   gpuVars, restVars>>

\* Dropping a ticket that has not completed waits, and so does the destructor
\* of its queue; neither looks at the result.
DropGoesOn(j) ==
    /\ call = j /\ phase[j] \in {"drop", "dropQueue"}
    /\ Continue(j, IF phase[j] = "drop" THEN "dropQueue" ELSE "free")
    /\ UNCHANGED <<count, handleVars, dataVars, codeVars, gpuVars, active,
                   restVars>>

DropWaits(j) == DropGoesOn(j) /\ DeviceDone(j)
DropWaitFails(j) == DropGoesOn(j) /\ InjectFault

Returns(j) ==
    /\ Goto(j, "idle") /\ call' = None
    /\ stage' = [stage EXCEPT ![j] = 0]
    /\ chain' = [chain EXCEPT ![j] = << >>]

Forgets(j) ==
    /\ results' = [results EXCEPT ![j] = None]
    /\ memory' = [memory EXCEPT ![j] = << >>]
    /\ pending' = [pending EXCEPT ![j] = {}]
    /\ loaded' = [loaded EXCEPT ![j] = << >>]
    /\ count' = [count EXCEPT ![j] = 0]

\* The destructors of what is still owned; the next program of a chain starts.
DropEnds(j) ==
    /\ At(j, "free")
    /\ Destroy(held[j] \ {resident[j]})
    /\ held' = [held EXCEPT ![j] = @ \cap {resident[j]}]
    /\ IF resident[j] # None
       THEN /\ Goto(j, "queue") /\ stage' = [stage EXCEPT ![j] = @ + 1]
            /\ UNCHANGED <<call, chain>>
       ELSE Returns(j)
    /\ Forgets(j)
    /\ UNCHANGED <<pool, leaked, resident, lutCache, moduleCache, codeCache,
                   gpuVars, clearing, alive>>

\* A submission that failed drops what it has, the output it was to consume
\* included.  It waits for what it had launched: freeing memory waits for the
\* device, and so does the destructor of the queue.  (What HIP drops before
\* that is in HipRuntime.)
Unwinds(j) ==
    /\ At(j, "unwind") /\ DeviceDone(j)
    /\ Destroy(held[j])
    /\ held' = [held EXCEPT ![j] = {}]
    /\ resident' = [resident EXCEPT ![j] = None]
    /\ Returns(j) /\ Forgets(j)
    /\ UNCHANGED <<pool, leaked, lutCache, moduleCache, codeCache, gpuVars,
                   clearing, alive>>

-----------------------------------------------------------------------------
(* clear_runtime_caches and the destructor of the context.                 *)

BeginClear(order) ==
    /\ alive /\ call = None
    /\ call' = Maint /\ clearing' = order
    /\ UNCHANGED <<phase, chain, stage, count, handleVars, dataVars, codeVars,
                   gpuVars, active, results, alive>>

InPool(p) ==
    CASE p = "transient" -> Pooled(Device)   [] p = "queue" -> Pooled(Queue)
      [] p = "kernel"    -> Pooled(Kernel)   [] p = "lut" -> Values(lutCache)
      [] p = "module"    -> Values(moduleCache)

\* The handles of one pool are destroyed but for those in S.
Drain(p, S) ==
    /\ refs' = [h \in Handle |-> IF h \in InPool(p) \ S THEN 0 ELSE refs[h]]
    /\ Scrub(refs', S)
    /\ leaked' = leaked \cup S
    /\ pool' = [h \in Handle |-> IF h \in InPool(p) THEN 0 ELSE pool[h]]
    /\ lutCache' = IF p = "lut" THEN EmptyCache ELSE lutCache
    /\ moduleCache' = IF p = "module" THEN EmptyCache ELSE moduleCache
    /\ UNCHANGED <<phase, chain, stage, count, held, memory, pending, resident,
                   loaded, gpuVars, active, results, alive>>

\* The archive of compiled code goes last.
ClearPool ==
    /\ call = Maint
    /\ Drain(Head(clearing), {})
    /\ clearing' = Tail(clearing)
    /\ call' = IF Len(clearing) = 1 THEN None ELSE Maint
    /\ codeCache' = IF Len(clearing) = 1 THEN EmptyCache ELSE codeCache

\* A failing destroy returns, and the rest of the drained pool is dropped
\* undestroyed.
ClearPoolFails ==
    /\ call = Maint /\ InjectFault
    /\ \E S \in SUBSET InPool(Head(clearing)) \ {{}} : Drain(Head(clearing), S)
    /\ clearing' = << >> /\ call' = None
    /\ UNCHANGED codeCache

Owned == Pooled(Handle) \cup Values(lutCache) \cup Values(moduleCache)

\* Tickets borrow the context: none is left.  Errors are ignored.
DropContext ==
    /\ alive /\ call = None /\ \A j \in Job : phase[j] = "idle"
    /\ alive' = FALSE
    /\ Destroy(Owned)
    /\ pool' = [h \in Handle |-> 0]
    /\ lutCache' = EmptyCache /\ moduleCache' = EmptyCache
    /\ codeCache' = EmptyCache
    /\ UNCHANGED <<flowVars, held, leaked, memory, pending, resident, loaded,
                   gpuVars, active, clearing, results>>
=============================================================================
