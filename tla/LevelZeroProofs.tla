-------------------------- MODULE LevelZeroProofs --------------------------
(* Theorems about LevelZeroRuntime, for every value of its constants.      *)
EXTENDS LevelZeroRuntime, FiniteSetTheorems, TLAPS

\* TypeOK by groups of variables, without the capacities of the pools.
CallTypes ==
    /\ call \in Job \cup {Maint, None}
    /\ phase \in [Job -> Phases] /\ count \in [Job -> Nat]

HandleTypes ==
    /\ fresh \subseteq Handle /\ leaked \subseteq Handle
    /\ pool \in [Handle -> Nat] /\ held \in [Job -> SUBSET Handle]

LutTypes ==
    /\ tables \in [Job -> [Key -> Device \cup {None}]]
    /\ pending \in [Job -> SUBSET Key]
    /\ lutCache \in [Key -> Device \cup {None}]
    /\ content \in [Device -> Key \cup {None}]

KernelTypes ==
    /\ module \in Module \cup {None}
    /\ moduleCache \in [Binaries -> Module \cup {None}]
    /\ made \in [Kernel -> {None} \cup [source : Source, module : Module,
                                        key : BOOLEAN]]

GpuTypes == running \subseteq Job /\ uses \in [Job -> SUBSET Handle]

RestTypes ==
    /\ active \in Nat
    /\ clearing \in Seq({ClearOrder[i] : i \in 1 .. 7})
    /\ destroyFailed \in BOOLEAN /\ alive \in BOOLEAN

TypesOK ==
    /\ CallTypes /\ HandleTypes /\ LutTypes /\ KernelTypes
    /\ GpuTypes /\ RestTypes /\ faults \in 0 .. MaxFaults

Capacities ==
    /\ Cardinality(CachedModules) <= MaxModules
    /\ Cardinality(Pooled(Kernel)) <= MaxKernels
    /\ Cardinality(Pooled(List)) <= MaxLists

LEMMA TypeParts == TypeOK <=> TypesOK /\ Capacities
  BY DEF TypeOK, TypesOK, Capacities, CallTypes, HandleTypes, LutTypes,
     KernelTypes, GpuTypes, RestTypes

\* The tickets whose submission the driver accepted and that are not gone.
Executed == Phases \ (SubmitPhases \cup {"idle"})
Submitted == {j \in Job : phase[j] \in Executed}

\* One method runs at a time, and what it is about to use is there.
Control ==
    /\ \A j \in Job : call = j <=> phase[j] \notin {"idle", "pending"}
    /\ call = Maint <=> clearing # <<>>
    /\ \A j \in Job : phase[j] = "kernel" => /\ module \in Module
                                             /\ count[j] < Len(Shaders[j])
    /\ active = Cardinality(Submitted)

\* The tables a ticket uploads are in buffers of its own, one each, and not
\* cached before it allocated the last of them.
TablesOf(j) ==
    /\ \A k \in pending[j] : tables[j][k] \in held[j] \cap Device
    /\ \A k, l \in pending[j] : tables[j][k] = tables[j][l] => k = l
    /\ phase[j] = "idle" => held[j] = {}
    /\ phase[j] \in {"idle", "queue", "list"} => pending[j] = {}
    /\ phase[j] = "alloc" => \A k \in pending[j] : lutCache[k] = None

TablesHeld == \A j \in Job : TablesOf(j)

-----------------------------------------------------------------------------
(* What the helpers hand out and move.                                     *)

LEMMA TypesKept ==
    ASSUME TypesOK
    PROVE  /\ UNCHANGED <<call, phase, count>> => CallTypes'
           /\ UNCHANGED handleVars => HandleTypes'
           /\ UNCHANGED lutVars => LutTypes'
           /\ UNCHANGED kernelVars => KernelTypes'
           /\ UNCHANGED gpuVars => GpuTypes'
           /\ UNCHANGED restVars => RestTypes'
           /\ UNCHANGED faults => faults' \in 0 .. MaxFaults
<1>1. UNCHANGED <<call, phase, count>> => CallTypes'
  BY DEF TypesOK, CallTypes
<1>2. UNCHANGED handleVars => HandleTypes'
  BY DEF TypesOK, HandleTypes, handleVars
<1>3. UNCHANGED lutVars => LutTypes'
  BY DEF TypesOK, LutTypes, lutVars
<1>4. UNCHANGED kernelVars => KernelTypes'
  BY DEF TypesOK, KernelTypes, kernelVars
<1>5. UNCHANGED gpuVars => GpuTypes'
  BY DEF TypesOK, GpuTypes, gpuVars
<1>6. UNCHANGED restVars => RestTypes'
  BY DEF TypesOK, RestTypes, restVars
<1> QED
  BY <1>1, <1>2, <1>3, <1>4, <1>5, <1>6 DEF TypesOK

\* Only DropContext ends the context, and a failure is not forgotten.
LEMMA RestStep ==
    ASSUME [Next]_vars
    PROVE  /\ UNCHANGED alive \/ DropContext
           /\ UNCHANGED destroyFailed \/ destroyFailed'
<1> DEFINE P == /\ UNCHANGED alive \/ DropContext
                /\ UNCHANGED destroyFailed \/ destroyFailed'
<1>0. ASSUME UNCHANGED vars PROVE P
  BY <1>0 DEF vars, restVars
<1>1. ASSUME NEW j \in Job,
                 \/ Submit(j) \/ take_queue(j) \/ create_command_list(j) \/ allocate(j)
                 \/ Allocated(j)
      PROVE  P
  BY <1>1 DEF Submit, take_queue, create_command_list, allocate, Allocated, restVars
<1>2. ASSUME NEW j \in Job,
                 \/ create_module(j) \/ create_kernel(j) \/ allocate_host(j)
                 \/ execute_command_lists(j) \/ SubmitFails(j)
      PROVE  P
  BY <1>2 DEF create_module, create_kernel, allocate_host, execute_command_lists, SubmitFails, restVars
<1>3. ASSUME NEW j \in Job,
                 \/ Wait(j) \/ DropTicket(j) \/ synchronize(j) \/ SynchronizeFails(j)
                 \/ \E k \in Key : insert_lut(j, k)
                 \/ \E k \in Key : FreeDuplicateFails(j, k)
      PROVE  P
  BY <1>3 DEF Wait, DropTicket, synchronize, SynchronizeFails, insert_lut, FreeDuplicateFails, restVars
<1>4. ASSUME NEW j \in Job,
                 \/ recycle_buffers(j) \/ recycle_command_list(j) \/ recycle_kernels(j)
                 \/ recycle_queue(j) \/ DropWaits(j) \/ DropEnds(j) \/ DeviceEnds(j)
      PROVE  P
  BY <1>4 DEF recycle_buffers, recycle_command_list, recycle_kernels, recycle_queue,
     DropWaits, DropEnds, DeviceEnds, restVars
<1>5. ASSUME ClearRuntimeCaches PROVE P
  BY <1>5 DEF ClearRuntimeCaches
<1>6. ASSUME ClearPool \/ ClearPoolFails PROVE P
  <2>1. UNCHANGED alive
    BY <1>6 DEF ClearPool, ClearPoolFails, Empty
  <2>2. UNCHANGED destroyFailed \/ destroyFailed'
    BY <1>6 DEF ClearPool, ClearPoolFails
  <2> QED
    BY <2>1, <2>2
<1>7. ASSUME DropContext PROVE P
  BY <1>7 DEF DropContext
<1> HIDE DEF P
<1>8. ASSUME NEW j \in Job, Call(j) \/ Failure(j) PROVE P
  BY <1>1, <1>2, <1>3, <1>4, <1>8 DEF Call, Failure
<1>9. P
  BY <1>0, <1>1, <1>3, <1>4, <1>5, <1>6, <1>7, <1>8 DEF Next
<1> QED
  BY <1>9 DEF P

\* Once the context is gone nothing happens.
LEMMA NothingAfterDrop ==
    ASSUME [Next]_vars, ~alive, call = None, running = {}, None \notin Job, Maint # None,
           \A j \in Job : phase[j] = "idle"
    PROVE  UNCHANGED vars
<1>1. ASSUME NEW j \in Job,
                 \/ Submit(j) \/ take_queue(j) \/ create_command_list(j) \/ allocate(j)
                 \/ Allocated(j)
      PROVE  FALSE
  BY <1>1 DEF Submit, take_queue, create_command_list, allocate, Allocated, At
<1>2. ASSUME NEW j \in Job,
                 \/ create_module(j) \/ create_kernel(j) \/ allocate_host(j)
                 \/ execute_command_lists(j) \/ SubmitFails(j)
      PROVE  FALSE
  BY <1>2 DEF create_module, create_kernel, allocate_host, execute_command_lists, SubmitFails, At
<1>3. ASSUME NEW j \in Job,
                 \/ Wait(j) \/ DropTicket(j) \/ synchronize(j) \/ SynchronizeFails(j)
                 \/ \E k \in Key : insert_lut(j, k)
                 \/ \E k \in Key : FreeDuplicateFails(j, k)
      PROVE  FALSE
  BY <1>3 DEF Wait, DropTicket, synchronize, SynchronizeFails, insert_lut, FreeDuplicateFails, At
<1>4. ASSUME NEW j \in Job,
                 \/ recycle_buffers(j) \/ recycle_command_list(j) \/ recycle_kernels(j)
                 \/ recycle_queue(j) \/ DropWaits(j) \/ DropEnds(j) \/ DeviceEnds(j)
      PROVE  FALSE
  BY <1>4 DEF recycle_buffers, recycle_command_list, recycle_kernels, recycle_queue,
     DropWaits, DropEnds, DeviceEnds, At
<1>5. CASE ClearRuntimeCaches \/ ClearPool \/ ClearPoolFails \/ DropContext
  BY <1>5 DEF ClearRuntimeCaches, ClearPool, ClearPoolFails, DropContext
<1> QED
  BY <1>1, <1>2, <1>3, <1>4, <1>5 DEF Next, Call, Failure

LEMMA NextBinary ==
    ASSUME TypesOK, NEW j \in Job, count[j] < Len(Shaders[j])
    PROVE  Binary[NextSource(j)] \in Binaries
<1>1. count[j] \in Nat
  BY DEF TypesOK, CallTypes
<1>2. Shaders[j] \in Seq(Source) /\ Binary \in [Source -> Binaries]
  BY RuntimeAssumption
<1>3. NextSource(j) \in Source
  BY <1>1, <1>2 DEF NextSource
<1> QED
  BY <1>2, <1>3

LEMMA ObtainableAvailable ==
    ASSUME NEW S, NEW h \in Obtainable(S)
    PROVE  h \in S /\ (h \in fresh \/ pool[h] > 0)
  BY DEF Obtainable, Pooled

LEMMA ObtainableKernel ==
    ASSUME NEW m, NEW s, NEW k \in ObtainableKernels(m, s)
    PROVE  k \in Kernel /\ (k \in fresh \/ pool[k] > 0)
  BY DEF ObtainableKernels, Pooled

LEMMA TakeType ==
    ASSUME TypesOK, NEW j \in Job, NEW hs \in SUBSET Handle, Take(j, hs)
    PROVE  HandleTypes'
  BY DEF TypesOK, Take, HandleTypes

LEMMA RecycleType ==
    ASSUME TypesOK, NEW j \in Job, NEW hs, Recycle(j, hs)
    PROVE  HandleTypes'
  BY DEF TypesOK, Recycle, HandleTypes

LEMMA ForgetType ==
    ASSUME TypesOK, NEW j \in Job, NEW hs \in SUBSET Handle, Forget(j, hs)
    PROVE  HandleTypes'
  BY DEF TypesOK, Forget, HandleTypes

LEMMA DestroyType ==
    ASSUME TypesOK, NEW hs \in SUBSET Handle, Destroy(hs)
    PROVE  /\ fresh' \subseteq Handle
           /\ content' \in [Device -> Key \cup {None}]
           /\ made' \in [Kernel -> {None} \cup [source : Source, module : Module,
                                                key : BOOLEAN]]
  BY DEF TypesOK, Destroy, HandleTypes, LutTypes, KernelTypes

\* What allocate takes.
Buffers(j, e, d) ==
    IF e = "device" THEN Take(j, {d})
    ELSE \E h \in Obtainable(Host) : Take(j, {d, h})

LEMMA BuffersTaken ==
    ASSUME NEW j \in Job, NEW e, NEW d \in Obtainable(Device), Buffers(j, e, d)
    PROVE  \E hs \in SUBSET (Device \cup Host) :
              /\ d \in hs /\ Take(j, hs)
              /\ \A h \in hs : h \in fresh \/ pool[h] > 0
<1>1. CASE e = "device"
  <2>1. d \in Device /\ (d \in fresh \/ pool[d] > 0)
    BY ObtainableAvailable
  <2>2. Take(j, {d})
    BY <1>1 DEF Buffers
  <2> QED
    BY <2>1, <2>2
<1>2. CASE e # "device"
  <2>1. PICK h \in Obtainable(Host) : Take(j, {d, h})
    BY <1>2 DEF Buffers
  <2>2. /\ d \in Device /\ (d \in fresh \/ pool[d] > 0)
        /\ h \in Host /\ (h \in fresh \/ pool[h] > 0)
    BY ObtainableAvailable
  <2> QED
    BY <2>1, <2>2
<1> QED
  BY <1>1, <1>2

\* The two ways of an allocation: a table that is cached, or new memory.
LEMMA AllocateCases ==
    ASSUME TypesOK, NEW j \in Job, allocate(j)
    PROVE  \E e \in Key \cup {"host", "device"} :
             \/ /\ e \in Key /\ lutCache[e] # None
                /\ tables' = [tables EXCEPT ![j][e] = lutCache[e]]
                /\ UNCHANGED <<handleVars, pending, lutCache, content>>
             \/ /\ e \in Key => lutCache[e] = None
                /\ UNCHANGED lutCache
                /\ \E d \in Device, hs \in SUBSET (Device \cup Host) :
                      /\ d \in hs /\ Take(j, hs)
                      /\ \A h \in hs : h \in fresh \/ pool[h] > 0
                      /\ content' = [content EXCEPT ![d] = None]
                      /\ \/ /\ e \in Key
                            /\ tables' = [tables EXCEPT ![j][e] = d]
                            /\ pending' = [pending EXCEPT ![j] = @ \cup {e}]
                         \/ UNCHANGED <<tables, pending>>
<1> DEFINE e == Plan[j][count[j] + 1]
<1>1. e \in Key \cup {"host", "device"}
  <2>1. Plan[j] \in Seq(Key \cup {"host", "device"})
    BY RuntimeAssumption
  <2>2. count[j] \in Nat /\ count[j] < Len(Plan[j])
    BY DEF allocate, TypesOK, CallTypes
  <2> QED
    BY <2>1, <2>2
<1>2. CASE /\ e \in Key /\ lutCache[e] # None
           /\ tables' = [tables EXCEPT ![j][e] = lutCache[e]]
           /\ UNCHANGED <<handleVars, pending, lutCache, content>>
  BY <1>1, <1>2
<1>3. CASE /\ e \in Key => lutCache[e] = None
           /\ \E d \in Obtainable(Device) :
                 /\ Buffers(j, e, d)
                 /\ content' = [content EXCEPT ![d] = None]
                 /\ IF e \in Key
                    THEN /\ tables' = [tables EXCEPT ![j][e] = d]
                         /\ pending' = [pending EXCEPT ![j] = @ \cup {e}]
                    ELSE UNCHANGED <<tables, pending>>
           /\ UNCHANGED lutCache
  <2> HIDE DEF e
  <2>1. PICK d \in Obtainable(Device) :
                 /\ Buffers(j, e, d)
                 /\ content' = [content EXCEPT ![d] = None]
                 /\ IF e \in Key
                    THEN /\ tables' = [tables EXCEPT ![j][e] = d]
                         /\ pending' = [pending EXCEPT ![j] = @ \cup {e}]
                    ELSE UNCHANGED <<tables, pending>>
    BY <1>3
  <2>2. PICK hs \in SUBSET (Device \cup Host) :
              /\ d \in hs /\ Take(j, hs)
              /\ \A h \in hs : h \in fresh \/ pool[h] > 0
    BY <2>1, BuffersTaken
  <2>3. d \in Device
    BY ObtainableAvailable
  <2> QED
    BY <1>1, <1>3, <2>1, <2>2, <2>3
<1> QED
  BY <1>2, <1>3 DEF allocate, Buffers

-----------------------------------------------------------------------------
(* Type correctness.                                                       *)

LEMMA ReleaseType ==
    ASSUME TypesOK, NEW j \in Job, Release(j), UNCHANGED gpuVars, RestTypes',
           faults' \in 0 .. MaxFaults
    PROVE  TypesOK'
<1>1. held[j] \in SUBSET Handle
  BY DEF TypesOK, HandleTypes
<1>2. /\ fresh' \subseteq Handle
      /\ content' \in [Device -> Key \cup {None}]
      /\ made' \in [Kernel -> {None} \cup [source : Source, module : Module,
                                           key : BOOLEAN]]
  BY <1>1, DestroyType DEF Release
<1>3. HandleTypes'
  BY <1>2 DEF Release, TypesOK, HandleTypes
<1>4. LutTypes'
  BY <1>2 DEF Release, TypesOK, LutTypes, NoTables
<1>5. KernelTypes'
  BY <1>2 DEF Release, TypesOK, KernelTypes
<1>6. CallTypes'
  BY DEF Release, TypesOK, CallTypes, Goto, Phases
<1> QED
  BY <1>3, <1>4, <1>5, <1>6, TypesKept DEF TypesOK

LEMMA TypesSubmit ==
    ASSUME TypesOK, Control, NEW j \in Job,
           \/ Submit(j) \/ take_queue(j) \/ create_command_list(j) \/ allocate(j)
           \/ Allocated(j) \/ create_module(j) \/ create_kernel(j)
           \/ allocate_host(j) \/ execute_command_lists(j) \/ SubmitFails(j)
    PROVE  TypesOK'
<1>1. CASE Submit(j) \/ Allocated(j)
  <2>1. phase' = [phase EXCEPT ![j] = "queue"] \/ phase' = [phase EXCEPT ![j] = "module"]
    BY <1>1 DEF Submit, Allocated, Goto
  <2>2. (call' = call \/ call' = j) /\ (count' = count \/ count' = [count EXCEPT ![j] = 0])
    BY <1>1 DEF Submit, Allocated
  <2>3. CallTypes'
    BY <2>1, <2>2 DEF TypesOK, CallTypes, Phases, SubmitPhases
  <2> QED
    BY <1>1, <2>3, TypesKept DEF Submit, Allocated, TypesOK
<1>2. CASE take_queue(j) \/ create_command_list(j)
  <2>1. PICK h \in Obtainable(Queue) \cup Obtainable(List) : Take(j, {h})
    BY <1>2 DEF take_queue, create_command_list
  <2>2. HandleTypes'
    BY <2>1, ObtainableAvailable, TakeType DEF Handle
  <2>3. CallTypes'
    BY <1>2 DEF take_queue, create_command_list, TypesOK, CallTypes, Goto,
       Phases, SubmitPhases
  <2> QED
    BY <1>2, <2>2, <2>3, TypesKept DEF take_queue, create_command_list, TypesOK
<1>3. CASE allocate(j)
  <2>1. CallTypes'
    BY <1>3 DEF allocate, TypesOK, CallTypes
  <2>2. HandleTypes'
    <3>1. UNCHANGED handleVars \/ \E hs \in SUBSET (Device \cup Host) : Take(j, hs)
      BY <1>3, AllocateCases
    <3> QED
      BY <3>1, TypesKept, TakeType DEF Handle
  <2>3. LutTypes'
    <3>1. PICK e \in Key \cup {"host", "device"} :
             \/ /\ e \in Key /\ tables' = [tables EXCEPT ![j][e] = lutCache[e]]
                /\ UNCHANGED <<pending, lutCache, content>>
             \/ /\ UNCHANGED lutCache
                /\ \E d \in Device :
                      /\ content' = [content EXCEPT ![d] = None]
                      /\ \/ /\ e \in Key
                            /\ tables' = [tables EXCEPT ![j][e] = d]
                            /\ pending' = [pending EXCEPT ![j] = @ \cup {e}]
                         \/ UNCHANGED <<tables, pending>>
      BY <1>3, AllocateCases
    <3>2. LutTypes
      BY DEF TypesOK
    <3>3. CASE /\ e \in Key /\ tables' = [tables EXCEPT ![j][e] = lutCache[e]]
               /\ UNCHANGED <<pending, lutCache, content>>
      BY <3>2, <3>3 DEF LutTypes
    <3>4. CASE /\ UNCHANGED lutCache
               /\ \E d \in Device :
                     /\ content' = [content EXCEPT ![d] = None]
                     /\ UNCHANGED <<tables, pending>>
      BY <3>2, <3>4 DEF LutTypes
    <3>5. ASSUME UNCHANGED lutCache, NEW d \in Device, e \in Key,
                 content' = [content EXCEPT ![d] = None],
                 tables' = [tables EXCEPT ![j][e] = d],
                 pending' = [pending EXCEPT ![j] = @ \cup {e}]
          PROVE  LutTypes'
      <4>1. tables' \in [Job -> [Key -> Device \cup {None}]]
        BY <3>2, <3>5 DEF LutTypes
      <4> QED
        BY <3>2, <3>5, <4>1 DEF LutTypes
    <3> QED
      BY <3>1, <3>3, <3>4, <3>5
  <2> QED
    BY <1>3, <2>1, <2>2, <2>3, TypesKept DEF allocate, TypesOK
<1>4. CASE create_module(j)
  <2> DEFINE b == Binary[NextSource(j)]
  <2>1. b \in Binaries
    BY <1>4, NextBinary DEF create_module
  <2>2. CallTypes'
    BY <1>4 DEF create_module, TypesOK, CallTypes, Goto, Phases, SubmitPhases
  <2>3. HandleTypes' /\ KernelTypes'
    <3>1. CASE /\ moduleCache[b] # None /\ module' = moduleCache[b]
               /\ UNCHANGED <<moduleCache, handleVars>>
      BY <1>4, <2>1, <3>1, TypesKept DEF create_module, TypesOK, KernelTypes
    <3>2. CASE \E m \in Obtainable(Module) :
                  /\ module' = m
                  /\ \/ /\ moduleCache' = [moduleCache EXCEPT ![b] = m]
                        /\ fresh' = fresh \ {m}
                        /\ UNCHANGED <<pool, held, leaked>>
                     \/ /\ Take(j, {m})
                        /\ UNCHANGED moduleCache
      <4> HIDE DEF b
      <4>1. PICK m \in Obtainable(Module) :
                  /\ module' = m
                  /\ \/ /\ moduleCache' = [moduleCache EXCEPT ![b] = m]
                        /\ fresh' = fresh \ {m}
                        /\ UNCHANGED <<pool, held, leaked>>
                     \/ /\ Take(j, {m})
                        /\ UNCHANGED moduleCache
        BY <3>2
      <4>2. m \in Module /\ m \in Handle
        BY ObtainableAvailable DEF Handle
      <4>3. CASE Take(j, {m}) /\ UNCHANGED moduleCache
        BY <1>4, <4>1, <4>2, <4>3, TakeType DEF create_module, KernelTypes, TypesOK
      <4>4. CASE /\ moduleCache' = [moduleCache EXCEPT ![b] = m]
                 /\ fresh' = fresh \ {m}
                 /\ UNCHANGED <<pool, held, leaked>>
        BY <1>4, <2>1, <4>1, <4>2, <4>4
        DEF create_module, HandleTypes, KernelTypes, TypesOK
      <4> QED
        BY <4>1, <4>3, <4>4
    <3> QED
      BY <1>4, <3>1, <3>2 DEF create_module
  <2> QED
    BY <1>4, <2>2, <2>3, TypesKept DEF create_module, TypesOK
<1>5. CASE create_kernel(j)
  <2>1. PICK k \in ObtainableKernels(module, NextSource(j)) :
          /\ Take(j, {k})
          /\ made' = IF k \in fresh
                     THEN [made EXCEPT ![k] = [source |-> NextSource(j),
                              module |-> module, key |-> HasPoolKey(module)]]
                     ELSE made
    BY <1>5 DEF create_kernel
  <2>2. k \in Kernel /\ k \in Handle
    BY ObtainableKernel DEF Handle
  <2>3. NextSource(j) \in Source /\ module \in Module
    <3>1. module \in Module /\ count[j] < Len(Shaders[j]) /\ count[j] \in Nat
      BY <1>5 DEF create_kernel, Control, At, TypesOK, CallTypes
    <3> QED
      BY <3>1, RuntimeAssumption DEF NextSource
  <2>4. HasPoolKey(module) \in BOOLEAN
    BY DEF HasPoolKey
  <2>5. KernelTypes'
    BY <1>5, <2>1, <2>2, <2>3, <2>4 DEF create_kernel, TypesOK, KernelTypes
  <2>6. HandleTypes'
    BY <2>1, <2>2, TakeType
  <2>7. CallTypes'
    BY <1>5 DEF create_kernel, TypesOK, CallTypes, Goto, Phases, SubmitPhases
  <2> QED
    BY <1>5, <2>5, <2>6, <2>7, TypesKept DEF create_kernel, TypesOK
<1>6. CASE allocate_host(j)
  <2>1. UNCHANGED handleVars => HandleTypes'
    BY TypesKept
  <2>2. ASSUME NEW h \in Obtainable(Host), Take(j, {h}) PROVE HandleTypes'
    BY <2>2, ObtainableAvailable, TakeType DEF Handle
  <2>3. HandleTypes'
    BY <1>6, <2>1, <2>2 DEF allocate_host
  <2>4. CallTypes'
    BY <1>6 DEF allocate_host, TypesOK, CallTypes, Goto, Phases, SubmitPhases
  <2> QED
    BY <1>6, <2>3, <2>4, TypesKept DEF allocate_host, TypesOK
<1>7. CASE execute_command_lists(j)
  <2>1. CallTypes'
    BY <1>7 DEF execute_command_lists, TypesOK, CallTypes, Goto, Phases
  <2>2. GpuTypes'
    BY <1>7 DEF execute_command_lists, TypesOK, GpuTypes, HandleTypes
  <2>3. RestTypes'
    BY <1>7 DEF execute_command_lists, TypesOK, RestTypes
  <2> QED
    BY <1>7, <2>1, <2>2, <2>3, TypesKept DEF execute_command_lists, TypesOK
<1>8. CASE SubmitFails(j)
  <2>1. faults' \in 0 .. MaxFaults
    BY <1>8, RuntimeAssumption DEF SubmitFails, InjectFault, TypesOK
  <2> QED
    BY <1>8, <2>1, ReleaseType, TypesKept DEF SubmitFails
<1> QED
  BY <1>1, <1>2, <1>3, <1>4, <1>5, <1>6, <1>7, <1>8

LEMMA SubmittedFinite ==
    ASSUME TypesOK
    PROVE  /\ IsFiniteSet(Submitted) /\ Cardinality(Submitted) \in Nat
           /\ \A j \in Submitted : Cardinality(Submitted) > 0
<1>1. IsFiniteSet(Submitted)
  BY RuntimeAssumption, FS_Subset DEF Submitted
<1> QED
  BY <1>1, FS_CardinalityType, FS_EmptySet

LEMMA TypesComplete ==
    ASSUME TypesOK, Control, TablesHeld, NEW j \in Job,
           \/ Wait(j) \/ DropTicket(j) \/ synchronize(j) \/ SynchronizeFails(j)
           \/ \E k \in Key : insert_lut(j, k) \/ FreeDuplicateFails(j, k)
           \/ recycle_buffers(j) \/ recycle_command_list(j)
           \/ recycle_kernels(j) \/ recycle_queue(j) \/ DropWaits(j)
           \/ DropEnds(j)
    PROVE  TypesOK'
<1> DEFINE Next_ == {"sync", "drop", "tables", "reset", "recycle", "return",
                     "free", "dropQueue"}
<1>0. ASSUME NEW p \in Next_, Goto(j, p), call' \in {call, j}, UNCHANGED count
      PROVE  CallTypes'
  BY <1>0 DEF TypesOK, CallTypes, Goto, Phases
<1>1. CASE Wait(j) \/ DropTicket(j) \/ synchronize(j)
  <2>1. CallTypes'
    BY <1>0, <1>1 DEF Wait, DropTicket, synchronize
  <2> QED
    BY <1>1, <2>1, TypesKept DEF Wait, DropTicket, synchronize, TypesOK
<1>2. CASE SynchronizeFails(j)
  <2>1. CallTypes'
    BY <1>0, <1>2 DEF SynchronizeFails
  <2>2. faults' \in 0 .. MaxFaults
    BY <1>2, RuntimeAssumption DEF SynchronizeFails, InjectFault, TypesOK
  <2> QED
    BY <1>2, <2>1, <2>2, TypesKept DEF SynchronizeFails, TypesOK
<1>3. ASSUME NEW k \in Key, insert_lut(j, k) PROVE TypesOK'
  <2>1. k \in pending[j] /\ tables[j][k] \in Device
    BY <1>3 DEF insert_lut, TablesHeld, TablesOf
  <2>2. HandleTypes' /\ lutCache' \in [Key -> Device \cup {None}]
        /\ content' \in [Device -> Key \cup {None}] /\ KernelTypes'
    <3>1. CASE /\ lutCache' = [lutCache EXCEPT ![k] = tables[j][k]]
               /\ UNCHANGED <<fresh, content, made>>
      BY <1>3, <2>1, <3>1
      DEF insert_lut, TypesOK, HandleTypes, LutTypes, KernelTypes
    <3>2. CASE Destroy({tables[j][k]}) /\ UNCHANGED lutCache
      <4>1. {tables[j][k]} \in SUBSET Handle
        BY <2>1 DEF Handle
      <4> QED
        BY <1>3, <3>2, <4>1, DestroyType
        DEF insert_lut, TypesOK, HandleTypes, LutTypes, KernelTypes
    <3> QED
      BY <1>3, <3>1, <3>2 DEF insert_lut
  <2>3. LutTypes'
    BY <1>3, <2>2 DEF insert_lut, TypesOK, LutTypes
  <2> QED
    BY <1>3, <2>2, <2>3, TypesKept DEF insert_lut, TypesOK
<1>4. ASSUME NEW k \in Key, FreeDuplicateFails(j, k) PROVE TypesOK'
  <2>1. {tables[j][k]} \in SUBSET Handle
    BY <1>4 DEF FreeDuplicateFails, TablesHeld, TablesOf, Handle
  <2>2. HandleTypes'
    BY <1>4, <2>1, ForgetType DEF FreeDuplicateFails
  <2>3. LutTypes' /\ RestTypes'
    BY <1>4 DEF FreeDuplicateFails, TypesOK, LutTypes, RestTypes
  <2>4. CallTypes'
    BY <1>0, <1>4 DEF FreeDuplicateFails
  <2>5. faults' \in 0 .. MaxFaults
    BY <1>4, RuntimeAssumption DEF FreeDuplicateFails, InjectFault, TypesOK
  <2> QED
    BY <1>4, <2>2, <2>3, <2>4, <2>5, TypesKept DEF FreeDuplicateFails, TypesOK
<1>5. CASE recycle_buffers(j) \/ recycle_queue(j)
  <2>1. HandleTypes'
    BY <1>5, RecycleType DEF recycle_buffers, recycle_queue
  <2>2. CallTypes'
    BY <1>0, <1>5 DEF recycle_buffers, recycle_queue
  <2> QED
    BY <1>5, <2>1, <2>2, TypesKept DEF recycle_buffers, recycle_queue, TypesOK
<1>6. CASE recycle_command_list(j)
  <2>1. HandleTypes'
    BY <1>6, RecycleType, TypesKept DEF recycle_command_list
  <2>2. CallTypes'
    BY <1>0, <1>6 DEF recycle_command_list
  <2>3. faults' \in 0 .. MaxFaults
    BY <1>6, RuntimeAssumption DEF recycle_command_list, InjectFault, TypesOK
  <2> QED
    BY <1>6, <2>1, <2>2, <2>3, TypesKept DEF recycle_command_list, TypesOK
<1>7. CASE recycle_kernels(j)
  <2>1. held[j] \in SUBSET Handle
    BY DEF TypesOK, HandleTypes
  <2>2. \/ \E S \in SUBSET held[j] : Recycle(j, S) \/ Forget(j, S)
        \/ UNCHANGED handleVars
    BY <1>7 DEF recycle_kernels
  <2>3. HandleTypes'
    BY <2>1, <2>2, RecycleType, ForgetType, TypesKept
  <2>4. CallTypes'
    BY <1>0, <1>7 DEF recycle_kernels
  <2> QED
    BY <1>7, <2>3, <2>4, TypesKept DEF recycle_kernels, TypesOK
<1>8. CASE DropWaits(j)
  <2>1. CallTypes'
    BY <1>0, <1>8 DEF DropWaits
  <2>2. faults' \in 0 .. MaxFaults
    BY <1>8, RuntimeAssumption DEF DropWaits, InjectFault, TypesOK
  <2> QED
    BY <1>8, <2>1, <2>2, TypesKept DEF DropWaits, TypesOK
<1>9. CASE DropEnds(j)
  <2>1. j \in Submitted
    BY <1>9 DEF DropEnds, At, Submitted, Executed, Phases, SubmitPhases
  <2>2. active' \in Nat
    BY <1>9, <2>1, SubmittedFinite DEF DropEnds, Control
  <2>3. RestTypes'
    BY <1>9, <2>2 DEF DropEnds, TypesOK, RestTypes
  <2> QED
    BY <1>9, <2>3, ReleaseType, TypesKept DEF DropEnds
<1> QED
  BY <1>1, <1>2, <1>3, <1>4, <1>5, <1>6, <1>7, <1>8, <1>9

Pools == {ClearOrder[i] : i \in 1 .. 7}

LEMMA InPoolSubset ==
    ASSUME TypesOK, NEW p \in Pools PROVE InPool(p) \subseteq Handle
<1>1. p \in {"device", "host", "lut", "queue", "list", "kernel", "module"}
  BY DEF Pools, ClearOrder
<1>2. CachedTables \subseteq Device /\ CachedModules \subseteq Module
  BY DEF CachedTables, CachedModules, TypesOK, LutTypes, KernelTypes
<1> QED
  BY <1>1, <1>2 DEF InPool, Pooled, Handle

LEMMA EmptyType ==
    ASSUME TypesOK, NEW p \in Pools, NEW S \in SUBSET InPool(p), Empty(p, S)
    PROVE  HandleTypes' /\ LutTypes' /\ KernelTypes'
<1>1. InPool(p) \ S \in SUBSET Handle /\ S \in SUBSET Handle
  BY InPoolSubset
<1>2. /\ fresh' \subseteq Handle
      /\ content' \in [Device -> Key \cup {None}]
      /\ made' \in [Kernel -> {None} \cup [source : Source, module : Module,
                                           key : BOOLEAN]]
  BY <1>1, DestroyType DEF Empty
<1>3. HandleTypes'
  BY <1>1, <1>2 DEF Empty, TypesOK, HandleTypes
<1>4. LutTypes'
  BY <1>2 DEF Empty, TypesOK, LutTypes, NoTables
<1>5. KernelTypes'
  BY <1>2 DEF Empty, TypesOK, KernelTypes
<1> QED
  BY <1>3, <1>4, <1>5

\* What a clear has still to empty.
LEMMA ClearingHead ==
    ASSUME TypesOK, Control, call = Maint
    PROVE  /\ Head(clearing) \in Pools /\ Tail(clearing) \in Seq(Pools)
           /\ Len(clearing) = 1 <=> Tail(clearing) = <<>>
<1>1. clearing \in Seq(Pools) /\ clearing # <<>>
  BY DEF TypesOK, Control, RestTypes, Pools
<1>2. Head(clearing) \in Pools /\ Tail(clearing) \in Seq(Pools)
  BY <1>1
<1>3. Len(Tail(clearing)) = Len(clearing) - 1 /\ Len(clearing) \in Nat
  BY <1>1
<1>4. \A s \in Seq(Pools) : Len(s) = 0 <=> s = <<>>
  OBVIOUS
<1>5. Len(Tail(clearing)) = 0 <=> Tail(clearing) = <<>>
  BY <1>2, <1>4
<1>6. Len(clearing) = 1 <=> Len(Tail(clearing)) = 0
  BY <1>3
<1> QED
  BY <1>2, <1>5, <1>6, Zenon

LEMMA TypesMaintenance ==
    ASSUME TypesOK, Control,
           ClearRuntimeCaches \/ ClearPool \/ ClearPoolFails \/ DropContext
    PROVE  TypesOK'
<1>1. CASE ClearRuntimeCaches
  <2>1. CallTypes'
    BY <1>1 DEF ClearRuntimeCaches, TypesOK, CallTypes
  <2>2. ClearOrder \in Seq(Pools)
    BY DEF ClearOrder, Pools
  <2>3. RestTypes'
    BY <1>1, <2>2 DEF ClearRuntimeCaches, TypesOK, RestTypes, Pools
  <2> QED
    BY <1>1, <2>1, <2>3, TypesKept DEF ClearRuntimeCaches, TypesOK
<1>2. CASE ClearPool
  <2>1. Head(clearing) \in Pools /\ Tail(clearing) \in Seq(Pools)
    BY <1>2, ClearingHead DEF ClearPool
  <2>2. HandleTypes' /\ LutTypes' /\ KernelTypes'
    BY <1>2, <2>1, EmptyType DEF ClearPool
  <2>3. CallTypes'
    BY <1>2 DEF ClearPool, Empty, TypesOK, CallTypes
  <2>4. RestTypes'
    BY <1>2, <2>1 DEF ClearPool, Empty, TypesOK, RestTypes, Pools
  <2> QED
    BY <1>2, <2>2, <2>3, <2>4, TypesKept DEF ClearPool, Empty, TypesOK
<1>3. CASE ClearPoolFails
  <2>1. Head(clearing) \in Pools
    BY <1>3, ClearingHead DEF ClearPoolFails
  <2>2. PICK S \in SUBSET InPool(Head(clearing)) : Empty(Head(clearing), S)
    BY <1>3 DEF ClearPoolFails
  <2>3. HandleTypes' /\ LutTypes' /\ KernelTypes'
    BY <2>1, <2>2, EmptyType
  <2>4. CallTypes'
    BY <1>3, <2>2 DEF ClearPoolFails, Empty, TypesOK, CallTypes
  <2>5. RestTypes'
    BY <1>3, <2>2 DEF ClearPoolFails, Empty, TypesOK, RestTypes
  <2>6. faults' \in 0 .. MaxFaults
    BY <1>3, RuntimeAssumption DEF ClearPoolFails, InjectFault, TypesOK
  <2> QED
    BY <2>2, <2>3, <2>4, <2>5, <2>6, TypesKept DEF Empty, TypesOK
<1>4. CASE DropContext
  <2>1. ContextOwns \in SUBSET Handle
    BY DEF ContextOwns, Pooled, CachedTables, CachedModules, TypesOK, LutTypes,
       KernelTypes, Handle
  <2>2. /\ fresh' \subseteq Handle
        /\ content' \in [Device -> Key \cup {None}]
        /\ made' \in [Kernel -> {None} \cup [source : Source, module : Module,
                                             key : BOOLEAN]]
    BY <1>4, <2>1, DestroyType DEF DropContext
  <2>3. HandleTypes'
    BY <1>4, <2>2 DEF DropContext, TypesOK, HandleTypes
  <2>4. LutTypes'
    BY <1>4, <2>2 DEF DropContext, TypesOK, LutTypes, NoTables
  <2>5. KernelTypes'
    BY <1>4, <2>2 DEF DropContext, TypesOK, KernelTypes
  <2>6. RestTypes'
    BY <1>4 DEF DropContext, TypesOK, RestTypes
  <2> QED
    BY <1>4, <2>3, <2>4, <2>5, <2>6, TypesKept DEF DropContext, TypesOK
<1> QED
  BY <1>1, <1>2, <1>3, <1>4

LEMMA TypesDevice ==
    ASSUME TypesOK, NEW j \in Job, DeviceEnds(j) PROVE TypesOK'
<1>1. GpuTypes'
  BY DEF DeviceEnds, TypesOK, GpuTypes
<1>2. LutTypes'
  BY DEF DeviceEnds, TypesOK, LutTypes
<1> QED
  BY <1>1, <1>2, TypesKept DEF DeviceEnds, TypesOK

LEMMA TypesStep ==
    ASSUME TypesOK, Control, TablesHeld, [Next]_vars PROVE TypesOK'
<1>1. CASE UNCHANGED vars
  BY <1>1, TypesKept DEF vars, TypesOK
<1> QED
  BY <1>1, TypesSubmit, TypesComplete, TypesMaintenance, TypesDevice
  DEF Next, Call, Failure

LEMMA TypesInit == Init => TypesOK
<1> SUFFICES ASSUME Init PROVE TypesOK
  OBVIOUS
<1>1. CallTypes
  BY DEF Init, CallTypes, Phases
<1>2. GpuTypes
  BY DEF Init, GpuTypes
<1>3. RestTypes
  <2>1. clearing = <<>> /\ active = 0 /\ ~destroyFailed /\ alive
    BY DEF Init
  <2>2. clearing \in Seq({ClearOrder[i] : i \in 1 .. 7})
    BY <2>1
  <2>3. destroyFailed \in BOOLEAN /\ alive \in BOOLEAN
    BY Zenon DEF Init
  <2> QED
    BY <2>1, <2>2, <2>3 DEF RestTypes
<1>4. HandleTypes
  BY DEF Init, HandleTypes
<1>5. LutTypes /\ KernelTypes
  BY DEF Init, LutTypes, KernelTypes, NoTables
<1> QED
  BY <1>1, <1>2, <1>3, <1>4, <1>5, RuntimeAssumption DEF Init, TypesOK

-----------------------------------------------------------------------------
(* Control is inductive.                                                   *)

\* A step of the running ticket within submit_prepared, or within the rest
\* of its life, but for the step to the next kernel.
LEMMA ControlGoto ==
    ASSUME TypesOK, Control, NEW j \in Job, call = j,
           NEW p \in Phases \ {"idle", "pending", "kernel"}, Goto(j, p),
           p \in Executed <=> phase[j] \in Executed,
           UNCHANGED <<call, clearing, active>>
    PROVE  Control'
<1>1. Submitted' = Submitted
  BY DEF Submitted, Goto, TypesOK, CallTypes
<1>2. \A i \in Job \ {j} : phase'[i] = phase[i] /\ phase[i] \in {"idle", "pending"}
  BY DEF Goto, Control, TypesOK, CallTypes
<1>3. phase'[j] = p
  BY DEF Goto, TypesOK, CallTypes
<1> QED
  BY <1>1, <1>2, <1>3 DEF Control

\* A step of the running ticket to the state between two calls.
LEMMA ControlReturn ==
    ASSUME TypesOK, Control, NEW j \in Job, call = j, call' = None,
           NEW p \in {"idle", "pending"}, Goto(j, p), clearing' = clearing,
           active' = Cardinality(Submitted')
    PROVE  Control'
<1>1. \A i \in Job \ {j} : phase'[i] = phase[i] /\ phase[i] \in {"idle", "pending"}
  BY DEF Goto, Control, TypesOK, CallTypes
<1>2. phase'[j] = p
  BY DEF Goto, TypesOK, CallTypes
<1>3. call' # Maint /\ None \notin Job /\ call # Maint
  BY RuntimeAssumption
<1> QED
  BY <1>1, <1>2, <1>3 DEF Control

\* A step of the idle context into a method of ticket j.
LEMMA ControlCall ==
    ASSUME TypesOK, Control, NEW j \in Job, call = None, call' = j,
           NEW p \in Phases \ {"idle", "pending", "kernel"}, Goto(j, p),
           p \in Executed <=> phase[j] \in Executed,
           UNCHANGED <<clearing, active>>
    PROVE  Control'
<1>1. Submitted' = Submitted
  BY DEF Submitted, Goto, TypesOK, CallTypes
<1>2. \A i \in Job \ {j} : phase'[i] = phase[i] /\ phase[i] \in {"idle", "pending"}
  BY RuntimeAssumption DEF Goto, Control, TypesOK, CallTypes
<1>3. phase'[j] = p /\ j # Maint /\ call # Maint
  BY RuntimeAssumption DEF Goto, TypesOK, CallTypes
<1> QED
  BY <1>1, <1>2, <1>3 DEF Control

LEMMA ControlKept ==
    ASSUME Control, UNCHANGED <<call, phase, count, clearing, active>>,
           UNCHANGED module \/ call \in {Maint, None}
    PROVE  Control'
<1>1. Submitted' = Submitted
  BY DEF Submitted
<1>2. call \in {Maint, None} => \A j \in Job : phase[j] # "kernel"
  BY RuntimeAssumption DEF Control
<1> QED
  BY <1>1, <1>2 DEF Control

LEMMA ControlRelease ==
    ASSUME TypesOK, Control, NEW j \in Job, Release(j), call = j,
           phase[j] \in SubmitPhases, UNCHANGED <<clearing, active>>
    PROVE  Control'
<1>1. Submitted' = Submitted
  BY DEF Release, Submitted, Executed, Goto, TypesOK, CallTypes
<1> QED
  BY <1>1, ControlReturn DEF Release, Control

LEMMA ControlSubmit ==
    ASSUME TypesOK, Control, NEW j \in Job,
           \/ Submit(j) \/ take_queue(j) \/ create_command_list(j) \/ allocate(j)
           \/ Allocated(j) \/ create_module(j) \/ create_kernel(j)
           \/ allocate_host(j) \/ execute_command_lists(j) \/ SubmitFails(j)
    PROVE  Control'
<1>1. CASE Submit(j)
  BY <1>1, ControlCall
  DEF Submit, restVars, Executed, SubmitPhases, Phases
<1>2. CASE take_queue(j) \/ create_command_list(j) \/ Allocated(j)
           \/ create_kernel(j) \/ allocate_host(j)
  <2>1. /\ call = j /\ phase[j] \in SubmitPhases
        /\ UNCHANGED <<call, clearing, active>>
    BY <1>2 DEF take_queue, create_command_list, Allocated, create_kernel,
       allocate_host, At, SubmitPhases, restVars
  <2>2. \E p \in SubmitPhases \ {"kernel"} : Goto(j, p)
    BY <1>2 DEF take_queue, create_command_list, Allocated, create_kernel,
       allocate_host, SubmitPhases
  <2> QED
    BY <2>1, <2>2, ControlGoto DEF Executed, Phases, SubmitPhases
<1>3. CASE allocate(j)
  <2>1. /\ call = j /\ phase[j] = "alloc"
        /\ UNCHANGED <<call, phase, clearing, active>>
    BY <1>3 DEF allocate, At, restVars
  <2>2. Submitted' = Submitted
    BY <2>1 DEF Submitted
  <2>3. \A i \in Job : phase'[i] # "kernel"
    BY <2>1 DEF Control
  <2> QED
    BY <2>1, <2>2, <2>3 DEF Control
<1>4. CASE create_module(j)
  <2>1. /\ call = j /\ phase[j] = "module" /\ Goto(j, "kernel")
        /\ UNCHANGED <<call, count, clearing, active>>
        /\ count[j] < Len(Shaders[j])
    BY <1>4 DEF create_module, At, restVars
  <2>2. module' \in Module
    <3>1. Binary[NextSource(j)] \in Binaries
      BY <2>1, NextBinary
    <3>2. \/ moduleCache[Binary[NextSource(j)]] # None
             /\ module' = moduleCache[Binary[NextSource(j)]]
          \/ \E m \in Obtainable(Module) : module' = m
      BY <1>4 DEF create_module
    <3>3. moduleCache[Binary[NextSource(j)]] \in Module \cup {None}
      BY <3>1 DEF TypesOK, KernelTypes
    <3> QED
      BY <3>2, <3>3, ObtainableAvailable
  <2>3. Submitted' = Submitted
    BY <2>1 DEF Submitted, Goto, TypesOK, CallTypes, Executed, SubmitPhases
  <2>4. \A i \in Job \ {j} : phase'[i] = phase[i] /\ phase[i] \in {"idle", "pending"}
    BY <2>1 DEF Goto, Control, TypesOK, CallTypes
  <2>5. phase'[j] = "kernel"
    BY <2>1 DEF Goto, TypesOK, CallTypes
  <2> QED
    BY <2>1, <2>2, <2>3, <2>4, <2>5 DEF Control
<1>5. CASE execute_command_lists(j)
  <2>1. /\ call = j /\ phase[j] = "execute" /\ Goto(j, "pending")
        /\ call' = None /\ active' = active + 1 /\ clearing' = clearing
    BY <1>5 DEF execute_command_lists, At
  <2>2. Submitted' = Submitted \cup {j} /\ j \notin Submitted
    BY <2>1 DEF Submitted, Executed, Phases, SubmitPhases, Goto, TypesOK, CallTypes
  <2>3. Cardinality(Submitted') = Cardinality(Submitted) + 1
    BY <2>2, SubmittedFinite, FS_AddElement
  <2> QED
    BY <2>1, <2>3, ControlReturn DEF Control
<1>6. CASE SubmitFails(j)
  BY <1>6, ControlRelease DEF SubmitFails, restVars
<1> QED
  BY <1>1, <1>2, <1>3, <1>4, <1>5, <1>6

LEMMA ControlComplete ==
    ASSUME TypesOK, Control, NEW j \in Job,
           \/ Wait(j) \/ DropTicket(j) \/ synchronize(j) \/ SynchronizeFails(j)
           \/ \E k \in Key : insert_lut(j, k) \/ FreeDuplicateFails(j, k)
           \/ recycle_buffers(j) \/ recycle_command_list(j)
           \/ recycle_kernels(j) \/ recycle_queue(j) \/ DropWaits(j)
           \/ DropEnds(j)
    PROVE  Control'
<1>1. CASE Wait(j) \/ DropTicket(j)
  <2>1. /\ call = None /\ call' = j /\ phase[j] = "pending"
        /\ \E p \in {"sync", "drop"} : Goto(j, p)
        /\ UNCHANGED <<clearing, active>>
    BY <1>1 DEF Wait, DropTicket, restVars
  <2> QED
    BY <2>1, ControlCall DEF Executed, Phases, SubmitPhases
<1>2. CASE \/ synchronize(j) \/ SynchronizeFails(j)
           \/ \E k \in Key : FreeDuplicateFails(j, k)
           \/ recycle_buffers(j) \/ recycle_command_list(j)
           \/ recycle_kernels(j) \/ recycle_queue(j) \/ DropWaits(j)
  <2>1. /\ call = j
        /\ phase[j] \in {"sync", "tables", "reset", "recycle", "return",
                         "drop", "dropQueue"}
        /\ UNCHANGED <<call, clearing, active>>
    BY <1>2 DEF synchronize, SynchronizeFails, FreeDuplicateFails,
       recycle_buffers, recycle_command_list, recycle_kernels, recycle_queue,
       DropWaits, At, restVars
  <2>2. \E p \in {"tables", "drop", "reset", "recycle", "return", "free",
                 "dropQueue"} : Goto(j, p)
    BY <1>2 DEF synchronize, SynchronizeFails, FreeDuplicateFails,
       recycle_buffers, recycle_command_list, recycle_kernels, recycle_queue,
       DropWaits
  <2> QED
    BY <2>1, <2>2, ControlGoto DEF Executed, Phases, SubmitPhases
<1>3. CASE \E k \in Key : insert_lut(j, k)
  <2>1. UNCHANGED <<call, phase, count, clearing, active, module>>
    BY <1>3 DEF insert_lut, restVars
  <2> QED
    BY <2>1, ControlKept
<1>4. CASE DropEnds(j)
  <2>1. /\ call = j /\ phase[j] = "free" /\ Goto(j, "idle")
        /\ call' = None /\ active' = active - 1 /\ clearing' = clearing
    BY <1>4 DEF DropEnds, At, Release
  <2>2. Submitted' = Submitted \ {j} /\ j \in Submitted
    BY <2>1 DEF Submitted, Executed, Phases, SubmitPhases, Goto, TypesOK, CallTypes
  <2>3. Cardinality(Submitted') = Cardinality(Submitted) - 1
    BY <2>2, SubmittedFinite, FS_RemoveElement
  <2> QED
    BY <2>1, <2>3, ControlReturn DEF Control
<1> QED
  BY <1>1, <1>2, <1>3, <1>4

\* While a clear runs, and between two calls, no ticket's method does.
LEMMA ControlMaintenance ==
    ASSUME TypesOK, Control,
           ClearRuntimeCaches \/ ClearPool \/ ClearPoolFails \/ DropContext
    PROVE  Control'
<1>1. /\ call \in {None, Maint} /\ call' \in {None, Maint}
      /\ UNCHANGED <<phase, count, active>>
  BY DEF ClearRuntimeCaches, ClearPool, ClearPoolFails, DropContext, Empty
<1>2. Submitted' = Submitted
  BY <1>1 DEF Submitted
<1>3. call' = Maint <=> clearing' # <<>>
  <2>1. CASE ClearRuntimeCaches
    <3>1. ClearOrder # <<>>
      BY DEF ClearOrder
    <3> QED
      BY <2>1, <3>1 DEF ClearRuntimeCaches
  <2>2. CASE ClearPool
    <3>1. None # Maint
      BY RuntimeAssumption
    <3> QED
      BY <2>2, <3>1, ClearingHead DEF ClearPool
  <2>3. CASE ClearPoolFails
    BY <2>3, RuntimeAssumption DEF ClearPoolFails
  <2>4. CASE DropContext
    BY <2>4 DEF DropContext, Control
  <2> QED
    BY <2>1, <2>2, <2>3, <2>4
<1>4. \A j \in Job : phase[j] \in {"idle", "pending"} /\ call' # j
  BY <1>1, RuntimeAssumption DEF Control
<1> QED
  BY <1>1, <1>2, <1>3, <1>4 DEF Control

LEMMA ControlStep ==
    ASSUME TypesOK, Control, [Next]_vars PROVE Control'
<1>1. ASSUME NEW j \in Job, DeviceEnds(j) PROVE Control'
  BY <1>1, ControlKept DEF DeviceEnds, restVars, kernelVars
<1>2. CASE UNCHANGED vars
  BY <1>2, ControlKept DEF vars, restVars, kernelVars
<1> QED
  BY <1>1, <1>2, ControlSubmit, ControlComplete, ControlMaintenance
  DEF Next, Call, Failure

LEMMA ControlInit == Init => Control
<1> SUFFICES ASSUME Init PROVE Control
  OBVIOUS
<1>1. Submitted = {}
  BY DEF Init, Submitted, Executed
<1>2. None \notin Job /\ None # Maint
  BY RuntimeAssumption
<1> QED
  BY <1>1, <1>2, FS_EmptySet DEF Init, Control

-----------------------------------------------------------------------------
(* Every handle has one owner.                                             *)

Cached == CachedTables \cup CachedModules

\* Owners(h) = 1, place by place.
OneOwner(h) ==
    /\ pool[h] <= 1
    /\ h \in fresh => /\ pool[h] = 0 /\ h \notin leaked \cup Cached
                     /\ \A j \in Job : h \notin held[j]
    /\ h \in leaked => /\ pool[h] = 0 /\ h \notin Cached
                      /\ \A j \in Job : h \notin held[j]
    /\ h \in Cached => pool[h] = 0 /\ \A j \in Job : h \notin held[j]
    /\ \A j \in Job : h \in held[j] => /\ pool[h] = 0
                                      /\ \A i \in Job \ {j} : h \notin held[i]
    /\ \/ h \in fresh \cup leaked \cup Cached \/ pool[h] = 1
       \/ \E j \in Job : h \in held[j]

\* A buffer is cached for one table, and a module for one binary.
CachedOnce ==
    /\ \A k, l \in Key : lutCache[k] # None /\ lutCache[k] = lutCache[l] => k = l
    /\ \A a, b \in Binaries :
          moduleCache[a] # None /\ moduleCache[a] = moduleCache[b] => a = b

Owned == /\ \A h \in Handle : OneOwner(h)
         /\ CachedOnce
         /\ \A m \in Module : pool[m] = 0

Available(hs) == \A h \in hs : h \in fresh \/ pool[h] > 0

LEMMA OwnedKept ==
    ASSUME Owned, UNCHANGED <<handleVars, lutCache, moduleCache>>
    PROVE  Owned'
<1>1. Cached' = Cached
  BY DEF Cached, CachedTables, CachedModules
<1> QED
  BY <1>1 DEF Owned, OneOwner, CachedOnce, handleVars

LEMMA OwnedTake ==
    ASSUME TypesOK, Owned, NEW j \in Job, NEW hs \in SUBSET Handle,
           Take(j, hs), Available(hs), UNCHANGED <<lutCache, moduleCache>>
    PROVE  Owned'
<1>1. Cached' = Cached /\ CachedOnce'
  BY DEF Cached, CachedTables, CachedModules, Owned, CachedOnce
<1>2. \A m \in Module : pool'[m] = 0
  BY DEF Owned, Take, TypesOK, HandleTypes, Handle
<1> SUFFICES ASSUME NEW h \in Handle PROVE OneOwner(h)'
  BY <1>1, <1>2 DEF Owned
<1>3. OneOwner(h) /\ pool[h] \in Nat
  BY DEF Owned, TypesOK, HandleTypes
<1>4. CASE h \in hs
  BY <1>1, <1>3, <1>4 DEF OneOwner, Take, TypesOK, HandleTypes, Available
<1>5. CASE h \notin hs
  BY <1>1, <1>3, <1>5 DEF OneOwner, Take, TypesOK, HandleTypes
<1> QED
  BY <1>4, <1>5

LEMMA OwnedRecycle ==
    ASSUME TypesOK, Owned, NEW j \in Job, NEW hs \in SUBSET held[j],
           hs \cap Module = {}, Recycle(j, hs),
           UNCHANGED <<lutCache, moduleCache>>
    PROVE  Owned'
<1>1. Cached' = Cached /\ CachedOnce'
  BY DEF Cached, CachedTables, CachedModules, Owned, CachedOnce
<1>2. \A m \in Module : pool'[m] = 0
  BY DEF Owned, Recycle, TypesOK, HandleTypes, Handle
<1> SUFFICES ASSUME NEW h \in Handle PROVE OneOwner(h)'
  BY <1>1, <1>2 DEF Owned
<1>3. OneOwner(h) /\ pool[h] \in Nat
  BY DEF Owned, TypesOK, HandleTypes
<1>4. CASE h \in hs
  BY <1>1, <1>3, <1>4 DEF OneOwner, Recycle, TypesOK, HandleTypes
<1>5. CASE h \notin hs
  BY <1>1, <1>3, <1>5 DEF OneOwner, Recycle, TypesOK, HandleTypes
<1> QED
  BY <1>4, <1>5

LEMMA OwnedForget ==
    ASSUME TypesOK, Owned, NEW j \in Job, NEW hs \in SUBSET held[j],
           Forget(j, hs), UNCHANGED <<lutCache, moduleCache>>
    PROVE  Owned'
<1>1. Cached' = Cached /\ CachedOnce'
  BY DEF Cached, CachedTables, CachedModules, Owned, CachedOnce
<1>2. \A m \in Module : pool'[m] = 0
  BY DEF Owned, Forget
<1> SUFFICES ASSUME NEW h \in Handle PROVE OneOwner(h)'
  BY <1>1, <1>2 DEF Owned
<1>3. OneOwner(h)
  BY DEF Owned
<1>4. CASE h \in hs
  BY <1>1, <1>3, <1>4 DEF OneOwner, Forget, TypesOK, HandleTypes
<1>5. CASE h \notin hs
  BY <1>1, <1>3, <1>5 DEF OneOwner, Forget, TypesOK, HandleTypes
<1> QED
  BY <1>4, <1>5

\* Handles that a ticket owns are destroyed.
LEMMA OwnedDestroy ==
    ASSUME TypesOK, Owned, NEW j \in Job, NEW hs \in SUBSET held[j],
           fresh' = fresh \cup hs, held' = [held EXCEPT ![j] = @ \ hs],
           UNCHANGED <<pool, leaked, lutCache, moduleCache>>
    PROVE  Owned'
<1>1. Cached' = Cached /\ CachedOnce'
  BY DEF Cached, CachedTables, CachedModules, Owned, CachedOnce
<1> SUFFICES ASSUME NEW h \in Handle PROVE OneOwner(h)'
  BY <1>1 DEF Owned
<1>3. OneOwner(h)
  BY DEF Owned
<1>4. CASE h \in hs
  BY <1>1, <1>3, <1>4 DEF OneOwner, TypesOK, HandleTypes
<1>5. CASE h \notin hs
  BY <1>1, <1>3, <1>5 DEF OneOwner, TypesOK, HandleTypes
<1> QED
  BY <1>4, <1>5

LEMMA OwnedRelease ==
    ASSUME TypesOK, Owned, NEW j \in Job, Release(j)
    PROVE  Owned'
<1>1. held' = [held EXCEPT ![j] = @ \ held[j]]
  BY DEF Release, TypesOK, HandleTypes
<1> QED
  BY <1>1, OwnedDestroy DEF Release, Destroy

\* A table of a ticket enters the cache.
LEMMA OwnedCacheTable ==
    ASSUME TypesOK, Owned, NEW j \in Job, NEW k \in Key, lutCache[k] = None,
           NEW d \in held[j] \cap Device,
           held' = [held EXCEPT ![j] = @ \ {d}],
           lutCache' = [lutCache EXCEPT ![k] = d],
           UNCHANGED <<fresh, pool, leaked, moduleCache>>
    PROVE  Owned'
<1>0. d # None /\ d \in Handle
  BY RuntimeAssumption DEF Handle
<1>1. Cached' = Cached \cup {d}
  <2>1. CachedTables' = CachedTables \cup {d}
    BY <1>0 DEF CachedTables, TypesOK, LutTypes
  <2> QED
    BY <2>1 DEF Cached, CachedModules
<1>2. CachedOnce'
  <2>1. d \notin Cached
    BY <1>0 DEF Owned, OneOwner
  <2>2. \A l \in Key : lutCache[l] # d
    BY <1>0, <2>1 DEF Cached, CachedTables
  <2>3. /\ lutCache'[k] = d
        /\ \A l \in Key \ {k} : lutCache'[l] = lutCache[l]
    BY DEF TypesOK, LutTypes
  <2> QED
    BY <2>2, <2>3 DEF CachedOnce, Owned
<1> SUFFICES ASSUME NEW h \in Handle PROVE OneOwner(h)'
  BY <1>2 DEF Owned
<1>3. OneOwner(h)
  BY DEF Owned
<1>4. CASE h = d
  BY <1>1, <1>3, <1>4 DEF OneOwner, TypesOK, HandleTypes
<1>5. CASE h # d
  BY <1>1, <1>3, <1>5 DEF OneOwner, TypesOK, HandleTypes
<1> QED
  BY <1>4, <1>5

\* A module is created and cached.
LEMMA OwnedCacheModule ==
    ASSUME TypesOK, Owned, NEW b \in Binaries, moduleCache[b] = None,
           NEW m \in Module \cap fresh,
           moduleCache' = [moduleCache EXCEPT ![b] = m],
           fresh' = fresh \ {m}, UNCHANGED <<pool, held, leaked, lutCache>>
    PROVE  Owned'
<1>0. m # None /\ m \in Handle
  BY RuntimeAssumption DEF Handle
<1>1. Cached' = Cached \cup {m}
  <2>1. CachedModules' = CachedModules \cup {m}
    BY <1>0 DEF CachedModules, TypesOK, KernelTypes
  <2> QED
    BY <2>1 DEF Cached, CachedTables
<1>2. CachedOnce'
  <2>1. m \notin Cached
    BY <1>0 DEF Owned, OneOwner
  <2>2. \A a \in Binaries : moduleCache[a] # m
    BY <1>0, <2>1 DEF Cached, CachedModules
  <2>3. /\ moduleCache'[b] = m
        /\ \A a \in Binaries \ {b} : moduleCache'[a] = moduleCache[a]
    BY DEF TypesOK, KernelTypes
  <2> QED
    BY <2>2, <2>3 DEF CachedOnce, Owned
<1> SUFFICES ASSUME NEW h \in Handle PROVE OneOwner(h)'
  BY <1>2 DEF Owned
<1>3. OneOwner(h)
  BY DEF Owned
<1>4. CASE h = m
  BY <1>1, <1>3, <1>4 DEF OneOwner
<1>5. CASE h # m
  BY <1>1, <1>3, <1>5 DEF OneOwner
<1> QED
  BY <1>4, <1>5

\* A pool is emptied.
LEMMA OwnedEmpty ==
    ASSUME TypesOK, Owned, NEW p \in Pools, NEW S \in SUBSET InPool(p),
           Empty(p, S)
    PROVE  Owned'
<1>1. p \in {"device", "host", "lut", "queue", "list", "kernel", "module"}
  BY DEF Pools, ClearOrder
<1>2. CachedTables \cap CachedModules = {}
  BY RuntimeAssumption
  DEF CachedTables, CachedModules, TypesOK, LutTypes, KernelTypes
<1>3. /\ Cached' \subseteq Cached
      /\ Cached \ InPool(p) \subseteq Cached'
      /\ Cached' \cap InPool(p) \subseteq {h \in Handle : pool[h] > 0}
  <2>1. CASE p = "lut"
    <3>1. CachedTables' = {} /\ CachedModules' = CachedModules /\ InPool(p) = CachedTables
      BY <2>1 DEF Empty, CachedTables, CachedModules, NoTables, InPool
    <3> QED
      BY <1>2, <3>1 DEF Cached
  <2>2. CASE p = "module"
    <3>1. CachedModules' = {} /\ CachedTables' = CachedTables /\ InPool(p) = CachedModules
      BY <2>2 DEF Empty, CachedTables, CachedModules, NoTables, InPool
    <3> QED
      BY <1>2, <3>1 DEF Cached
  <2>3. CASE p \notin {"lut", "module"}
    <3>1. CachedModules' = CachedModules /\ CachedTables' = CachedTables
      BY <2>3 DEF Empty, CachedTables, CachedModules
    <3>2. InPool(p) \subseteq {h \in Handle : pool[h] > 0}
      BY <1>1, <2>3 DEF InPool, Pooled, Handle
    <3> QED
      BY <3>1, <3>2 DEF Cached
  <2> QED
    BY <2>1, <2>2, <2>3
<1>4. CachedOnce'
  BY DEF Empty, CachedOnce, Owned, NoTables
<1>5. \A h \in InPool(p) : h \in Handle /\ (pool[h] > 0 \/ h \in Cached)
  BY <1>1, InPoolSubset DEF InPool, Pooled, Cached
<1>6. \A m \in Module : pool'[m] = 0
  BY DEF Owned, Empty, Handle
<1> SUFFICES ASSUME NEW h \in Handle PROVE OneOwner(h)'
  BY <1>4, <1>6 DEF Owned
<1>7. OneOwner(h) /\ pool[h] \in Nat
  BY DEF Owned, TypesOK, HandleTypes
<1>8. /\ fresh' = fresh \cup (InPool(p) \ S) /\ leaked' = leaked \cup S
      /\ pool'[h] = IF h \in InPool(p) THEN 0 ELSE pool[h]
      /\ held' = held
  BY DEF Empty, Destroy
<1>9. CASE h \in InPool(p)
  BY <1>3, <1>5, <1>7, <1>8, <1>9 DEF OneOwner
<1>10. CASE h \notin InPool(p)
  BY <1>3, <1>7, <1>8, <1>10 DEF OneOwner
<1> QED
  BY <1>9, <1>10

LEMMA OwnedSubmit ==
    ASSUME TypesOK, Control, Owned, NEW j \in Job,
           \/ Submit(j) \/ take_queue(j) \/ create_command_list(j) \/ allocate(j)
           \/ Allocated(j) \/ create_module(j) \/ create_kernel(j)
           \/ allocate_host(j) \/ execute_command_lists(j) \/ SubmitFails(j)
    PROVE  Owned'
<1>0. ASSUME NEW h \in Handle, Take(j, {h}), Available({h}),
             UNCHANGED <<lutCache, moduleCache>>
      PROVE  Owned'
  BY <1>0, OwnedTake
<1>1. CASE Submit(j) \/ Allocated(j) \/ execute_command_lists(j)
  BY <1>1, OwnedKept
  DEF Submit, Allocated, execute_command_lists, lutVars, kernelVars
<1>2. CASE take_queue(j) \/ create_command_list(j)
  <2>1. PICK h \in Obtainable(Queue) \cup Obtainable(List) : Take(j, {h})
    BY <1>2 DEF take_queue, create_command_list
  <2>2. h \in Handle /\ Available({h})
    BY ObtainableAvailable DEF Handle, Available
  <2> QED
    BY <1>0, <1>2, <2>1, <2>2
    DEF take_queue, create_command_list, lutVars, kernelVars
<1>3. CASE allocate(j)
  <2>1. UNCHANGED <<lutCache, moduleCache>>
    BY <1>3, AllocateCases DEF allocate, kernelVars
  <2>2. \/ UNCHANGED handleVars
        \/ \E hs \in SUBSET Handle : Take(j, hs) /\ Available(hs)
    BY <1>3, AllocateCases DEF Available, Handle
  <2> QED
    BY <2>1, <2>2, OwnedKept, OwnedTake
<1>4. CASE create_module(j)
  <2> DEFINE b == Binary[NextSource(j)]
  <2>1. b \in Binaries
    BY <1>4, NextBinary DEF create_module
  <2>2. UNCHANGED lutCache
    BY <1>4 DEF create_module, lutVars
  <2>3. CASE UNCHANGED <<moduleCache, handleVars>>
    BY <2>2, <2>3, OwnedKept
  <2>4. ASSUME NEW m \in Obtainable(Module), moduleCache[b] = None,
               \/ /\ moduleCache' = [moduleCache EXCEPT ![b] = m]
                  /\ fresh' = fresh \ {m}
                  /\ UNCHANGED <<pool, held, leaked>>
               \/ Take(j, {m}) /\ UNCHANGED moduleCache
        PROVE  Owned'
    <3> HIDE DEF b
    <3>1. m \in Module /\ m \in Handle /\ m \in fresh
      BY ObtainableAvailable DEF Handle, Owned
    <3> QED
      BY <1>0, <2>1, <2>2, <2>4, <3>1, OwnedCacheModule DEF Available
  <2> QED
    BY <1>4, <2>3, <2>4 DEF create_module
<1>5. CASE create_kernel(j)
  <2>1. PICK k \in ObtainableKernels(module, NextSource(j)) : Take(j, {k})
    BY <1>5 DEF create_kernel
  <2>2. k \in Handle /\ Available({k})
    BY ObtainableKernel DEF Handle, Available
  <2> QED
    BY <1>0, <1>5, <2>1, <2>2 DEF create_kernel, lutVars
<1>6. CASE allocate_host(j)
  <2>1. UNCHANGED handleVars \/ \E h \in Obtainable(Host) : Take(j, {h})
    BY <1>6 DEF allocate_host
  <2>2. \A h \in Obtainable(Host) : h \in Handle /\ Available({h})
    BY ObtainableAvailable DEF Handle, Available
  <2>3. UNCHANGED <<lutCache, moduleCache>>
    BY <1>6 DEF allocate_host, lutVars, kernelVars
  <2> QED
    BY <1>0, <2>1, <2>2, <2>3, OwnedKept
<1>7. CASE SubmitFails(j)
  BY <1>7, OwnedRelease DEF SubmitFails
<1> QED
  BY <1>1, <1>2, <1>3, <1>4, <1>5, <1>6, <1>7

LEMMA OwnedComplete ==
    ASSUME TypesOK, Control, Owned, TablesHeld, NEW j \in Job,
           \/ Wait(j) \/ DropTicket(j) \/ synchronize(j) \/ SynchronizeFails(j)
           \/ \E k \in Key : insert_lut(j, k) \/ FreeDuplicateFails(j, k)
           \/ recycle_buffers(j) \/ recycle_command_list(j)
           \/ recycle_kernels(j) \/ recycle_queue(j) \/ DropWaits(j)
           \/ DropEnds(j)
    PROVE  Owned'
<1>1. CASE \/ Wait(j) \/ DropTicket(j) \/ synchronize(j) \/ SynchronizeFails(j)
           \/ DropWaits(j)
  BY <1>1, OwnedKept DEF Wait, DropTicket, synchronize, SynchronizeFails,
     DropWaits, lutVars, kernelVars
<1>2. ASSUME NEW k \in Key, insert_lut(j, k) PROVE Owned'
  <2> DEFINE d == tables[j][k]
  <2>1. d \in held[j] \cap Device
    BY <1>2 DEF insert_lut, TablesHeld, TablesOf
  <2>2. CASE lutCache[k] = None
    BY <1>2, <2>1, <2>2, OwnedCacheTable DEF insert_lut
  <2>3. CASE lutCache[k] # None
    <3>1. /\ fresh' = fresh \cup {d} /\ held' = [held EXCEPT ![j] = @ \ {d}]
          /\ UNCHANGED <<pool, leaked, lutCache, moduleCache>>
      BY <1>2, <2>3 DEF insert_lut, Destroy
    <3> HIDE DEF d
    <3>2. {d} \in SUBSET held[j]
      BY <2>1
    <3> QED
      BY <3>1, <3>2, OwnedDestroy
  <2> QED
    BY <2>2, <2>3
<1>3. ASSUME NEW k \in Key, FreeDuplicateFails(j, k) PROVE Owned'
  <2>1. {tables[j][k]} \in SUBSET held[j]
    BY <1>3 DEF FreeDuplicateFails, TablesHeld, TablesOf
  <2> QED
    BY <1>3, <2>1, OwnedForget DEF FreeDuplicateFails, kernelVars
<1>4. CASE recycle_buffers(j) \/ recycle_queue(j)
  <2>1. \E S \in {Device \cup Host, Queue} : Recycle(j, held[j] \cap S)
    BY <1>4 DEF recycle_buffers, recycle_queue
  <2>2. \A S \in {Device \cup Host, Queue} : held[j] \cap S \cap Module = {}
    BY RuntimeAssumption
  <2> QED
    BY <1>4, <2>1, <2>2, OwnedRecycle
    DEF recycle_buffers, recycle_queue, lutVars, kernelVars
<1>5. CASE recycle_command_list(j)
  <2>1. held[j] \cap List \cap Module = {}
    BY RuntimeAssumption
  <2> QED
    BY <1>5, <2>1, OwnedRecycle, OwnedKept
    DEF recycle_command_list, lutVars, kernelVars
<1>6. CASE recycle_kernels(j)
  <2>1. \/ \E S \in SUBSET (held[j] \cap Kernel) : Recycle(j, S) \/ Forget(j, S)
        \/ UNCHANGED handleVars
    BY <1>6 DEF recycle_kernels
  <2>2. \A S \in SUBSET (held[j] \cap Kernel) : S \cap Module = {}
    BY RuntimeAssumption
  <2> QED
    BY <1>6, <2>1, <2>2, OwnedRecycle, OwnedForget, OwnedKept
    DEF recycle_kernels, lutVars, kernelVars
<1>7. CASE DropEnds(j)
  BY <1>7, OwnedRelease DEF DropEnds
<1> QED
  BY <1>1, <1>2, <1>3, <1>4, <1>5, <1>6, <1>7

LEMMA OwnedMaintenance ==
    ASSUME TypesOK, Control, Owned,
           ClearRuntimeCaches \/ ClearPool \/ ClearPoolFails \/ DropContext
    PROVE  Owned'
<1>1. CASE ClearRuntimeCaches
  BY <1>1, OwnedKept DEF ClearRuntimeCaches, lutVars, kernelVars
<1>2. CASE ClearPool
  BY <1>2, ClearingHead, OwnedEmpty DEF ClearPool
<1>3. CASE ClearPoolFails
  <2>1. PICK S \in SUBSET InPool(Head(clearing)) : Empty(Head(clearing), S)
    BY <1>3 DEF ClearPoolFails
  <2> QED
    BY <1>3, <2>1, ClearingHead, OwnedEmpty DEF ClearPoolFails
<1>4. CASE DropContext
  <2>1. /\ fresh' = fresh \cup ContextOwns /\ pool' = [h \in Handle |-> 0]
        /\ UNCHANGED <<held, leaked>>
    BY <1>4 DEF DropContext, Destroy
  <2>2. Cached' = {}
    BY <1>4 DEF DropContext, Cached, CachedTables, CachedModules, NoTables
  <2>3. CachedOnce'
    BY <1>4 DEF DropContext, CachedOnce, NoTables
  <2>4. \A m \in Module : pool'[m] = 0
    BY <2>1 DEF Handle
  <2> SUFFICES ASSUME NEW h \in Handle PROVE OneOwner(h)'
    BY <2>3, <2>4 DEF Owned
  <2>5. OneOwner(h) /\ pool[h] \in Nat
    BY DEF Owned, TypesOK, HandleTypes
  <2>6. h \in ContextOwns <=> pool[h] > 0 \/ h \in Cached
    BY DEF ContextOwns, Pooled, Cached
  <2> QED
    BY <2>1, <2>2, <2>5, <2>6 DEF OneOwner
<1> QED
  BY <1>1, <1>2, <1>3, <1>4

LEMMA OwnedStep ==
    ASSUME TypesOK, Control, Owned, TablesHeld, [Next]_vars PROVE Owned'
<1>1. ASSUME NEW j \in Job, DeviceEnds(j) PROVE Owned'
  BY <1>1, OwnedKept DEF DeviceEnds, kernelVars
<1>2. CASE UNCHANGED vars
  BY <1>2, OwnedKept DEF vars, handleVars, lutVars, kernelVars
<1> QED
  BY <1>1, <1>2, OwnedSubmit, OwnedComplete, OwnedMaintenance
  DEF Next, Call, Failure

LEMMA OwnedInit == Init => Owned
<1> SUFFICES ASSUME Init PROVE Owned
  OBVIOUS
<1>1. Cached = {} /\ CachedOnce
  BY DEF Init, Cached, CachedTables, CachedModules, CachedOnce, NoTables
<1>2. \A m \in Module : pool[m] = 0
  <2>1. PICK qs \in {{}, {CHOOSE q \in Queue : TRUE}} :
          /\ fresh = Handle \ qs
          /\ pool = [h \in Handle |-> IF h \in qs THEN 1 ELSE 0]
    BY DEF Init
  <2>2. Queue # {} => (CHOOSE q \in Queue : TRUE) \in Queue
    OBVIOUS
  <2> QED
    BY <2>1, <2>2, RuntimeAssumption DEF Handle
<1> QED
  BY <1>1, <1>2 DEF Init, Owned, OneOwner

-----------------------------------------------------------------------------
(* A ticket's tables and its command list.                                 *)

\* A ticket owns one command list, from the moment it took it.
ListOf(j) ==
    /\ phase[j] \in {"idle", "queue", "list"} => held[j] \cap List = {}
    /\ \A l, m \in held[j] \cap List : l = m

OneList == \A j \in Job : ListOf(j)

\* What a step of j leaves alone of every other ticket.
OthersAlone(j) ==
    \A i \in Job \ {j} : /\ phase'[i] = phase[i] /\ held'[i] = held[i]
                         /\ tables'[i] = tables[i] /\ pending'[i] = pending[i]

LEMMA OthersTables ==
    ASSUME Control, TablesHeld, OneList, NEW j \in Job, call \in {j, None},
           OthersAlone(j), TablesOf(j)', ListOf(j)'
    PROVE  TablesHeld' /\ OneList'
<1> SUFFICES ASSUME NEW i \in Job PROVE TablesOf(i)' /\ ListOf(i)'
  BY DEF TablesHeld, OneList
<1>1. CASE i = j
  BY <1>1
<1>2. CASE i # j
  <2>1. phase[i] \in {"idle", "pending"}
    BY <1>2, RuntimeAssumption DEF Control
  <2> QED
    BY <1>2, <2>1 DEF OthersAlone, TablesHeld, TablesOf, OneList, ListOf
<1> QED
  BY <1>1, <1>2

LEMMA TakeLocal ==
    ASSUME TypesOK, NEW j \in Job, NEW hs, Take(j, hs)
    PROVE  /\ held'[j] = held[j] \cup hs
           /\ \A i \in Job \ {j} : held'[i] = held[i]
  BY DEF Take, TypesOK, HandleTypes

LEMMA RecycleLocal ==
    ASSUME TypesOK, NEW j \in Job, NEW hs, Recycle(j, hs) \/ Forget(j, hs)
    PROVE  /\ held'[j] = held[j] \ hs
           /\ \A i \in Job \ {j} : held'[i] = held[i]
  BY DEF Recycle, Forget, TypesOK, HandleTypes

LEMMA GotoLocal ==
    ASSUME TypesOK, NEW j \in Job, NEW p, Goto(j, p)
    PROVE  /\ phase'[j] = p
           /\ \A i \in Job \ {j} : phase'[i] = phase[i]
  BY DEF Goto, TypesOK, CallTypes

LEMMA TablesRelease ==
    ASSUME TypesOK, Control, TablesHeld, OneList, NEW j \in Job, call = j,
           Release(j)
    PROVE  TablesHeld' /\ OneList'
<1>1. phase'[j] = "idle" /\ held'[j] = {} /\ pending'[j] = {}
  BY GotoLocal DEF Release, TypesOK, HandleTypes, LutTypes
<1>2. OthersAlone(j)
  BY GotoLocal DEF Release, OthersAlone, TypesOK, HandleTypes, LutTypes
<1> QED
  BY <1>1, <1>2, OthersTables DEF TablesOf, ListOf

\* A step that moves j on, past the allocations.
LEMMA TablesGoto ==
    ASSUME TypesOK, Control, TablesHeld, OneList, NEW j \in Job,
           call \in {j, None}, NEW p \in Phases \ {"idle", "queue", "list", "alloc"},
           Goto(j, p), UNCHANGED <<tables, pending, lutCache, held>>
    PROVE  TablesHeld' /\ OneList'
<1>1. TablesOf(j)' /\ ListOf(j)'
  BY GotoLocal DEF TablesHeld, TablesOf, OneList, ListOf
<1>2. OthersAlone(j)
  BY GotoLocal DEF OthersAlone
<1> QED
  BY <1>1, <1>2, OthersTables

\* A step in which j takes something that is not a command list.
LEMMA TablesTake ==
    ASSUME TypesOK, Control, TablesHeld, OneList, NEW j \in Job, call = j,
           NEW h \in Handle \ List, Take(j, {h}),
           NEW p \in Phases \ {"idle", "queue", "alloc"}, Goto(j, p),
           p = "list" => phase[j] = "queue",
           UNCHANGED <<tables, pending, lutCache>>
    PROVE  TablesHeld' /\ OneList'
<1>1. TablesOf(j)' /\ ListOf(j)'
  BY GotoLocal, TakeLocal DEF TablesHeld, TablesOf, OneList, ListOf
<1>2. OthersAlone(j)
  BY GotoLocal, TakeLocal DEF OthersAlone
<1> QED
  BY <1>1, <1>2, OthersTables

LEMMA TablesAllocate ==
    ASSUME TypesOK, Control, Owned, TablesHeld, OneList, NEW j \in Job,
           allocate(j)
    PROVE  TablesHeld' /\ OneList'
<1>1. call = j /\ phase[j] = "alloc" /\ UNCHANGED phase
  BY DEF allocate, At
<1>2. PICK e \in Key \cup {"host", "device"} :
             \/ /\ e \in Key /\ lutCache[e] # None
                /\ tables' = [tables EXCEPT ![j][e] = lutCache[e]]
                /\ UNCHANGED <<handleVars, pending, lutCache, content>>
             \/ /\ e \in Key => lutCache[e] = None
                /\ UNCHANGED lutCache
                /\ \E d \in Device, hs \in SUBSET (Device \cup Host) :
                      /\ d \in hs /\ Take(j, hs)
                      /\ \A h \in hs : h \in fresh \/ pool[h] > 0
                      /\ content' = [content EXCEPT ![d] = None]
                      /\ \/ /\ e \in Key
                            /\ tables' = [tables EXCEPT ![j][e] = d]
                            /\ pending' = [pending EXCEPT ![j] = @ \cup {e}]
                         \/ UNCHANGED <<tables, pending>>
  BY AllocateCases
<1>3. CASE /\ e \in Key /\ lutCache[e] # None
           /\ tables' = [tables EXCEPT ![j][e] = lutCache[e]]
           /\ UNCHANGED <<handleVars, pending, lutCache, content>>
  <2>1. /\ \A k \in Key \ {e} : tables'[j][k] = tables[j][k]
        /\ \A i \in Job \ {j} : tables'[i] = tables[i]
    BY <1>3 DEF TypesOK, LutTypes
  <2>2. e \notin pending[j]
    BY <1>1, <1>3 DEF TablesHeld, TablesOf
  <2>3. pending[j] \subseteq Key \ {e}
    BY <2>2 DEF TypesOK, LutTypes
  <2>4. TablesOf(j)' /\ ListOf(j)'
    BY <1>1, <1>3, <2>1, <2>3
    DEF TablesHeld, TablesOf, OneList, ListOf, handleVars
  <2>5. OthersAlone(j)
    BY <1>1, <1>3, <2>1 DEF OthersAlone, handleVars
  <2> QED
    BY <1>1, <2>4, <2>5, OthersTables
<1>4. ASSUME NEW d \in Device, NEW hs \in SUBSET (Device \cup Host),
             e \in Key => lutCache[e] = None, UNCHANGED lutCache,
             d \in hs, Take(j, hs),
             \A h \in hs : h \in fresh \/ pool[h] > 0,
             \/ /\ e \in Key
                /\ tables' = [tables EXCEPT ![j][e] = d]
                /\ pending' = [pending EXCEPT ![j] = @ \cup {e}]
             \/ UNCHANGED <<tables, pending>>
      PROVE  TablesHeld' /\ OneList'
  <2>1. /\ held'[j] = held[j] \cup hs
        /\ \A i \in Job \ {j} : held'[i] = held[i]
    BY <1>4, TakeLocal
  <2>2. d \notin held[j]
    BY <1>4 DEF Owned, OneOwner, Handle
  <2>3. hs \cap List = {}
    BY RuntimeAssumption
  <2>4. ListOf(j)'
    BY <1>1, <2>1, <2>3 DEF OneList, ListOf
  <2>5. CASE UNCHANGED <<tables, pending>>
    <3>1. TablesOf(j)'
      BY <1>1, <1>4, <2>1, <2>5 DEF TablesHeld, TablesOf
    <3>2. OthersAlone(j)
      BY <1>1, <2>1, <2>5 DEF OthersAlone
    <3> QED
      BY <1>1, <2>4, <3>1, <3>2, OthersTables
  <2>6. CASE /\ e \in Key
             /\ tables' = [tables EXCEPT ![j][e] = d]
             /\ pending' = [pending EXCEPT ![j] = @ \cup {e}]
    <3>1. /\ \A k \in Key \ {e} : tables'[j][k] = tables[j][k]
          /\ tables'[j][e] = d /\ pending'[j] = pending[j] \cup {e}
          /\ \A i \in Job \ {j} : tables'[i] = tables[i] /\ pending'[i] = pending[i]
      BY <2>6 DEF TypesOK, LutTypes
    <3>2. pending[j] \subseteq Key
      BY DEF TypesOK, LutTypes
    <3>3. \A k \in pending[j] : tables[j][k] \in held[j] \cap Device /\ tables[j][k] # d
      BY <2>2 DEF TablesHeld, TablesOf
    <3>4. \A k \in pending'[j] : tables'[j][k] \in held'[j] \cap Device
      BY <1>4, <2>1, <3>1, <3>2, <3>3
    <3>5. \A k, l \in pending'[j] : tables'[j][k] = tables'[j][l] => k = l
      <4>1. \A k, l \in pending[j] : tables[j][k] = tables[j][l] => k = l
        BY DEF TablesHeld, TablesOf
      <4> QED
        BY <3>1, <3>2, <3>3, <4>1
    <3>6. \A k \in pending'[j] : lutCache'[k] = None
      BY <1>1, <1>4, <2>6, <3>1 DEF TablesHeld, TablesOf
    <3>7. TablesOf(j)'
      BY <1>1, <3>4, <3>5, <3>6 DEF TablesOf
    <3>8. OthersAlone(j)
      BY <1>1, <2>1, <3>1 DEF OthersAlone
    <3> QED
      BY <1>1, <2>4, <3>7, <3>8, OthersTables
  <2> QED
    BY <1>4, <2>5, <2>6
<1> QED
  BY <1>2, <1>3, <1>4

LEMMA TablesSubmit ==
    ASSUME TypesOK, Control, Owned, TablesHeld, OneList, NEW j \in Job,
           \/ Submit(j) \/ take_queue(j) \/ create_command_list(j) \/ allocate(j)
           \/ Allocated(j) \/ create_module(j) \/ create_kernel(j)
           \/ allocate_host(j) \/ execute_command_lists(j) \/ SubmitFails(j)
    PROVE  TablesHeld' /\ OneList'
<1>1. CASE Submit(j)
  <2>1. /\ call = None /\ phase[j] = "idle" /\ Goto(j, "queue")
        /\ UNCHANGED <<tables, pending, held>>
    BY <1>1 DEF Submit, lutVars, handleVars
  <2>2. TablesOf(j)' /\ ListOf(j)'
    BY <2>1, GotoLocal DEF TablesHeld, TablesOf, OneList, ListOf
  <2>3. OthersAlone(j)
    BY <2>1, GotoLocal DEF OthersAlone
  <2> QED
    BY <2>1, <2>2, <2>3, OthersTables
<1>2. CASE take_queue(j)
  <2>1. PICK q \in Obtainable(Queue) : Take(j, {q})
    BY <1>2 DEF take_queue
  <2>2. q \in Handle \ List
    BY ObtainableAvailable, RuntimeAssumption DEF Handle
  <2>3. /\ call = j /\ phase[j] = "queue" /\ Goto(j, "list")
        /\ UNCHANGED <<tables, pending, lutCache>>
    BY <1>2 DEF take_queue, At, lutVars
  <2> QED
    BY <2>1, <2>2, <2>3, TablesTake DEF Phases, SubmitPhases
<1>3. CASE create_command_list(j)
  <2>1. PICK l \in Obtainable(List) : Take(j, {l})
    BY <1>3 DEF create_command_list
  <2>2. /\ call = j /\ phase[j] = "list" /\ Goto(j, "alloc")
        /\ UNCHANGED <<tables, pending, lutCache>>
    BY <1>3 DEF create_command_list, At, lutVars
  <2>3. TablesOf(j)' /\ ListOf(j)'
    BY <2>1, <2>2, GotoLocal, TakeLocal DEF TablesHeld, TablesOf, OneList, ListOf
  <2>4. OthersAlone(j)
    BY <2>1, <2>2, GotoLocal, TakeLocal DEF OthersAlone
  <2> QED
    BY <2>2, <2>3, <2>4, OthersTables
<1>4. CASE allocate(j)
  BY <1>4, TablesAllocate
<1>5. CASE Allocated(j) \/ execute_command_lists(j)
  BY <1>5, TablesGoto DEF Allocated, execute_command_lists, At, lutVars,
     handleVars, Phases, SubmitPhases
<1>6. CASE create_module(j)
  <2>1. /\ call = j /\ phase[j] = "module" /\ Goto(j, "kernel")
        /\ UNCHANGED <<tables, pending, lutCache>>
    BY <1>6 DEF create_module, At, lutVars
  <2>2. UNCHANGED held \/ \E m \in Obtainable(Module) : Take(j, {m})
    BY <1>6 DEF create_module, handleVars
  <2>3. \A m \in Obtainable(Module) : m \in Handle \ List
    BY ObtainableAvailable, RuntimeAssumption DEF Handle
  <2> QED
    BY <2>1, <2>2, <2>3, TablesTake, TablesGoto DEF Phases, SubmitPhases
<1>7. CASE create_kernel(j)
  <2>1. PICK k \in ObtainableKernels(module, NextSource(j)) : Take(j, {k})
    BY <1>7 DEF create_kernel
  <2>2. k \in Handle \ List
    BY ObtainableKernel, RuntimeAssumption DEF Handle
  <2>3. /\ call = j /\ phase[j] = "kernel" /\ Goto(j, "module")
        /\ UNCHANGED <<tables, pending, lutCache>>
    BY <1>7 DEF create_kernel, At, lutVars
  <2> QED
    BY <2>1, <2>2, <2>3, TablesTake DEF Phases, SubmitPhases
<1>8. CASE allocate_host(j)
  <2>1. UNCHANGED held \/ \E h \in Obtainable(Host) : Take(j, {h})
    BY <1>8 DEF allocate_host, handleVars
  <2>2. \A h \in Obtainable(Host) : h \in Handle \ List
    BY ObtainableAvailable, RuntimeAssumption DEF Handle
  <2>3. /\ call = j /\ phase[j] = "module" /\ Goto(j, "execute")
        /\ UNCHANGED <<tables, pending, lutCache>>
    BY <1>8 DEF allocate_host, At, lutVars
  <2> QED
    BY <2>1, <2>2, <2>3, TablesTake, TablesGoto DEF Phases, SubmitPhases
<1>9. CASE SubmitFails(j)
  BY <1>9, TablesRelease DEF SubmitFails
<1> QED
  BY <1>1, <1>2, <1>3, <1>4, <1>5, <1>6, <1>7, <1>8, <1>9

\* A step of j that gives up handles, none of which holds a table it uploads.
LEMMA TablesGiveUp ==
    ASSUME TypesOK, Control, TablesHeld, OneList, NEW j \in Job, call = j,
           NEW hs, hs \cap Device = {} \/ pending[j] = {},
           Recycle(j, hs) \/ Forget(j, hs),
           NEW p \in Phases \ {"idle", "queue", "list", "alloc"}, Goto(j, p),
           UNCHANGED <<tables, pending, lutCache>>
    PROVE  TablesHeld' /\ OneList'
<1>1. TablesOf(j)' /\ ListOf(j)'
  BY GotoLocal, RecycleLocal DEF TablesHeld, TablesOf, OneList, ListOf
<1>2. OthersAlone(j)
  BY GotoLocal, RecycleLocal DEF OthersAlone
<1> QED
  BY <1>1, <1>2, OthersTables

LEMMA TablesComplete ==
    ASSUME TypesOK, Control, TablesHeld, OneList, NEW j \in Job,
           \/ Wait(j) \/ DropTicket(j) \/ synchronize(j) \/ SynchronizeFails(j)
           \/ \E k \in Key : insert_lut(j, k) \/ FreeDuplicateFails(j, k)
           \/ recycle_buffers(j) \/ recycle_command_list(j)
           \/ recycle_kernels(j) \/ recycle_queue(j) \/ DropWaits(j)
           \/ DropEnds(j)
    PROVE  TablesHeld' /\ OneList'
<1> DEFINE Later == Phases \ {"idle", "queue", "list", "alloc"}
<1>1. CASE \/ Wait(j) \/ DropTicket(j) \/ synchronize(j) \/ SynchronizeFails(j)
           \/ DropWaits(j)
  <2>1. /\ call \in {j, None} /\ UNCHANGED <<tables, pending, lutCache, held>>
        /\ \E p \in {"sync", "drop", "tables", "dropQueue", "free"} : Goto(j, p)
    BY <1>1 DEF Wait, DropTicket, synchronize, SynchronizeFails, DropWaits, At,
       lutVars, handleVars
  <2> QED
    BY <2>1, TablesGoto DEF Phases
<1>2. ASSUME NEW k \in Key, insert_lut(j, k) PROVE TablesHeld' /\ OneList'
  <2> DEFINE d == tables[j][k]
  <2>1. call = j /\ phase[j] = "tables" /\ k \in pending[j]
        /\ UNCHANGED <<phase, tables>>
    BY <1>2 DEF insert_lut, At
  <2>2. /\ pending'[j] = pending[j] \ {k} /\ held'[j] = held[j] \ {d}
        /\ \A i \in Job \ {j} : held'[i] = held[i] /\ pending'[i] = pending[i]
    BY <1>2 DEF insert_lut, TypesOK, HandleTypes, LutTypes
  <2>3. TablesOf(j)' /\ ListOf(j)'
    BY <2>1, <2>2 DEF TablesHeld, TablesOf, OneList, ListOf
  <2>4. OthersAlone(j)
    BY <2>1, <2>2 DEF OthersAlone
  <2> QED
    BY <2>1, <2>3, <2>4, OthersTables
<1>3. ASSUME NEW k \in Key, FreeDuplicateFails(j, k) PROVE TablesHeld' /\ OneList'
  <2>1. call = j /\ Goto(j, "drop") /\ Forget(j, {tables[j][k]}) /\ UNCHANGED tables
    BY <1>3 DEF FreeDuplicateFails, At
  <2>2. pending'[j] = {} /\ \A i \in Job \ {j} : pending'[i] = pending[i]
    BY <1>3 DEF FreeDuplicateFails, TypesOK, LutTypes
  <2>3. TablesOf(j)' /\ ListOf(j)'
    BY <2>1, <2>2, GotoLocal, RecycleLocal
    DEF TablesHeld, TablesOf, OneList, ListOf
  <2>4. OthersAlone(j)
    BY <2>1, <2>2, GotoLocal, RecycleLocal DEF OthersAlone
  <2> QED
    BY <2>1, <2>3, <2>4, OthersTables
<1>4. CASE recycle_buffers(j)
  BY <1>4, TablesGiveUp DEF recycle_buffers, At, lutVars, Phases
<1>5. CASE recycle_queue(j)
  <2>1. held[j] \cap Queue \cap Device = {}
    BY RuntimeAssumption
  <2> QED
    BY <1>5, <2>1, TablesGiveUp DEF recycle_queue, At, lutVars, Phases
<1>6. CASE recycle_command_list(j)
  <2>1. held[j] \cap List \cap Device = {}
    BY RuntimeAssumption
  <2>2. /\ call = j /\ Goto(j, "recycle") /\ UNCHANGED <<tables, pending, lutCache>>
        /\ UNCHANGED held \/ Recycle(j, held[j] \cap List)
    BY <1>6 DEF recycle_command_list, At, lutVars, handleVars
  <2> QED
    BY <2>1, <2>2, TablesGiveUp, TablesGoto DEF Phases
<1>7. CASE recycle_kernels(j)
  <2>1. /\ call = j /\ Goto(j, "return") /\ UNCHANGED <<tables, pending, lutCache>>
        /\ \/ UNCHANGED held
           \/ \E S \in SUBSET (held[j] \cap Kernel) : Recycle(j, S) \/ Forget(j, S)
    BY <1>7 DEF recycle_kernels, At, lutVars, handleVars
  <2>2. \A S \in SUBSET (held[j] \cap Kernel) : S \cap Device = {}
    BY RuntimeAssumption
  <2> QED
    BY <2>1, <2>2, TablesGiveUp, TablesGoto DEF Phases
<1>8. CASE DropEnds(j)
  BY <1>8, TablesRelease DEF DropEnds, At
<1> QED
  BY <1>1, <1>2, <1>3, <1>4, <1>5, <1>6, <1>7, <1>8

LEMMA TablesMaintenance ==
    ASSUME TypesOK, Control, TablesHeld, OneList,
           ClearRuntimeCaches \/ ClearPool \/ ClearPoolFails \/ DropContext
    PROVE  TablesHeld' /\ OneList'
<1>1. UNCHANGED <<phase, held, tables, pending>> /\ call \in {None, Maint}
  BY DEF ClearRuntimeCaches, ClearPool, ClearPoolFails, DropContext, Empty,
     handleVars, lutVars
<1>2. \A j \in Job : phase[j] # "alloc"
  BY <1>1, RuntimeAssumption DEF Control
<1> QED
  BY <1>1, <1>2 DEF TablesHeld, TablesOf, OneList, ListOf

LEMMA TablesStep ==
    ASSUME TypesOK, Control, Owned, TablesHeld, OneList, [Next]_vars
    PROVE  TablesHeld' /\ OneList'
<1>1. CASE UNCHANGED vars \/ \E j \in Job : DeviceEnds(j)
  BY <1>1 DEF DeviceEnds, vars, handleVars, lutVars, TablesHeld, TablesOf,
     OneList, ListOf
<1> QED
  BY <1>1, TablesSubmit, TablesComplete, TablesMaintenance
  DEF Next, Call, Failure

LEMMA TablesInit == Init => TablesHeld /\ OneList
  BY DEF Init, TablesHeld, TablesOf, OneList, ListOf

-----------------------------------------------------------------------------
(* The bounded pools.                                                      *)

LEMMA FiniteSorts ==
    IsFiniteSet(Handle) /\ IsFiniteSet(Kernel) /\ IsFiniteSet(List) /\ IsFiniteSet(Module)
<1>1. IsFiniteSet(Handle)
  BY RuntimeAssumption
<1> QED
  BY <1>1, FS_Subset DEF Handle

\* A set within a pool that does not grow, or grows by what there is room for.
LEMMA Room ==
    ASSUME NEW A, NEW B, NEW S, IsFiniteSet(A), IsFiniteSet(S),
           B \subseteq A \cup S, NEW n \in Nat, NEW m \in Nat,
           Cardinality(A) <= n, Cardinality(S) <= m, Cardinality(A) + m <= n
    PROVE  Cardinality(B) <= n
<1>1. /\ IsFiniteSet(A \cup S)
      /\ Cardinality(A \cup S) = Cardinality(A) + Cardinality(S) - Cardinality(A \cap S)
  BY FS_Union
<1>2. IsFiniteSet(A \cap S) /\ IsFiniteSet(B) /\ Cardinality(B) <= Cardinality(A \cup S)
  BY <1>1, FS_Subset
<1>3. /\ Cardinality(A) \in Nat /\ Cardinality(S) \in Nat
      /\ Cardinality(A \cap S) \in Nat /\ Cardinality(B) \in Nat
  BY <1>2, FS_CardinalityType
<1> QED
  BY <1>1, <1>2, <1>3

\* Pools that do not grow, and a cache that does not, keep within capacity.
LEMMA CapacitiesKept ==
    ASSUME TypesOK, Capacities, CachedModules' \subseteq CachedModules,
           \A h \in Kernel \cup List : pool'[h] > 0 => pool[h] > 0
    PROVE  Capacities'
<1>1. IsFiniteSet(CachedModules) /\ IsFiniteSet(Pooled(Kernel)) /\ IsFiniteSet(Pooled(List))
  BY FiniteSorts, FS_Subset DEF CachedModules, Pooled, TypesOK, KernelTypes
<1>2. Pooled(Kernel)' \subseteq Pooled(Kernel) /\ Pooled(List)' \subseteq Pooled(List)
  BY DEF Pooled
<1>3. /\ Cardinality(CachedModules') <= Cardinality(CachedModules)
      /\ Cardinality(Pooled(Kernel)') <= Cardinality(Pooled(Kernel))
      /\ Cardinality(Pooled(List)') <= Cardinality(Pooled(List))
      /\ IsFiniteSet(CachedModules') /\ IsFiniteSet(Pooled(Kernel)') /\ IsFiniteSet(Pooled(List)')
  BY <1>1, <1>2, FS_Subset
<1>4. /\ Cardinality(CachedModules) \in Nat /\ Cardinality(CachedModules') \in Nat
      /\ Cardinality(Pooled(Kernel)) \in Nat /\ Cardinality(Pooled(Kernel)') \in Nat
      /\ Cardinality(Pooled(List)) \in Nat /\ Cardinality(Pooled(List)') \in Nat
  BY <1>1, <1>3, FS_CardinalityType
<1> QED
  BY <1>3, <1>4, RuntimeAssumption DEF Capacities

LEMMA CapacitiesStep ==
    ASSUME TypesOK, Control, Capacities, OneList, [Next]_vars
    PROVE  Capacities'
<1> DEFINE Shrinks == /\ UNCHANGED moduleCache
                      /\ \A h \in Handle : pool'[h] > 0 => pool[h] > 0
<1>0. ASSUME Shrinks PROVE Capacities'
  BY <1>0, CapacitiesKept DEF CachedModules, Handle
<1>1. ASSUME NEW j \in Job, NEW hs, Take(j, hs) PROVE \A h \in Handle : pool'[h] > 0 => pool[h] > 0
  BY <1>1 DEF Take, TypesOK, HandleTypes
<1>2. ASSUME NEW j \in Job,
             \/ take_queue(j) \/ create_command_list(j) \/ allocate(j)
             \/ create_kernel(j) \/ allocate_host(j)
      PROVE  Capacities'
  <2>1. UNCHANGED moduleCache
    BY <1>2 DEF take_queue, create_command_list, allocate, create_kernel,
       allocate_host, kernelVars
  <2>2. UNCHANGED pool \/ \E hs : Take(j, hs)
    BY <1>2, AllocateCases DEF take_queue, create_command_list, create_kernel,
       allocate_host, handleVars
  <2> QED
    BY <1>0, <1>1, <2>1, <2>2
<1>3. ASSUME NEW j \in Job,
             \/ Submit(j) \/ Allocated(j) \/ execute_command_lists(j)
             \/ SubmitFails(j) \/ Wait(j) \/ DropTicket(j) \/ synchronize(j)
             \/ SynchronizeFails(j) \/ DropWaits(j) \/ DropEnds(j) \/ DeviceEnds(j)
             \/ \E k \in Key : insert_lut(j, k) \/ FreeDuplicateFails(j, k)
      PROVE  Capacities'
  <2>1. UNCHANGED <<moduleCache, pool>>
    BY <1>3 DEF Submit, Allocated, execute_command_lists, SubmitFails, Wait,
       DropTicket, synchronize, SynchronizeFails, DropWaits, DropEnds,
       DeviceEnds, insert_lut, FreeDuplicateFails, Release, Forget,
       kernelVars, handleVars
  <2> QED
    BY <1>0, <2>1
<1>4. ASSUME NEW j \in Job, recycle_buffers(j) \/ recycle_queue(j) PROVE Capacities'
  <2>1. \E S \in {Device \cup Host, Queue} : Recycle(j, held[j] \cap S)
    BY <1>4 DEF recycle_buffers, recycle_queue
  <2>2. \A S \in {Device \cup Host, Queue} : S \cap (Kernel \cup List) = {}
    BY RuntimeAssumption
  <2>3. \A h \in Kernel \cup List : pool'[h] > 0 => pool[h] > 0
    BY <2>1, <2>2 DEF Recycle, Handle
  <2>4. CachedModules' = CachedModules
    BY <1>4 DEF recycle_buffers, recycle_queue, kernelVars, CachedModules
  <2> QED
    BY <2>3, <2>4, CapacitiesKept
<1>5. ASSUME NEW j \in Job, create_module(j) PROVE Capacities'
  <2> DEFINE b == Binary[NextSource(j)]
  <2>1. b \in Binaries
    BY <1>5, RuntimeAssumption
    DEF create_module, NextSource, Binaries, TypesOK, CallTypes
  <2>2. CASE UNCHANGED <<moduleCache, handleVars>>
    BY <1>0, <2>2 DEF handleVars
  <2>3. ASSUME NEW m, Take(j, {m}), UNCHANGED moduleCache PROVE Capacities'
    BY <1>0, <1>1, <2>3
  <2>4. ASSUME NEW m \in Obtainable(Module), HasCapacity,
               moduleCache' = [moduleCache EXCEPT ![b] = m], UNCHANGED pool
        PROVE  Capacities'
    <3> HIDE DEF b
    <3>1. CachedModules' \subseteq CachedModules \cup {m}
      BY <2>1, <2>4 DEF CachedModules, TypesOK, KernelTypes
    <3>2. IsFiniteSet(CachedModules) /\ Cardinality(CachedModules) \in Nat
      BY FiniteSorts, FS_Subset, FS_CardinalityType
      DEF CachedModules, TypesOK, KernelTypes
    <3>3. IsFiniteSet({m}) /\ Cardinality({m}) = 1
      BY FS_Singleton
    <3>4. MaxModules \in Nat /\ Cardinality(CachedModules) + 1 <= MaxModules
      BY <2>4, <3>2, RuntimeAssumption DEF HasCapacity
    <3>5. Cardinality(CachedModules') <= MaxModules
      <4>1. Cardinality(CachedModules) <= MaxModules
        BY <3>2, <3>4
      <4> QED
        BY <3>1, <3>2, <3>3, <3>4, <4>1, Room
    <3> QED
      BY <2>4, <3>5 DEF Capacities, Pooled
  <2> QED
    BY <1>5, <2>2, <2>3, <2>4 DEF create_module
<1>6. ASSUME NEW j \in Job, recycle_command_list(j) PROVE Capacities'
  <2>1. CachedModules' = CachedModules
    BY <1>6 DEF recycle_command_list, kernelVars, CachedModules
  <2>2. CASE UNCHANGED handleVars
    BY <2>1, <2>2, CapacitiesKept DEF handleVars
  <2>3. CASE /\ Cardinality(Pooled(List)) < MaxLists
             /\ Recycle(j, held[j] \cap List)
    <3> DEFINE S == held[j] \cap List
    <3>1. S = {} \/ \E l : S = {l}
      BY DEF OneList, ListOf
    <3>2. IsFiniteSet(S) /\ Cardinality(S) <= 1
      <4> HIDE DEF S
      <4>1. CASE S = {}
        BY <4>1, FS_EmptySet
      <4>2. ASSUME NEW l, S = {l} PROVE IsFiniteSet(S) /\ Cardinality(S) <= 1
        <5>1. IsFiniteSet({l}) /\ Cardinality({l}) = 1
          BY FS_Singleton
        <5> QED
          BY <4>2, <5>1
      <4> QED
        BY <3>1, <4>1, <4>2
    <3>3. IsFiniteSet(Pooled(List)) /\ Cardinality(Pooled(List)) \in Nat
      BY FiniteSorts, FS_Subset, FS_CardinalityType DEF Pooled
    <3>4. Pooled(List)' \subseteq Pooled(List) \cup S
      BY <2>3 DEF Recycle, Pooled, Handle
    <3>5. Pooled(Kernel)' = Pooled(Kernel)
      BY <2>3, RuntimeAssumption DEF Recycle, Pooled, Handle
    <3>6. Cardinality(Pooled(List)') <= MaxLists
      <4>1. MaxLists \in Nat
        BY RuntimeAssumption
      <4>2. Cardinality(Pooled(List)) + 1 <= MaxLists /\ Cardinality(Pooled(List)) <= MaxLists
        BY <2>3, <3>3, <4>1
      <4> HIDE DEF S
      <4> QED
        BY <3>2, <3>3, <3>4, <4>1, <4>2, Room
    <3> QED
      BY <2>1, <3>5, <3>6 DEF Capacities
  <2> QED
    BY <1>6, <2>2, <2>3 DEF recycle_command_list
<1>7. ASSUME NEW j \in Job, recycle_kernels(j) PROVE Capacities'
  <2> DEFINE keyed == {k \in held[j] \cap Kernel : made[k].key}
             room  == MaxKernels - Cardinality(Pooled(Kernel))
  <2>1. CachedModules' = CachedModules
    BY <1>7 DEF recycle_kernels, kernelVars, CachedModules
  <2>2. CASE UNCHANGED pool
    BY <2>1, <2>2, CapacitiesKept
  <2>3. ASSUME NEW S \in SUBSET keyed,
               Cardinality(S) = Least(room, Cardinality(keyed)), Recycle(j, S)
        PROVE  Capacities'
    <3>1. IsFiniteSet(keyed) /\ Cardinality(keyed) \in Nat
      BY FiniteSorts, FS_Subset, FS_CardinalityType
    <3>2. IsFiniteSet(S)
      BY <3>1, FS_Subset
    <3>3. IsFiniteSet(Pooled(Kernel)) /\ Cardinality(Pooled(Kernel)) \in Nat
      BY FiniteSorts, FS_Subset, FS_CardinalityType DEF Pooled
    <3>4. /\ MaxKernels \in Nat /\ room \in Nat
          /\ Cardinality(Pooled(Kernel)) <= MaxKernels
          /\ Cardinality(Pooled(Kernel)) + room <= MaxKernels
      BY <3>3, RuntimeAssumption DEF Capacities
    <3>5. Cardinality(S) <= room
      BY <2>3, <3>1, <3>4 DEF Least
    <3>6. Pooled(Kernel)' \subseteq Pooled(Kernel) \cup S
      BY <2>3 DEF Recycle, Pooled, Handle
    <3>7. Pooled(List)' = Pooled(List)
      BY <2>3, RuntimeAssumption DEF Recycle, Pooled, Handle
    <3> HIDE DEF room, keyed
    <3>8. Cardinality(Pooled(Kernel)') <= MaxKernels
      BY <3>2, <3>3, <3>4, <3>5, <3>6, Room
    <3> QED
      BY <2>1, <3>7, <3>8 DEF Capacities
  <2> QED
    BY <1>7, <2>2, <2>3 DEF recycle_kernels, Forget, handleVars
<1>8. CASE ClearRuntimeCaches \/ ClearPool \/ ClearPoolFails \/ DropContext
  <2>1. CachedModules' \subseteq CachedModules
    BY <1>8 DEF ClearRuntimeCaches, ClearPool, ClearPoolFails, DropContext,
       Empty, CachedModules, kernelVars
  <2>2. UNCHANGED pool \/ \E S : pool' = [h \in Handle |-> IF h \in S THEN 0 ELSE pool[h]]
    <3>1. CASE DropContext
      <4>1. pool' = [h \in Handle |-> IF h \in Handle THEN 0 ELSE pool[h]]
        BY <3>1 DEF DropContext
      <4> QED
        BY <4>1
    <3> QED
      BY <1>8, <3>1 DEF ClearRuntimeCaches, ClearPool, ClearPoolFails, Empty, handleVars
  <2>3. \A h \in Kernel \cup List : pool'[h] > 0 => pool[h] > 0
    BY <2>2 DEF Handle
  <2> QED
    BY <2>1, <2>3, CapacitiesKept
<1>9. CASE UNCHANGED vars
  BY <1>0, <1>9 DEF vars, kernelVars, handleVars
<1> QED
  BY <1>2, <1>3, <1>4, <1>5, <1>6, <1>7, <1>8, <1>9 DEF Next, Call, Failure

LEMMA CapacitiesInit == Init => Capacities
<1> SUFFICES ASSUME Init PROVE Capacities
  OBVIOUS
<1>1. CachedModules = {}
  BY DEF Init, CachedModules
<1>2. Pooled(Kernel) = {} /\ Pooled(List) = {}
  BY RuntimeAssumption DEF Init, Pooled, Handle
<1> QED
  BY <1>1, <1>2, FS_EmptySet, RuntimeAssumption DEF Capacities

-----------------------------------------------------------------------------
(* The theorems that hold whatever fails.                                  *)

Inv == TypesOK /\ Control /\ Owned /\ TablesHeld /\ OneList /\ Capacities

LEMMA InvStep == Inv /\ [Next]_vars => Inv'
  BY TypesStep, ControlStep, OwnedStep, TablesStep, CapacitiesStep DEF Inv

LEMMA InvInit == Init => Inv
  BY TypesInit, ControlInit, OwnedInit, TablesInit, CapacitiesInit DEF Inv

LEMMA Invariance == Spec => []Inv
  BY InvInit, InvStep, PTL DEF Spec

\* Every variable keeps its type, and the bounded pools and the cache of
\* modules keep within their capacities.
THEOREM LevelZeroTypeCorrect == Spec => []TypeOK
<1>1. Inv => TypeOK
  BY TypeParts DEF Inv
<1> QED
  BY <1>1, Invariance, PTL

\* The sum of Owners counts one place.
LEMMA OwnersCount ==
    ASSUME TypesOK, Owned, NEW h \in Handle PROVE Owners(h) = 1
<1> DEFINE J == {j \in Job : h \in held[j]}
           K == {k \in Key : lutCache[k] = h}
           B == {b \in Binaries : moduleCache[b] = h}
<1>1. OneOwner(h) /\ CachedOnce /\ pool[h] \in Nat /\ h # None
  BY RuntimeAssumption DEF Owned, TypesOK, HandleTypes
<1>2. /\ h \in CachedTables <=> K # {}
      /\ h \in CachedModules <=> B # {}
  BY <1>1 DEF CachedTables, CachedModules
<1>3. h \notin CachedTables \/ h \notin CachedModules
  BY <1>1, RuntimeAssumption
  DEF CachedTables, CachedModules, TypesOK, LutTypes, KernelTypes
<1>4. /\ \A x, y \in J : x = y
      /\ \A x, y \in K : x = y
      /\ \A x, y \in B : x = y
  BY <1>1 DEF OneOwner, CachedOnce
<1>5. ASSUME NEW S, \A x, y \in S : x = y
      PROVE  Cardinality(S) = IF S = {} THEN 0 ELSE 1
  <2>1. CASE S = {}
    BY <2>1, FS_EmptySet
  <2>2. ASSUME NEW x \in S PROVE Cardinality(S) = 1
    <3>1. S = {x}
      BY <1>5, <2>2
    <3> QED
      BY <3>1, FS_Singleton
  <2> QED
    BY <2>1, <2>2
<1>6. /\ Cardinality(J) = IF J = {} THEN 0 ELSE 1
      /\ Cardinality(K) = IF K = {} THEN 0 ELSE 1
      /\ Cardinality(B) = IF B = {} THEN 0 ELSE 1
  BY <1>4, <1>5
<1>7. \/ /\ h \in fresh /\ h \notin leaked /\ pool[h] = 0 /\ J = {} /\ K = {} /\ B = {}
      \/ /\ h \notin fresh /\ h \in leaked /\ pool[h] = 0 /\ J = {} /\ K = {} /\ B = {}
      \/ /\ h \notin fresh /\ h \notin leaked /\ pool[h] = 1 /\ J = {} /\ K = {} /\ B = {}
      \/ /\ h \notin fresh /\ h \notin leaked /\ pool[h] = 0 /\ J # {} /\ K = {} /\ B = {}
      \/ /\ h \notin fresh /\ h \notin leaked /\ pool[h] = 0 /\ J = {} /\ K # {} /\ B = {}
      \/ /\ h \notin fresh /\ h \notin leaked /\ pool[h] = 0 /\ J = {} /\ K = {} /\ B # {}
  <2> HIDE DEF K, B
  <2> QED
    BY <1>1, <1>2, <1>3 DEF OneOwner, Cached
<1>8. Owners(h) = (IF h \in fresh THEN 1 ELSE 0) + (IF h \in leaked THEN 1 ELSE 0)
                  + pool[h] + Cardinality(J) + Cardinality(K) + Cardinality(B)
  BY DEF Owners
<1> HIDE DEF J, K, B
<1> QED
  BY <1>1, <1>6, <1>7, <1>8

\* A handle has one owner, for any number of tickets, handles and failures of
\* the driver, and however tickets, clears and drops are ordered.
THEOREM LevelZeroExclusive == Spec => []ExclusiveOwnership
<1>1. Inv => ExclusiveOwnership
  BY OwnersCount DEF Inv, ExclusiveOwnership
<1> QED
  BY <1>1, Invariance, PTL

\* Only an error while something is destroyed loses a handle, provided the
\* build evaluates the arguments of debug_assert!.
THEOREM LevelZeroNothingLeaked ==
    ASSUME DebugAssertions PROVE Spec => []NothingLeaked
<1>1. Init => NothingLeaked
  BY DEF Init, NothingLeaked
<1>2. NothingLeaked /\ [Next]_vars => NothingLeaked'
  <2> SUFFICES ASSUME [Next]_vars, ~NothingLeaked' PROVE ~NothingLeaked
    OBVIOUS
  <2>1. UNCHANGED leaked \/ destroyFailed'
    <3>1. CASE UNCHANGED vars
      BY <3>1 DEF vars, handleVars
    <3>2. ASSUME NEW j \in Job, allocate(j) PROVE UNCHANGED leaked
      BY <3>2 DEF allocate, Take, handleVars
    <3>3. ASSUME NEW j \in Job,
                 \/ Submit(j) \/ take_queue(j) \/ create_command_list(j)
                 \/ Allocated(j) \/ create_module(j) \/ create_kernel(j)
                 \/ allocate_host(j) \/ execute_command_lists(j) \/ SubmitFails(j)
          PROVE  UNCHANGED leaked
      BY <3>3 DEF Submit, take_queue, create_command_list, Allocated,
         create_module, create_kernel, allocate_host, execute_command_lists,
         SubmitFails, Take, Release, handleVars
    <3>4. ASSUME NEW j \in Job,
                 \/ Wait(j) \/ DropTicket(j) \/ synchronize(j) \/ SynchronizeFails(j)
                 \/ \E k \in Key : insert_lut(j, k)
                 \/ recycle_buffers(j) \/ recycle_command_list(j)
                 \/ recycle_queue(j) \/ DropWaits(j) \/ DropEnds(j) \/ DeviceEnds(j)
          PROVE  UNCHANGED leaked
      BY <3>4 DEF Wait, DropTicket, synchronize, SynchronizeFails, insert_lut,
         recycle_buffers, recycle_command_list, recycle_queue, DropWaits,
         DropEnds, DeviceEnds, Recycle, Release, handleVars
    <3>5. ASSUME NEW j \in Job, recycle_kernels(j) PROVE UNCHANGED leaked
      BY <3>5 DEF recycle_kernels, Recycle
    <3>6. ASSUME NEW j \in Job, \E k \in Key : FreeDuplicateFails(j, k)
          PROVE  destroyFailed'
      BY <3>6 DEF FreeDuplicateFails
    <3>7. CASE ClearRuntimeCaches \/ DropContext
      BY <3>7 DEF ClearRuntimeCaches, DropContext, handleVars
    <3>8. CASE ClearPool
      BY <3>8 DEF ClearPool, Empty
    <3>9. CASE ClearPoolFails
      BY <3>9 DEF ClearPoolFails
    <3> QED
      BY <3>1, <3>2, <3>3, <3>4, <3>5, <3>6, <3>7, <3>8, <3>9
      DEF Next, Call, Failure
  <2>2. destroyFailed => destroyFailed'
    BY RestStep
  <2> QED
    BY <2>1, <2>2 DEF NothingLeaked
<1> QED
  BY <1>1, <1>2, PTL DEF Spec

-----------------------------------------------------------------------------
(* What the device and the kernels of LevelZeroRuntime depend on stays, and *)
(* the runtime implements ExclusiveTickets.                                 *)


\* A kernel that exists has its module in the cache if it may be pooled, and
\* else with the ticket that owns the kernel.
Backed(k) ==
    /\ made[k] \in [source : Source, module : Module, key : BOOLEAN]
    /\ made[k].key => made[k].module \in CachedModules
    /\ ~made[k].key => \E j \in Job : k \in held[j] /\ made[k].module \in held[j]

KernelsBacked == \A k \in Kernel \ (fresh \cup leaked) : Backed(k)

\* So has the kernel about to be created.
RecordedModule ==
    \A j \in Job : phase[j] = "kernel" => module \in CachedModules \cup held[j]

\* A clear goes on in its order, and empties the modules after the kernels.
ClearProgress ==
    call = Maint =>
       /\ active = 0
       /\ Len(clearing) <= 7
       /\ \A i \in 1 .. Len(clearing) : clearing[i] = ClearOrder[i + 7 - Len(clearing)]
       /\ Len(clearing) = 1 => Pooled(Kernel) = {}

LEMMA KernelsKept ==
    ASSUME KernelsBacked,
           \A k \in Kernel : k \notin fresh' \cup leaked' =>
              k \notin fresh \cup leaked /\ made'[k] = made[k],
           CachedModules \subseteq CachedModules',
           \A j \in Job : held[j] \cap (Kernel \cup Module) \subseteq held'[j],
           TypesOK
    PROVE  KernelsBacked'
<1> SUFFICES ASSUME NEW k \in Kernel, k \notin fresh' \cup leaked' PROVE Backed(k)'
  BY DEF KernelsBacked
<1>1. Backed(k) /\ made'[k] = made[k]
  BY DEF KernelsBacked
<1>2. made[k].module \in Module
  BY <1>1 DEF Backed, TypesOK, KernelTypes
<1> QED
  BY <1>1, <1>2 DEF Backed

\* No ticket owns anything while a clear runs or the context is dropped.
LEMMA NothingHeld ==
    ASSUME TypesOK, Control, TablesHeld, call \in {None, Maint}, active = 0
    PROVE  \A j \in Job : phase[j] = "idle" /\ held[j] = {}
<1>1. Submitted = {}
  BY SubmittedFinite DEF Control
<1>2. \A j \in Job : phase[j] \in {"idle", "pending"}
  BY RuntimeAssumption DEF Control
<1> QED
  BY <1>1, <1>2 DEF Submitted, Executed, Phases, SubmitPhases, TablesHeld, TablesOf

LEMMA KernelsSubmit ==
    ASSUME Inv, KernelsBacked, RecordedModule, NEW j \in Job,
           \/ Submit(j) \/ take_queue(j) \/ create_command_list(j) \/ allocate(j)
           \/ Allocated(j) \/ create_module(j) \/ create_kernel(j)
           \/ allocate_host(j) \/ execute_command_lists(j) \/ SubmitFails(j)
    PROVE  KernelsBacked'
<1> USE DEF Inv
<1>1. ASSUME NEW hs, Take(j, hs), UNCHANGED made, \A k \in hs \cap Kernel : k \notin fresh,
             CachedModules \subseteq CachedModules'
      PROVE  KernelsBacked'
  <2>1. \A i \in Job : held[i] \subseteq held'[i]
    BY <1>1, TakeLocal
  <2>2. fresh' = fresh \ hs /\ leaked' = leaked
    BY <1>1 DEF Take
  <2> QED
    BY <1>1, <2>1, <2>2, KernelsKept
<1>2. CASE Submit(j) \/ Allocated(j) \/ execute_command_lists(j)
  BY <1>2, KernelsKept DEF Submit, Allocated, execute_command_lists, handleVars,
     kernelVars, CachedModules
<1>3. CASE take_queue(j) \/ create_command_list(j) \/ allocate(j) \/ allocate_host(j)
  <2>1. UNCHANGED <<made, moduleCache>>
    BY <1>3 DEF take_queue, create_command_list, allocate, allocate_host, kernelVars
  <2>2. \/ UNCHANGED handleVars
        \/ \E hs : Take(j, hs) /\ hs \cap Kernel = {}
    <3>1. \A h \in Obtainable(Queue) \cup Obtainable(List) \cup Obtainable(Host) :
            {h} \cap Kernel = {}
      BY ObtainableAvailable, RuntimeAssumption
    <3>2. \A hs \in SUBSET (Device \cup Host) : hs \cap Kernel = {}
      BY RuntimeAssumption
    <3> QED
      BY <1>3, <3>1, <3>2, AllocateCases
      DEF take_queue, create_command_list, allocate_host
  <2> QED
    BY <1>1, <2>1, <2>2, KernelsKept DEF handleVars, CachedModules
<1>4. CASE create_module(j)
  <2>1. UNCHANGED made
    BY <1>4 DEF create_module
  <2>2. CASE UNCHANGED <<moduleCache, handleVars>>
    BY <2>1, <2>2, KernelsKept DEF handleVars, CachedModules
  <2>3. ASSUME NEW m \in Obtainable(Module), Take(j, {m}), UNCHANGED moduleCache
        PROVE  KernelsBacked'
    <3>1. {m} \cap Kernel = {}
      BY ObtainableAvailable, RuntimeAssumption
    <3> QED
      BY <1>1, <2>1, <2>3, <3>1 DEF CachedModules
  <2>4. ASSUME NEW m \in Obtainable(Module), moduleCache[Binary[NextSource(j)]] = None,
               moduleCache' = [moduleCache EXCEPT ![Binary[NextSource(j)]] = m],
               fresh' = fresh \ {m}, UNCHANGED <<pool, held, leaked>>
        PROVE  KernelsBacked'
    <3>1. m \in Module /\ m \notin Kernel
      BY ObtainableAvailable, RuntimeAssumption
    <3>2. CachedModules \subseteq CachedModules'
      BY <2>4 DEF CachedModules, TypesOK, KernelTypes
    <3> QED
      BY <2>1, <2>4, <3>1, <3>2, KernelsKept
  <2> QED
    BY <1>4, <2>2, <2>3, <2>4 DEF create_module
<1>5. CASE create_kernel(j)
  <2>1. PICK k \in ObtainableKernels(module, NextSource(j)) :
          /\ Take(j, {k})
          /\ made' = IF k \in fresh
                     THEN [made EXCEPT ![k] = [source |-> NextSource(j),
                              module |-> module, key |-> HasPoolKey(module)]]
                     ELSE made
    BY <1>5 DEF create_kernel
  <2>2. k \in Kernel
    BY ObtainableKernel
  <2>3. CachedModules' = CachedModules
    BY <1>5 DEF create_kernel, CachedModules
  <2>4. CASE k \notin fresh
    BY <1>1, <2>1, <2>3, <2>4
  <2>5. CASE k \in fresh
    <3>1. /\ made'[k].module = module /\ made'[k].key = HasPoolKey(module)
          /\ made'[k] \in [source : Source, module : Module, key : BOOLEAN]
          /\ \A i \in Kernel \ {k} : made'[i] = made[i]
      <4>1. /\ made'[k] = [source |-> NextSource(j), module |-> module,
                           key |-> HasPoolKey(module)]
            /\ \A i \in Kernel \ {k} : made'[i] = made[i]
        BY <2>1, <2>2, <2>5 DEF TypesOK, KernelTypes
      <4>2. NextSource(j) \in Source /\ module \in Module
        <5>1. module \in Module /\ count[j] < Len(Shaders[j]) /\ count[j] \in Nat
          BY <1>5 DEF create_kernel, Control, At, TypesOK, CallTypes
        <5> QED
          BY <5>1, RuntimeAssumption DEF NextSource
      <4>3. HasPoolKey(module) \in BOOLEAN
        BY DEF HasPoolKey
      <4> QED
        BY <4>1, <4>2, <4>3
    <3>2. module \in CachedModules \cup held[j]
      BY <1>5 DEF create_kernel, At, RecordedModule
    <3>3. /\ held'[j] = held[j] \cup {k} /\ \A i \in Job \ {j} : held'[i] = held[i]
          /\ fresh' = fresh \ {k} /\ leaked' = leaked
      BY <2>1, TakeLocal DEF Take
    <3>4. Backed(k)'
      BY <2>3, <3>1, <3>2, <3>3 DEF Backed, HasPoolKey
    <3>5. ASSUME NEW i \in Kernel \ {k}, i \notin fresh' \cup leaked' PROVE Backed(i)'
      <4>1. Backed(i)
        BY <3>3, <3>5 DEF KernelsBacked
      <4> QED
        BY <2>3, <3>1, <3>3, <4>1 DEF Backed
    <3> QED
      BY <3>4, <3>5 DEF KernelsBacked
  <2> QED
    BY <2>4, <2>5
<1>6. CASE SubmitFails(j)
  <2>1. Release(j)
    BY <1>6 DEF SubmitFails
  <2> SUFFICES ASSUME NEW k \in Kernel, k \notin fresh' \cup leaked' PROVE Backed(k)'
    BY DEF KernelsBacked
  <2>2. k \notin fresh \cup leaked \cup held[j] /\ made'[k] = made[k]
    BY <2>1 DEF Release, Destroy
  <2>3. CachedModules' = CachedModules /\ \A i \in Job \ {j} : held'[i] = held[i]
    BY <2>1 DEF Release, CachedModules, TypesOK, HandleTypes
  <2> QED
    BY <2>2, <2>3 DEF KernelsBacked, Backed
<1> QED
  BY <1>2, <1>3, <1>4, <1>5, <1>6

LEMMA KernelsComplete ==
    ASSUME Inv, KernelsBacked, NEW j \in Job,
           \/ Wait(j) \/ DropTicket(j) \/ synchronize(j) \/ SynchronizeFails(j)
           \/ \E k \in Key : insert_lut(j, k) \/ FreeDuplicateFails(j, k)
           \/ recycle_buffers(j) \/ recycle_command_list(j)
           \/ recycle_kernels(j) \/ recycle_queue(j) \/ DropWaits(j)
           \/ DropEnds(j)
    PROVE  KernelsBacked'
<1> USE DEF Inv
<1>1. CASE \/ Wait(j) \/ DropTicket(j) \/ synchronize(j) \/ SynchronizeFails(j)
           \/ DropWaits(j)
  BY <1>1, KernelsKept DEF Wait, DropTicket, synchronize, SynchronizeFails,
     DropWaits, handleVars, kernelVars, CachedModules
<1>2. ASSUME NEW k \in Key, insert_lut(j, k) PROVE KernelsBacked'
  <2> DEFINE d == tables[j][k]
  <2>1. d \in Device /\ d \notin Kernel \cup Module
    BY <1>2, RuntimeAssumption DEF insert_lut, TablesHeld, TablesOf
  <2>2. /\ held' = [held EXCEPT ![j] = @ \ {d}] /\ UNCHANGED <<leaked, moduleCache>>
        /\ \/ UNCHANGED <<fresh, made>>
           \/ Destroy({d})
    BY <1>2 DEF insert_lut
  <2> HIDE DEF d
  <2>3. \A i \in Job : held[i] \cap (Kernel \cup Module) \subseteq held'[i]
    BY <2>1, <2>2 DEF TypesOK, HandleTypes
  <2>4. \A i \in Kernel : made'[i] = made[i] /\ (i \in fresh' <=> i \in fresh)
    BY <2>1, <2>2 DEF Destroy
  <2> QED
    BY <2>2, <2>3, <2>4, KernelsKept DEF CachedModules
<1>3. ASSUME NEW hs, Recycle(j, hs) \/ Forget(j, hs), UNCHANGED kernelVars,
             hs \cap (Kernel \cup Module) = {}
      PROVE  KernelsBacked'
  <2>1. \A i \in Job : held[i] \cap (Kernel \cup Module) \subseteq held'[i]
    BY <1>3, RecycleLocal
  <2>2. fresh' = fresh /\ leaked \subseteq leaked'
    BY <1>3 DEF Recycle, Forget
  <2> QED
    BY <1>3, <2>1, <2>2, KernelsKept DEF kernelVars, CachedModules
<1>4. ASSUME NEW k \in Key, FreeDuplicateFails(j, k) PROVE KernelsBacked'
  <2>1. {tables[j][k]} \cap (Kernel \cup Module) = {}
    BY <1>4, RuntimeAssumption DEF FreeDuplicateFails, TablesHeld, TablesOf
  <2> QED
    BY <1>3, <1>4, <2>1 DEF FreeDuplicateFails
<1>5. CASE recycle_buffers(j) \/ recycle_queue(j) \/ recycle_command_list(j)
  <2>1. UNCHANGED handleVars
        \/ \E S \in {Device \cup Host, Queue, List} : Recycle(j, held[j] \cap S)
    BY <1>5 DEF recycle_buffers, recycle_queue, recycle_command_list
  <2>2. \A S \in {Device \cup Host, Queue, List} :
           (held[j] \cap S) \cap (Kernel \cup Module) = {}
    BY RuntimeAssumption
  <2>3. UNCHANGED kernelVars
    BY <1>5 DEF recycle_buffers, recycle_queue, recycle_command_list
  <2> QED
    BY <1>3, <2>1, <2>2, <2>3, KernelsKept DEF handleVars, kernelVars, CachedModules
<1>6. CASE recycle_kernels(j)
  <2>1. \/ UNCHANGED handleVars
        \/ \E S \in SUBSET {k \in held[j] \cap Kernel : made[k].key} :
              Recycle(j, S) \/ Forget(j, S)
    BY <1>6 DEF recycle_kernels
  <2>2. UNCHANGED <<made, moduleCache>> /\ CachedModules' = CachedModules
    BY <1>6 DEF recycle_kernels, kernelVars, CachedModules
  <2>3. CASE UNCHANGED handleVars
    BY <2>2, <2>3, KernelsKept DEF handleVars
  <2>4. ASSUME NEW S \in SUBSET {k \in held[j] \cap Kernel : made[k].key},
               Recycle(j, S) \/ Forget(j, S)
        PROVE  KernelsBacked'
    <3> SUFFICES ASSUME NEW k \in Kernel, k \notin fresh' \cup leaked'
                 PROVE  Backed(k)'
      BY DEF KernelsBacked
    <3>1. Backed(k) /\ made'[k] = made[k]
      BY <2>2, <2>4 DEF KernelsBacked, Recycle, Forget
    <3>2. made[k].module \notin Kernel
      BY <3>1, RuntimeAssumption DEF Backed
    <3>3. ~made[k].key => k \notin S
      OBVIOUS
    <3>4. \A i \in Job : held[i] \ S \subseteq held'[i]
      BY <2>4, RecycleLocal
    <3> QED
      BY <2>2, <3>1, <3>2, <3>3, <3>4 DEF Backed
  <2> QED
    BY <2>1, <2>3, <2>4
<1>7. CASE DropEnds(j)
  <2>1. Release(j)
    BY <1>7 DEF DropEnds
  <2> SUFFICES ASSUME NEW k \in Kernel, k \notin fresh' \cup leaked' PROVE Backed(k)'
    BY DEF KernelsBacked
  <2>2. k \notin fresh \cup leaked \cup held[j] /\ made'[k] = made[k]
    BY <2>1 DEF Release, Destroy
  <2>3. CachedModules' = CachedModules /\ \A i \in Job \ {j} : held'[i] = held[i]
    BY <2>1 DEF Release, CachedModules, TypesOK, HandleTypes
  <2> QED
    BY <2>2, <2>3 DEF KernelsBacked, Backed
<1> QED
  BY <1>1, <1>2, <1>4, <1>5, <1>6, <1>7

LEMMA KernelsMaintenance ==
    ASSUME Inv, KernelsBacked, ClearProgress,
           ClearRuntimeCaches \/ ClearPool \/ ClearPoolFails \/ DropContext
    PROVE  KernelsBacked'
<1> USE DEF Inv
<1>1. CASE ClearRuntimeCaches
  BY <1>1, KernelsKept DEF ClearRuntimeCaches, handleVars, kernelVars, CachedModules
<1>2. ASSUME call = Maint, NEW p \in Pools, p = Head(clearing),
             NEW S \in SUBSET InPool(p), Empty(p, S)
      PROVE  KernelsBacked'
  <2> SUFFICES ASSUME NEW k \in Kernel, k \notin fresh' \cup leaked' PROVE Backed(k)'
    BY DEF KernelsBacked
  <2>1. /\ k \notin fresh \cup leaked /\ k \notin InPool(p)
        /\ made'[k] = made[k] /\ held' = held
    BY <1>2 DEF Empty, Destroy
  <2>2. Backed(k)
    BY <2>1 DEF KernelsBacked
  <2>3. CASE p # "module"
    BY <1>2, <2>1, <2>2, <2>3 DEF Backed, Empty, CachedModules
  <2>4. CASE p = "module"
    <3>1. clearing \in Seq(Pools) /\ clearing # <<>> /\ Head(clearing) = clearing[1]
          /\ Len(clearing) \in Nat \ {0}
      BY <1>2 DEF Control, TypesOK, RestTypes, Pools
    <3>2. clearing[1] = ClearOrder[8 - Len(clearing)] /\ active = 0
      BY <1>2, <3>1 DEF ClearProgress
    <3>3. Len(clearing) = 1
      <4>1. 8 - Len(clearing) \in 1 .. 7
        BY <1>2, <3>1 DEF ClearProgress
      <4>2. \A n \in 1 .. 7 : ClearOrder[n] = "module" => n = 7
        BY DEF ClearOrder
      <4>3. 8 - Len(clearing) = 7
        BY <1>2, <2>4, <3>1, <3>2, <4>1, <4>2
      <4>4. Len(clearing) \in Nat
        BY <3>1
      <4>5. \A n \in Nat : 8 - n = 7 => n = 1
        OBVIOUS
      <4> QED
        BY <4>3, <4>4, <4>5
    <3>4. Pooled(Kernel) = {}
      BY <1>2, <3>3 DEF ClearProgress
    <3>5. \A j \in Job : held[j] = {}
      BY <1>2, <3>2, NothingHeld
    <3>6. pool[k] = 0 /\ k \in Handle
      BY <3>4 DEF Pooled, TypesOK, HandleTypes, Handle
    <3>7. k \notin Cached
      BY RuntimeAssumption DEF Cached, CachedTables, CachedModules, TypesOK,
         LutTypes, KernelTypes
    <3> QED
      BY <2>1, <3>5, <3>6, <3>7 DEF Owned, OneOwner
  <2> QED
    BY <2>3, <2>4
<1>3. CASE ClearPool
  BY <1>2, <1>3, ClearingHead DEF ClearPool
<1>4. CASE ClearPoolFails
  <2>1. PICK S \in SUBSET InPool(Head(clearing)) : Empty(Head(clearing), S)
    BY <1>4 DEF ClearPoolFails
  <2> QED
    BY <1>2, <1>4, <2>1, ClearingHead DEF ClearPoolFails
<1>5. CASE DropContext
  <2> SUFFICES ASSUME NEW k \in Kernel, k \notin fresh' \cup leaked' PROVE FALSE
    BY DEF KernelsBacked
  <2>1. k \notin fresh \cup leaked \cup ContextOwns
    BY <1>5 DEF DropContext, Destroy
  <2>2. \A j \in Job : held[j] = {}
    BY <1>5 DEF DropContext, TablesHeld, TablesOf
  <2>3. k \in Handle /\ pool[k] = 0 /\ k \notin Cached
    BY <2>1 DEF ContextOwns, Pooled, Cached, Handle, TypesOK, HandleTypes
  <2> QED
    BY <2>1, <2>2, <2>3 DEF Owned, OneOwner
<1> QED
  BY <1>1, <1>3, <1>4, <1>5

LEMMA KernelsStep ==
    ASSUME Inv, KernelsBacked, RecordedModule, ClearProgress, [Next]_vars
    PROVE  KernelsBacked'
<1>1. CASE UNCHANGED vars \/ \E j \in Job : DeviceEnds(j)
  BY <1>1, KernelsKept DEF DeviceEnds, vars, handleVars, kernelVars,
     CachedModules, Inv
<1> QED
  BY <1>1, KernelsSubmit, KernelsComplete, KernelsMaintenance
  DEF Next, Call, Failure

LEMMA RecordedStep ==
    ASSUME Inv, RecordedModule, [Next]_vars PROVE RecordedModule'
<1> USE DEF Inv
<1>1. ASSUME NEW j \in Job, create_module(j) PROVE RecordedModule'
  <2> DEFINE b == Binary[NextSource(j)]
  <2>1. b \in Binaries
    BY <1>1, RuntimeAssumption
    DEF create_module, NextSource, Binaries, TypesOK, CallTypes
  <2>2. module' \in CachedModules' \cup held'[j]
    <3>1. CASE /\ moduleCache[b] # None /\ module' = moduleCache[b]
               /\ UNCHANGED moduleCache
      BY <2>1, <3>1 DEF CachedModules
    <3>2. ASSUME NEW m \in Obtainable(Module), module' = m,
                 Take(j, {m}) \/ moduleCache' = [moduleCache EXCEPT ![b] = m]
          PROVE  module' \in CachedModules' \cup held'[j]
      <4> HIDE DEF b
      <4>1. m \in Module /\ m # None
        BY ObtainableAvailable, RuntimeAssumption DEF Handle
      <4>2. CASE Take(j, {m})
        BY <3>2, <4>2, TakeLocal
      <4>3. CASE moduleCache' = [moduleCache EXCEPT ![b] = m]
        BY <2>1, <3>2, <4>1, <4>3 DEF CachedModules, TypesOK, KernelTypes
      <4> QED
        BY <3>2, <4>2, <4>3
    <3> QED
      BY <1>1, <3>1, <3>2 DEF create_module
  <2>3. \A i \in Job \ {j} : phase'[i] # "kernel"
    BY <1>1, GotoLocal DEF create_module, At, Control
  <2> QED
    BY <2>2, <2>3 DEF RecordedModule
<1>2. ASSUME ~\E j \in Job : create_module(j) PROVE RecordedModule'
  <2>1. \A j \in Job : phase'[j] = "kernel" => phase[j] = "kernel" /\ UNCHANGED <<call, phase>>
    <3> SUFFICES ASSUME NEW j \in Job, phase'[j] = "kernel"
                 PROVE  phase[j] = "kernel" /\ UNCHANGED <<call, phase>>
      OBVIOUS
    <3>1. \A i \in Job : \A p :
             Goto(i, p) /\ p # "kernel" => i # j /\ phase'[j] = phase[j]
      BY GotoLocal
    <3>2. ASSUME NEW i \in Job, NEW p, Goto(i, p), p # "kernel",
                 call \in {i, None} PROVE FALSE
      BY <3>1, <3>2, RuntimeAssumption DEF Control
    <3>3. ASSUME NEW i \in Job,
                 \/ Submit(i) \/ take_queue(i) \/ create_command_list(i)
                 \/ Allocated(i) \/ create_kernel(i)
                 \/ allocate_host(i) \/ execute_command_lists(i) \/ SubmitFails(i)
                 \/ Wait(i) \/ DropTicket(i) \/ synchronize(i) \/ SynchronizeFails(i)
                 \/ \E k \in Key : FreeDuplicateFails(i, k)
                 \/ recycle_buffers(i) \/ recycle_command_list(i)
                 \/ recycle_kernels(i) \/ recycle_queue(i) \/ DropWaits(i)
                 \/ DropEnds(i)
          PROVE  FALSE
      <4>1. call \in {i, None} /\ \E p : p # "kernel" /\ Goto(i, p)
        BY <3>3 DEF Submit, take_queue, create_command_list, Allocated,
           create_kernel, allocate_host, execute_command_lists, SubmitFails,
           Wait, DropTicket, synchronize, SynchronizeFails, FreeDuplicateFails,
           recycle_buffers, recycle_command_list, recycle_kernels,
           recycle_queue, DropWaits, DropEnds, Release, At
      <4> QED
        BY <3>2, <4>1
    <3>4. CASE \E i \in Job : \/ allocate(i) \/ DeviceEnds(i)
                            \/ \E k \in Key : insert_lut(i, k)
      BY <3>4 DEF allocate, DeviceEnds, insert_lut
    <3>5. CASE ClearRuntimeCaches \/ ClearPool \/ ClearPoolFails \/ DropContext
      <4>1. UNCHANGED phase /\ call \in {None, Maint}
        BY <3>5 DEF ClearRuntimeCaches, ClearPool, ClearPoolFails, DropContext, Empty
      <4> QED
        BY <4>1, RuntimeAssumption DEF Control
    <3>6. CASE UNCHANGED vars
      BY <3>6 DEF vars
    <3> QED
      BY <1>2, <3>3, <3>4, <3>5, <3>6 DEF Next, Call, Failure
  <2>2. ASSUME NEW j \in Job, phase[j] = "kernel", UNCHANGED <<call, phase>>
        PROVE  /\ UNCHANGED <<module, moduleCache>>
               /\ held[j] \cap Module \subseteq held'[j]
    <3>1. call = j
      BY <2>2 DEF Control
    <3>2. j \notin {None, Maint} /\ phase'[j] = "kernel"
      BY <2>2, RuntimeAssumption
    <3>3. \A i \in Job : call = i => i = j
      BY <3>1
    <3>4. \A i \in Job : \A p :
             Goto(i, p) /\ call \in {i, None} => p = "kernel"
      BY <2>2, <3>1, <3>2, GotoLocal
    <3>5. ASSUME NEW i \in Job,
                 \/ Submit(i) \/ take_queue(i) \/ create_command_list(i)
                 \/ Allocated(i) \/ create_kernel(i) \/ create_module(i)
                 \/ allocate_host(i) \/ execute_command_lists(i) \/ SubmitFails(i)
                 \/ Wait(i) \/ DropTicket(i) \/ synchronize(i) \/ SynchronizeFails(i)
                 \/ \E k \in Key : FreeDuplicateFails(i, k)
                 \/ recycle_buffers(i) \/ recycle_command_list(i)
                 \/ recycle_kernels(i) \/ recycle_queue(i) \/ DropWaits(i)
                 \/ DropEnds(i)
          PROVE  FALSE
      <4>1. CASE create_module(i)
        BY <1>2, <4>1
      <4>2. CASE ~create_module(i)
        BY <3>4, <3>5, <4>2 DEF Submit, take_queue, create_command_list, Allocated,
           create_kernel, allocate_host, execute_command_lists, SubmitFails,
           Wait, DropTicket, synchronize, SynchronizeFails, FreeDuplicateFails,
           recycle_buffers, recycle_command_list, recycle_kernels,
           recycle_queue, DropWaits, DropEnds, Release, At
      <4> QED
        BY <4>1, <4>2
    <3>6. CASE \E i \in Job : \/ allocate(i) \/ \E k \in Key : insert_lut(i, k)
      BY <2>2, <3>3, <3>6 DEF allocate, insert_lut, At
    <3>7. CASE \E i \in Job : DeviceEnds(i)
      BY <3>7 DEF DeviceEnds, kernelVars, handleVars
    <3>8. CASE ClearRuntimeCaches \/ ClearPool \/ ClearPoolFails \/ DropContext
      BY <3>1, <3>2, <3>8
      DEF ClearRuntimeCaches, ClearPool, ClearPoolFails, DropContext
    <3>9. CASE UNCHANGED vars
      BY <3>9 DEF vars, kernelVars, handleVars
    <3> QED
      BY <3>5, <3>6, <3>7, <3>8, <3>9 DEF Next, Call, Failure
  <2> SUFFICES ASSUME NEW j \in Job, phase'[j] = "kernel"
               PROVE  module' \in CachedModules' \cup held'[j]
    BY DEF RecordedModule
  <2>3. /\ phase[j] = "kernel" /\ UNCHANGED <<module, moduleCache>>
        /\ held[j] \cap Module \subseteq held'[j]
    BY <2>1, <2>2
  <2>4. module \in Module /\ module \in CachedModules \cup held[j]
    BY <2>3 DEF Control, RecordedModule
  <2> QED
    BY <2>3, <2>4 DEF CachedModules
<1> QED
  BY <1>1, <1>2

LEMMA ClearStep ==
    ASSUME Inv, ClearProgress, [Next]_vars PROVE ClearProgress'
<1> USE DEF Inv
<1>1. CASE ClearRuntimeCaches
  <2>1. active' = 0 /\ clearing' = ClearOrder
    BY <1>1 DEF ClearRuntimeCaches, NoneActive
  <2>2. Len(ClearOrder) = 7
    BY DEF ClearOrder
  <2> QED
    BY <2>1, <2>2 DEF ClearProgress
<1>2. CASE ClearPool
  <2>1. /\ clearing \in Seq(Pools) /\ clearing # <<>> /\ call = Maint
        /\ clearing' = Tail(clearing) /\ active' = active
        /\ Empty(Head(clearing), {})
    BY <1>2 DEF ClearPool, Empty, Control, TypesOK, RestTypes, Pools
  <2>2. /\ Len(clearing) \in Nat \ {0} /\ Len(clearing') = Len(clearing) - 1
        /\ \A i \in 1 .. Len(clearing') : clearing'[i] = clearing[i + 1]
        /\ Head(clearing) = clearing[1]
    BY <2>1
  <2>3. /\ active = 0 /\ Len(clearing) <= 7
        /\ \A i \in 1 .. Len(clearing) : clearing[i] = ClearOrder[i + 7 - Len(clearing)]
    BY <2>1 DEF ClearProgress
  <2>4. ASSUME NEW i \in 1 .. Len(clearing')
        PROVE  clearing'[i] = ClearOrder[i + 7 - Len(clearing')]
    <3>1. i + 1 \in 1 .. Len(clearing) /\ (i + 1) + 7 - Len(clearing) = i + 7 - Len(clearing')
      BY <2>2
    <3>2. clearing'[i] = clearing[i + 1] /\ clearing[i + 1] = ClearOrder[(i + 1) + 7 - Len(clearing)]
      BY <2>2, <2>3, <3>1
    <3> QED
      BY <3>1, <3>2
  <2>5. Len(clearing') = 1 => Pooled(Kernel)' = {}
    <3> SUFFICES ASSUME Len(clearing') = 1 PROVE Pooled(Kernel)' = {}
      OBVIOUS
    <3>1. Head(clearing) = ClearOrder[6] /\ ClearOrder[6] = "kernel"
      <4>1. \A n \in Nat : n - 1 = 1 => n = 2
        OBVIOUS
      <4>2. Len(clearing) = 2
        BY <2>2, <4>1
      <4>3. 1 \in 1 .. Len(clearing) /\ 1 + 7 - Len(clearing) = 6
        BY <4>2
      <4>4. clearing[1] = ClearOrder[6]
        BY <2>3, <4>3
      <4>5. ClearOrder[6] = "kernel"
        BY DEF ClearOrder
      <4> QED
        BY <2>2, <4>4, <4>5
    <3>2. InPool(Head(clearing)) = Pooled(Kernel)
      BY <3>1 DEF InPool
    <3>3. Kernel \subseteq Handle
      BY DEF Handle
    <3> QED
      BY <2>1, <3>2, <3>3 DEF Empty, Pooled
  <2> QED
    BY <2>1, <2>2, <2>3, <2>4, <2>5 DEF ClearProgress
<1>3. CASE ClearPoolFails \/ DropContext
  BY <1>3, RuntimeAssumption DEF ClearPoolFails, DropContext, ClearProgress
<1>4. ASSUME NEW j \in Job,
             \/ Submit(j) \/ Wait(j) \/ DropTicket(j) \/ Call(j) \/ Failure(j)
      PROVE  ClearProgress'
  <2>1. call' \in {j, None}
    BY <1>4 DEF Submit, Wait, DropTicket, Call, Failure, take_queue, create_command_list,
       allocate, Allocated, create_module, create_kernel, allocate_host,
       execute_command_lists, SubmitFails, synchronize, SynchronizeFails,
       insert_lut, FreeDuplicateFails, recycle_buffers, recycle_command_list,
       recycle_kernels, recycle_queue, DropWaits, DropEnds, Release, At
  <2> QED
    BY <2>1, RuntimeAssumption DEF ClearProgress
<1>5. CASE UNCHANGED vars \/ \E j \in Job : DeviceEnds(j)
  BY <1>5 DEF DeviceEnds, vars, restVars, handleVars, ClearProgress, Pooled
<1> QED
  BY <1>1, <1>2, <1>3, <1>4, <1>5 DEF Next

KernelInv == Inv /\ KernelsBacked /\ RecordedModule /\ ClearProgress

LEMMA KernelInvInit == Init => KernelInv
<1> SUFFICES ASSUME Init PROVE KernelInv
  OBVIOUS
<1>1. KernelsBacked
  <2>1. Kernel \subseteq fresh
    BY RuntimeAssumption DEF Init, Handle
  <2> QED
    BY <2>1 DEF KernelsBacked
<1>2. RecordedModule /\ ClearProgress
  BY RuntimeAssumption DEF Init, RecordedModule, ClearProgress
<1> QED
  BY <1>1, <1>2, InvInit DEF KernelInv

LEMMA KernelInvStep == KernelInv /\ [Next]_vars => KernelInv'
  BY InvStep, KernelsStep, RecordedStep, ClearStep DEF KernelInv

\* No module is destroyed while a kernel of it exists, cached or not, pooled
\* or with a ticket, whatever fails.
THEOREM LevelZeroModulesOutlive == Spec => []ModulesOutliveKernels
<1>1. KernelInv => ModulesOutliveKernels
  <2> SUFFICES ASSUME KernelInv, NEW k \in Kernel \ (fresh \cup leaked)
               PROVE  made[k].module \notin fresh
    BY DEF ModulesOutliveKernels
  <2>1. Backed(k)
    BY DEF KernelInv, KernelsBacked
  <2>2. made[k].module \in Module /\ made[k].key \in BOOLEAN
    BY <2>1 DEF Backed
  <2>3. OneOwner(made[k].module)
    BY <2>2 DEF KernelInv, Inv, Owned, Handle
  <2> QED
    BY <2>1, <2>2, <2>3 DEF Backed, OneOwner, Cached
<1> QED
  BY <1>1, KernelInvInit, KernelInvStep, PTL DEF Spec

-----------------------------------------------------------------------------
(* The device, as long as no more than one call of the driver fails.       *)

AfterDevice == {"pending", "sync", "drop", "dropQueue"}

\* What the device works on belongs to a ticket that has still to wait.
InFlight ==
    \A j \in running :
       /\ phase[j] \in AfterDevice
       /\ phase[j] = "dropQueue" => faults > 0
       /\ uses[j] \subseteq held[j]

\* Nothing happens once the context is gone.
Closed ==
    ~alive => /\ call = None /\ \A j \in Job : phase[j] = "idle"
              /\ running = {} /\ fresh \cup leaked = Handle

FlightInv == Inv /\ InFlight /\ Closed

LEMMA FlightKept ==
    ASSUME Inv, InFlight, UNCHANGED gpuVars, NEW j \in Job,
           j \notin running \/ (phase'[j] \in AfterDevice \ {"dropQueue"} /\ held' = held),
           \A i \in Job \ {j} : phase'[i] = phase[i] /\ held'[i] = held[i],
           faults' = faults \/ faults' = faults + 1
    PROVE  InFlight'
<1> SUFFICES ASSUME NEW i \in running
             PROVE  /\ phase'[i] \in AfterDevice
                    /\ phase'[i] = "dropQueue" => faults' > 0
                    /\ uses'[i] \subseteq held'[i]
  BY DEF InFlight, gpuVars
<1>1. faults \in Nat /\ i \in Job
  BY RuntimeAssumption DEF Inv, TypesOK, GpuTypes
<1>2. CASE i = j
  BY <1>2 DEF InFlight, gpuVars
<1>3. CASE i # j
  BY <1>1, <1>3 DEF InFlight, gpuVars
<1> QED
  BY <1>2, <1>3

LEMMA InFlightSubmit ==
    ASSUME Inv, InFlight, NEW j \in Job,
           \/ Submit(j) \/ take_queue(j) \/ create_command_list(j) \/ allocate(j)
           \/ Allocated(j) \/ create_module(j) \/ create_kernel(j)
           \/ allocate_host(j) \/ execute_command_lists(j) \/ SubmitFails(j)
    PROVE  InFlight'
<1> USE DEF Inv
<1>0. j \notin running
  BY DEF Submit, take_queue, create_command_list, allocate, Allocated,
     create_module, create_kernel, allocate_host, execute_command_lists,
     SubmitFails, At, SubmitPhases, InFlight, AfterDevice
<1>1. \A i \in Job \ {j} : phase'[i] = phase[i] /\ held'[i] = held[i]
  <2>1. UNCHANGED phase \/ \E p : Goto(j, p)
    BY DEF Submit, take_queue, create_command_list, allocate, Allocated,
       create_module, create_kernel, allocate_host, execute_command_lists,
       SubmitFails, Release
  <2>2. UNCHANGED held \/ Release(j) \/ \E hs : Take(j, hs)
    BY AllocateCases DEF Submit, take_queue, create_command_list, Allocated,
       create_module, create_kernel, allocate_host, execute_command_lists,
       SubmitFails, handleVars
  <2> QED
    BY <2>1, <2>2, GotoLocal, TakeLocal DEF Release, TypesOK, HandleTypes
<1>2. CASE execute_command_lists(j)
  <2>1. /\ running' = running \cup {j} /\ uses' = [uses EXCEPT ![j] = held[j]]
        /\ Goto(j, "pending") /\ UNCHANGED <<held, faults>>
    BY <1>2 DEF execute_command_lists, handleVars
  <2>2. /\ uses'[j] = held[j] /\ \A i \in Job \ {j} : uses'[i] = uses[i]
    BY <2>1 DEF TypesOK, GpuTypes
  <2>3. running \subseteq Job
    BY DEF TypesOK, GpuTypes
  <2> QED
    BY <1>0, <1>1, <2>1, <2>2, <2>3, GotoLocal DEF InFlight, AfterDevice
<1>3. CASE ~execute_command_lists(j)
  <2>1. UNCHANGED gpuVars /\ (faults' = faults \/ faults' = faults + 1)
    BY <1>3 DEF Submit, take_queue, create_command_list, allocate, Allocated,
       create_module, create_kernel, allocate_host, SubmitFails, InjectFault
  <2> QED
    BY <1>0, <1>1, <2>1, FlightKept
<1> QED
  BY <1>2, <1>3

LEMMA InFlightComplete ==
    ASSUME MaxFaults <= 1, Inv, InFlight, NEW j \in Job,
           \/ Wait(j) \/ DropTicket(j) \/ synchronize(j) \/ SynchronizeFails(j)
           \/ \E k \in Key : insert_lut(j, k) \/ FreeDuplicateFails(j, k)
           \/ recycle_buffers(j) \/ recycle_command_list(j)
           \/ recycle_kernels(j) \/ recycle_queue(j) \/ DropWaits(j)
           \/ DropEnds(j)
    PROVE  InFlight'
<1> USE DEF Inv
<1>1. UNCHANGED gpuVars /\ (faults' = faults \/ faults' = faults + 1)
  BY DEF Wait, DropTicket, synchronize, SynchronizeFails, insert_lut,
     FreeDuplicateFails, recycle_buffers, recycle_command_list,
     recycle_kernels, recycle_queue, DropWaits, DropEnds, InjectFault
<1>2. CASE Wait(j) \/ DropTicket(j) \/ SynchronizeFails(j)
  <2>1. UNCHANGED held /\ (Goto(j, "sync") \/ Goto(j, "drop"))
    BY <1>2 DEF Wait, DropTicket, SynchronizeFails, handleVars
  <2> QED
    BY <1>1, <2>1, GotoLocal, FlightKept DEF AfterDevice
<1>3. CASE \/ synchronize(j) \/ DropEnds(j)
           \/ \E k \in Key : insert_lut(j, k) \/ FreeDuplicateFails(j, k)
           \/ recycle_buffers(j) \/ recycle_command_list(j)
           \/ recycle_kernels(j) \/ recycle_queue(j)
  <2>1. j \notin running
    BY <1>3 DEF synchronize, DropEnds, insert_lut, FreeDuplicateFails,
       recycle_buffers, recycle_command_list, recycle_kernels, recycle_queue,
       DeviceDone, At, InFlight, AfterDevice
  <2>2. UNCHANGED phase \/ \E p : Goto(j, p)
    BY <1>3 DEF synchronize, DropEnds, insert_lut, FreeDuplicateFails,
       recycle_buffers, recycle_command_list, recycle_kernels, recycle_queue,
       Release
  <2>3. \A i \in Job \ {j} : held'[i] = held[i]
    <3>1. CASE \E k \in Key : insert_lut(j, k)
      BY <3>1 DEF insert_lut, TypesOK, HandleTypes
    <3>2. CASE ~\E k \in Key : insert_lut(j, k)
      <4>1. UNCHANGED held \/ Release(j) \/ \E hs : Recycle(j, hs) \/ Forget(j, hs)
        BY <1>3, <3>2 DEF synchronize, DropEnds, FreeDuplicateFails,
           recycle_buffers, recycle_command_list, recycle_kernels,
           recycle_queue, handleVars
      <4> QED
        BY <4>1, RecycleLocal DEF Release, TypesOK, HandleTypes
    <3> QED
      BY <3>1, <3>2
  <2> QED
    BY <1>1, <2>1, <2>2, <2>3, GotoLocal, FlightKept
<1>4. CASE DropWaits(j)
  <2>1. UNCHANGED held
    BY <1>4 DEF DropWaits, handleVars
  <2>2. CASE phase[j] = "drop"
    <3>1. Goto(j, "dropQueue") /\ (DeviceDone(j) \/ InjectFault)
      BY <1>4, <2>2 DEF DropWaits
    <3>2. CASE DeviceDone(j)
      BY <1>1, <2>1, <3>1, <3>2, GotoLocal, FlightKept DEF DeviceDone
    <3>3. CASE InjectFault
      <4>1. faults' > 0 /\ faults \in Nat
        BY <3>3, RuntimeAssumption DEF InjectFault, TypesOK
      <4>2. running \subseteq Job
        BY DEF TypesOK, GpuTypes
      <4> QED
        BY <1>1, <2>1, <3>1, <4>1, <4>2, GotoLocal DEF InFlight, AfterDevice, gpuVars
    <3> QED
      BY <3>1, <3>2, <3>3
  <2>3. CASE phase[j] = "dropQueue"
    <3>1. Goto(j, "free") /\ (DeviceDone(j) \/ InjectFault)
      BY <1>4, <2>3 DEF DropWaits
    <3>2. j \notin running
      <4>1. faults \in 0 .. MaxFaults /\ MaxFaults \in Nat
        BY RuntimeAssumption DEF TypesOK
      <4> QED
        BY <2>3, <3>1, <4>1 DEF InFlight, InjectFault, DeviceDone
    <3> QED
      BY <1>1, <2>1, <3>1, <3>2, GotoLocal, FlightKept
  <2> QED
    BY <1>4, <2>2, <2>3 DEF DropWaits
<1> QED
  BY <1>2, <1>3, <1>4

LEMMA InFlightStep ==
    ASSUME MaxFaults <= 1, Inv, InFlight, [Next]_vars PROVE InFlight'
<1> USE DEF Inv
<1>1. ASSUME NEW j \in Job, DeviceEnds(j) PROVE InFlight'
  BY <1>1 DEF DeviceEnds, handleVars, InFlight, TypesOK, GpuTypes
<1>2. CASE ClearRuntimeCaches \/ ClearPool \/ ClearPoolFails \/ DropContext
  <2>1. UNCHANGED <<gpuVars, phase, held>> /\ (faults' = faults \/ faults' = faults + 1)
    BY <1>2 DEF ClearRuntimeCaches, ClearPool, ClearPoolFails, DropContext,
       Empty, handleVars, InjectFault
  <2>2. faults \in Nat
    BY RuntimeAssumption DEF TypesOK
  <2> QED
    BY <2>1, <2>2 DEF InFlight, gpuVars
<1>3. CASE UNCHANGED vars
  BY <1>3 DEF vars, gpuVars, handleVars, InFlight
<1> QED
  BY <1>1, <1>2, <1>3, InFlightSubmit, InFlightComplete DEF Next, Call, Failure

LEMMA ClosedStep ==
    ASSUME Inv, InFlight, Closed, [Next]_vars PROVE Closed'
<1> USE DEF Inv
<1>1. CASE DropContext
  <2>1. running = {}
    BY <1>1 DEF DropContext, InFlight, AfterDevice, TypesOK, GpuTypes
  <2>2. \A h \in Handle : h \in fresh \cup leaked \cup ContextOwns
    <3>1. \A j \in Job : held[j] = {}
      BY <1>1 DEF DropContext, TablesHeld, TablesOf
    <3> QED
      BY <3>1 DEF Owned, OneOwner, ContextOwns, Pooled, Cached
  <2>3. ContextOwns \subseteq Handle
    BY DEF ContextOwns, Pooled, CachedTables, CachedModules, Handle, TypesOK,
       LutTypes, KernelTypes
  <2> QED
    BY <1>1, <2>1, <2>2, <2>3
    DEF DropContext, Closed, Destroy, gpuVars, TypesOK, HandleTypes
<1>2. CASE alive
  <2>1. UNCHANGED alive \/ DropContext
    BY RestStep
  <2> QED
    BY <1>1, <1>2, <2>1 DEF Closed
<1>3. CASE ~alive
  <2>1. /\ call = None /\ running = {} /\ \A j \in Job : phase[j] = "idle"
        /\ None \notin Job /\ Maint # None
    BY <1>3, RuntimeAssumption DEF Closed
  <2>2. UNCHANGED vars
    BY <1>3, <2>1, NothingAfterDrop
  <2> QED
    BY <2>2 DEF Closed, vars, handleVars, gpuVars, restVars
<1> QED
  BY <1>2, <1>3

LEMMA FlightStep == MaxFaults <= 1 /\ FlightInv /\ [Next]_vars => FlightInv'
  BY InvStep, InFlightStep, ClosedStep DEF FlightInv

LEMMA FlightInit == Init => FlightInv
  BY InvInit DEF Init, FlightInv, InFlight, Closed

\* If no more than one call of the driver fails, the device works on nothing
\* once the context is gone, and all that existed has been destroyed.
THEOREM LevelZeroNothingOutlives ==
    ASSUME MaxFaults <= 1 PROVE Spec => []NothingOutlivesContext
<1>1. FlightInv => NothingOutlivesContext
  BY DEF FlightInv, Closed, NothingOutlivesContext
<1> QED
  BY <1>1, FlightInit, FlightStep, PTL DEF Spec

-----------------------------------------------------------------------------
(* The lookup tables.                                                      *)

Reads(j) == phase[j] \in SubmitPhases \cup {"pending", "sync"} \/ j \in running

\* A program reads the tables it uploads itself and cached ones.
ReadsOf(j) ==
    /\ phase[j] = "idle" => \A k \in Key : tables[j][k] = None
    /\ Reads(j) => \A k \in Key : tables[j][k] # None =>
                      k \in pending[j] \/ tables[j][k] = lutCache[k]

\* A submission that ended has uploaded its tables.
UploadedOf(j) ==
    phase[j] \in Executed /\ j \notin running =>
       \A k \in pending[j] : content[tables[j][k]] = k

CachedUploaded == \A k \in Key : lutCache[k] # None => content[lutCache[k]] = k

ReadyTables ==
    (\A j \in Job : ReadsOf(j) /\ UploadedOf(j)) /\ CachedUploaded

\* A step of j that writes and destroys only what is neither cached nor held
\* by another ticket leaves the other tickets' tables alone.
LEMMA ReadyLocal ==
    ASSUME FlightInv, ReadyTables, NEW j \in Job,
           \A d \in Device : \/ content'[d] = content[d]
                             \/ d \notin Cached /\ \A i \in Job \ {j} : d \notin held[i],
           \A i \in Job \ {j} :
              /\ phase'[i] = phase[i] /\ (i \in running' <=> i \in running)
              /\ tables'[i] = tables[i] /\ pending'[i] = pending[i],
           \A k \in Key : \/ lutCache'[k] = lutCache[k]
                          \/ lutCache[k] = None /\ content'[lutCache'[k]] = k,
           ReadsOf(j)', UploadedOf(j)'
    PROVE  ReadyTables'
<1> USE DEF FlightInv, Inv
<1>1. ASSUME NEW i \in Job \ {j} PROVE ReadsOf(i)' /\ UploadedOf(i)'
  <2>1. ReadsOf(i) /\ UploadedOf(i)
    BY DEF ReadyTables
  <2>2. \A k \in pending[i] : /\ tables[i][k] \in held[i] \cap Device
                              /\ content'[tables[i][k]] = content[tables[i][k]]
    BY DEF TablesHeld, TablesOf
  <2>3. ASSUME NEW k \in Key, Reads(i), tables[i][k] # None
        PROVE  k \in pending[i] \/ tables[i][k] = lutCache'[k]
    BY <2>1, <2>3 DEF ReadsOf
  <2>4. ReadsOf(i)'
    BY <2>1, <2>3 DEF ReadsOf, Reads
  <2>5. UploadedOf(i)'
    BY <2>1, <2>2 DEF UploadedOf
  <2> QED
    BY <2>4, <2>5
<1>2. ASSUME NEW k \in Key, lutCache'[k] # None PROVE content'[lutCache'[k]] = k
  <2>1. CASE lutCache'[k] = lutCache[k]
    <3>1. lutCache[k] \in Cached /\ lutCache[k] \in Device
      BY <1>2, <2>1 DEF Cached, CachedTables, TypesOK, LutTypes
    <3>2. content'[lutCache[k]] = content[lutCache[k]]
      BY <3>1
    <3> QED
      BY <1>2, <2>1, <3>2 DEF ReadyTables, CachedUploaded
  <2> QED
    BY <2>1
<1> QED
  BY <1>1, <1>2 DEF ReadyTables, CachedUploaded

\* A step of j that only moves it on.
LEMMA ReadyGoto ==
    ASSUME FlightInv, ReadyTables, NEW j \in Job, NEW p, Goto(j, p),
           UNCHANGED lutVars,
           \A i \in Job \ {j} : i \in running' <=> i \in running,
           p # "idle", Reads(j)' => Reads(j) \/ phase[j] = "idle",
           p \in Executed => j \in running' \/ (phase[j] \in Executed /\ j \notin running)
    PROVE  ReadyTables'
<1>1. phase'[j] = p /\ \A i \in Job \ {j} : phase'[i] = phase[i]
  BY GotoLocal DEF FlightInv, Inv
<1>2. ReadsOf(j) /\ UploadedOf(j)
  BY DEF ReadyTables
<1>3. ReadsOf(j)'
  BY <1>1, <1>2 DEF ReadsOf, lutVars
<1>4. UploadedOf(j)'
  BY <1>1, <1>2 DEF UploadedOf, lutVars
<1> QED
  BY <1>1, <1>3, <1>4, ReadyLocal DEF lutVars

LEMMA ReadyRelease ==
    ASSUME FlightInv, ReadyTables, NEW j \in Job, Release(j), UNCHANGED gpuVars,
           j \notin running
    PROVE  ReadyTables'
<1> USE DEF FlightInv, Inv
<1>1. /\ phase'[j] = "idle" /\ tables'[j] = NoTables /\ pending'[j] = {}
      /\ \A i \in Job \ {j} : /\ phase'[i] = phase[i] /\ tables'[i] = tables[i]
                              /\ pending'[i] = pending[i]
  BY GotoLocal DEF Release, TypesOK, LutTypes
<1>2. \A d \in Device \ held[j] : content'[d] = content[d]
  BY DEF Release, Destroy
<1>3. \A h \in held[j] : h \notin Cached /\ \A i \in Job \ {j} : h \notin held[i]
  BY DEF Owned, OneOwner, TypesOK, HandleTypes
<1>5. UNCHANGED <<lutCache, gpuVars>>
  BY DEF Release
<1>4. ReadsOf(j)' /\ UploadedOf(j)'
  BY <1>1 DEF ReadsOf, Reads, UploadedOf, NoTables, gpuVars, SubmitPhases, Executed
<1> QED
  BY <1>1, <1>2, <1>3, <1>4, <1>5, ReadyLocal DEF gpuVars

LEMMA ReadyAllocate ==
    ASSUME FlightInv, ReadyTables, NEW j \in Job, allocate(j)
    PROVE  ReadyTables'
<1> USE DEF FlightInv, Inv
<1>1. /\ phase[j] = "alloc" /\ UNCHANGED <<phase, gpuVars>> /\ j \notin running
      /\ ReadsOf(j) /\ Reads(j)
  BY DEF allocate, At, ReadyTables, InFlight, AfterDevice, Reads, SubmitPhases
<1>2. UploadedOf(j)'
  BY <1>1 DEF UploadedOf, Executed, SubmitPhases
<1>3. ASSUME NEW e \in Key \cup {"host", "device"},
             e \in Key, lutCache[e] # None,
             tables' = [tables EXCEPT ![j][e] = lutCache[e]],
             UNCHANGED <<handleVars, pending, lutCache, content>>
      PROVE  ReadyTables'
  <2>1. /\ tables'[j][e] = lutCache[e]
        /\ \A k \in Key \ {e} : tables'[j][k] = tables[j][k]
        /\ \A i \in Job \ {j} : tables'[i] = tables[i]
    BY <1>3 DEF TypesOK, LutTypes
  <2>2. ReadsOf(j)'
    BY <1>1, <1>3, <2>1 DEF ReadsOf
  <2> QED
    BY <1>1, <1>2, <1>3, <2>1, <2>2, ReadyLocal DEF gpuVars
<1>4. ASSUME NEW e \in Key \cup {"host", "device"},
             NEW d \in Device, NEW hs \in SUBSET (Device \cup Host),
             UNCHANGED lutCache, d \in hs, Take(j, hs),
             \A h \in hs : h \in fresh \/ pool[h] > 0,
             content' = [content EXCEPT ![d] = None],
             \/ /\ e \in Key
                /\ tables' = [tables EXCEPT ![j][e] = d]
                /\ pending' = [pending EXCEPT ![j] = @ \cup {e}]
             \/ UNCHANGED <<tables, pending>>
      PROVE  ReadyTables'
  <2>1. d \notin Cached /\ \A i \in Job \ {j} : d \notin held[i]
    BY <1>4 DEF Owned, OneOwner, Handle
  <2>2. \A i \in Job \ {j} : tables'[i] = tables[i] /\ pending'[i] = pending[i]
    BY <1>4 DEF TypesOK, LutTypes
  <2>3. \A k \in Key : \/ k \in pending'[j]
                       \/ tables'[j][k] = tables[j][k] /\ k \notin pending[j]
    <3>1. pending[j] \in SUBSET Key /\ tables[j] \in [Key -> Device \cup {None}]
      BY DEF TypesOK, LutTypes
    <3>2. CASE UNCHANGED <<tables, pending>>
      BY <3>2
    <3>3. CASE /\ e \in Key /\ tables' = [tables EXCEPT ![j][e] = d]
               /\ pending' = [pending EXCEPT ![j] = @ \cup {e}]
      <4>1. pending'[j] = pending[j] \cup {e}
        BY <3>3 DEF TypesOK, LutTypes
      <4>2. \A k \in Key \ {e} : tables'[j][k] = tables[j][k]
        BY <3>1, <3>3 DEF TypesOK, LutTypes
      <4> QED
        BY <4>1, <4>2
    <3> QED
      BY <1>4, <3>2, <3>3
  <2>4. ReadsOf(j)'
    BY <1>1, <1>4, <2>3 DEF ReadsOf
  <2>5. \A c \in Device \ {d} : content'[c] = content[c]
    BY <1>4 DEF TypesOK, LutTypes
  <2> QED
    BY <1>1, <1>2, <1>4, <2>1, <2>2, <2>4, <2>5, ReadyLocal DEF gpuVars
<1> QED
  BY <1>3, <1>4, AllocateCases

LEMMA ReadySubmit ==
    ASSUME FlightInv, ReadyTables, NEW j \in Job,
           \/ Submit(j) \/ take_queue(j) \/ create_command_list(j) \/ allocate(j)
           \/ Allocated(j) \/ create_module(j) \/ create_kernel(j)
           \/ allocate_host(j) \/ execute_command_lists(j) \/ SubmitFails(j)
    PROVE  ReadyTables'
<1> USE DEF FlightInv, Inv
<1>1. CASE \/ Submit(j) \/ take_queue(j) \/ create_command_list(j) \/ Allocated(j)
           \/ create_module(j) \/ create_kernel(j) \/ allocate_host(j)
  <2>1. /\ \E p \in SubmitPhases : Goto(j, p) /\ UNCHANGED <<lutVars, gpuVars>>
        /\ phase[j] \in SubmitPhases \cup {"idle"}
    BY <1>1 DEF Submit, take_queue, create_command_list, Allocated, create_module,
       create_kernel, allocate_host, At, SubmitPhases
  <2>2. \A p \in SubmitPhases : p # "idle" /\ p \notin Executed
    BY DEF SubmitPhases, Executed
  <2>3. Reads(j) \/ phase[j] = "idle"
    BY <2>1 DEF Reads
  <2> QED
    BY <2>1, <2>2, <2>3, ReadyGoto DEF gpuVars
<1>2. CASE execute_command_lists(j)
  <2>1. /\ Goto(j, "pending") /\ UNCHANGED lutVars /\ running' = running \cup {j}
        /\ phase[j] = "execute"
    BY <1>2 DEF execute_command_lists, At
  <2>2. Reads(j)
    BY <2>1 DEF Reads, SubmitPhases
  <2> QED
    BY <2>1, <2>2, ReadyGoto
<1>3. CASE SubmitFails(j)
  <2>1. j \notin running
    BY <1>3 DEF SubmitFails, SubmitPhases, InFlight, AfterDevice
  <2> QED
    BY <1>3, <2>1, ReadyRelease DEF SubmitFails
<1> QED
  BY <1>1, <1>2, <1>3, ReadyAllocate

LEMMA ReadyInsert ==
    ASSUME FlightInv, ReadyTables, NEW j \in Job, NEW k \in Key, insert_lut(j, k)
    PROVE  ReadyTables'
<1> USE DEF FlightInv, Inv
<1> DEFINE d == tables[j][k]
<1>1. /\ phase[j] = "tables" /\ k \in pending[j] /\ UNCHANGED <<phase, tables, gpuVars>>
      /\ pending' = [pending EXCEPT ![j] = @ \ {k}]
      /\ \/ /\ lutCache[k] = None /\ lutCache' = [lutCache EXCEPT ![k] = d]
            /\ UNCHANGED content
         \/ Destroy({d}) /\ UNCHANGED lutCache
  BY DEF insert_lut, At
<1>2. j \notin running /\ ~Reads(j) /\ phase[j] \in Executed
  BY <1>1 DEF InFlight, AfterDevice, Reads, Executed, SubmitPhases, Phases
<1>3. \A l \in pending[j] : /\ tables[j][l] \in held[j] \cap Device
                            /\ content[tables[j][l]] = l
                            /\ l # k => tables[j][l] # d
  BY <1>1, <1>2 DEF TablesHeld, TablesOf, ReadyTables, UploadedOf
<1>4. /\ pending'[j] = pending[j] \ {k}
      /\ \A i \in Job \ {j} : pending'[i] = pending[i]
  BY <1>1 DEF TypesOK, LutTypes
<1>5. d \notin Cached /\ \A i \in Job \ {j} : d \notin held[i]
  <2>1. d \in held[j] /\ d \in Handle
    BY <1>1, <1>3 DEF Handle
  <2> QED
    BY <2>1 DEF Owned, OneOwner
<1> HIDE DEF d
<1>6. \A c \in Device \ {d} : content'[c] = content[c]
  BY <1>1 DEF Destroy
<1>7. \A l \in Key : \/ lutCache'[l] = lutCache[l]
                     \/ lutCache[l] = None /\ content'[lutCache'[l]] = l
  <2>1. content[d] = k
    BY <1>1, <1>3 DEF d
  <2> QED
    BY <1>1, <2>1 DEF TypesOK, LutTypes
<1>8. ReadsOf(j)' /\ UploadedOf(j)'
  <2>1. ~Reads(j)' /\ phase'[j] # "idle"
    BY <1>1, <1>2 DEF Reads, gpuVars
  <2>2. \A l \in pending'[j] : content'[tables'[j][l]] = l
    BY <1>1, <1>3, <1>4, <1>6
  <2> QED
    BY <2>1, <2>2 DEF ReadsOf, UploadedOf
<1> QED
  BY <1>1, <1>4, <1>5, <1>6, <1>7, <1>8, ReadyLocal DEF gpuVars

LEMMA ReadyComplete ==
    ASSUME MaxFaults <= 1, FlightInv, ReadyTables, NEW j \in Job,
           \/ Wait(j) \/ DropTicket(j) \/ synchronize(j) \/ SynchronizeFails(j)
           \/ \E k \in Key : insert_lut(j, k) \/ FreeDuplicateFails(j, k)
           \/ recycle_buffers(j) \/ recycle_command_list(j)
           \/ recycle_kernels(j) \/ recycle_queue(j) \/ DropWaits(j)
           \/ DropEnds(j)
    PROVE  ReadyTables'
<1> USE DEF FlightInv, Inv
<1>1. CASE \/ Wait(j) \/ DropTicket(j) \/ synchronize(j) \/ SynchronizeFails(j)
           \/ recycle_buffers(j) \/ recycle_command_list(j)
           \/ recycle_kernels(j) \/ recycle_queue(j) \/ DropWaits(j)
  <2>1. \E p \in {"sync", "drop", "tables", "reset", "recycle", "return", "free",
                   "dropQueue"} :
           Goto(j, p) /\ (p = "sync" => phase[j] = "pending")
    BY <1>1 DEF Wait, DropTicket, synchronize, SynchronizeFails, recycle_buffers,
       recycle_command_list, recycle_kernels, recycle_queue, DropWaits
  <2>2. UNCHANGED <<lutVars, gpuVars>>
    BY <1>1 DEF Wait, DropTicket, synchronize, SynchronizeFails, recycle_buffers,
       recycle_command_list, recycle_kernels, recycle_queue, DropWaits
  <2>3. phase[j] \in Executed
    BY <1>1 DEF Wait, DropTicket, synchronize, SynchronizeFails, recycle_buffers,
       recycle_command_list, recycle_kernels, recycle_queue, DropWaits, At,
       Executed, Phases, SubmitPhases
  <2>4. PICK p \in {"sync", "drop", "tables", "reset", "recycle", "return", "free",
                    "dropQueue"} :
           Goto(j, p) /\ (p = "sync" => phase[j] = "pending")
    BY <2>1
  <2>5. phase'[j] = p
    BY <2>4, GotoLocal
  <2>6. Reads(j)' => Reads(j)
    BY <2>2, <2>4, <2>5 DEF Reads, SubmitPhases, gpuVars
  <2>7. p # "idle"
    OBVIOUS
  <2> QED
    BY <2>2, <2>3, <2>4, <2>6, <2>7, ReadyGoto DEF gpuVars
<1>2. ASSUME NEW k \in Key, FreeDuplicateFails(j, k) PROVE ReadyTables'
  <2>1. /\ phase[j] = "tables" /\ Goto(j, "drop")
        /\ pending' = [pending EXCEPT ![j] = {}]
        /\ UNCHANGED <<tables, lutCache, content, gpuVars>>
    BY <1>2 DEF FreeDuplicateFails, At
  <2>2. phase'[j] = "drop" /\ \A i \in Job \ {j} : phase'[i] = phase[i]
    BY <2>1, GotoLocal
  <2>3. pending'[j] = {} /\ \A i \in Job \ {j} : pending'[i] = pending[i]
    BY <2>1 DEF TypesOK, LutTypes
  <2>4. j \notin running
    BY <2>1 DEF InFlight, AfterDevice
  <2>5. ReadsOf(j)' /\ UploadedOf(j)'
    BY <2>1, <2>2, <2>3, <2>4 DEF ReadsOf, UploadedOf, Reads, SubmitPhases, gpuVars
  <2> QED
    BY <2>1, <2>2, <2>3, <2>5, ReadyLocal DEF gpuVars
<1>3. CASE DropEnds(j)
  <2>1. j \notin running
    BY <1>3 DEF DropEnds, At, InFlight, AfterDevice
  <2> QED
    BY <1>3, <2>1, ReadyRelease DEF DropEnds
<1> QED
  BY <1>1, <1>2, <1>3, ReadyInsert

LEMMA ReadyDevice ==
    ASSUME FlightInv, ReadyTables, NEW j \in Job, DeviceEnds(j)
    PROVE  ReadyTables'
<1> USE DEF FlightInv, Inv
<1> DEFINE hs == {tables[j][k] : k \in pending[j]}
<1>1. /\ j \in running /\ UNCHANGED <<phase, tables, pending, lutCache>>
      /\ running' = running \ {j} /\ pending[j] \subseteq Key
  BY DEF DeviceEnds, TypesOK, LutTypes
<1>2. ASSUME NEW d \in Device \ hs PROVE content'[d] = content[d]
  BY DEF DeviceEnds
<1>3. \A k \in pending[j] : /\ tables[j][k] \in held[j] \cap Device
                            /\ \A l \in pending[j] : tables[j][l] = tables[j][k] => l = k
  BY DEF TablesHeld, TablesOf
<1>4. \A h \in hs : h \notin Cached /\ \A i \in Job \ {j} : h \notin held[i]
  <2>1. \A h \in hs : h \in held[j] /\ h \in Handle
    BY <1>3 DEF Handle
  <2> QED
    BY <2>1 DEF Owned, OneOwner
<1>5. ASSUME NEW k \in pending[j] PROVE content'[tables[j][k]] = k
  <2>1. (CHOOSE l \in pending[j] : tables[j][l] = tables[j][k]) = k
    BY <1>3
  <2>2. content'[tables[j][k]] =
           IF \E l \in pending[j] : tables[j][l] = tables[j][k]
           THEN CHOOSE l \in pending[j] : tables[j][l] = tables[j][k]
           ELSE content[tables[j][k]]
    BY <1>3 DEF DeviceEnds
  <2> QED
    BY <2>1, <2>2
<1>6. ReadsOf(j)' /\ UploadedOf(j)'
  <2>1. ReadsOf(j) /\ (Reads(j)' => Reads(j))
    BY <1>1 DEF ReadyTables, Reads
  <2>2. ReadsOf(j)'
    BY <1>1, <2>1 DEF ReadsOf
  <2> QED
    BY <1>1, <1>5, <2>2 DEF UploadedOf
<1> HIDE DEF hs
<1> QED
  BY <1>1, <1>2, <1>4, <1>6, ReadyLocal

\* No ticket reads a table while the caches are cleared.
LEMMA ReadyMaintenance ==
    ASSUME FlightInv, ClearProgress, ReadyTables,
           ClearRuntimeCaches \/ ClearPool \/ ClearPoolFails \/ DropContext
    PROVE  ReadyTables'
<1> USE DEF FlightInv, Inv
<1>1. UNCHANGED <<phase, tables, pending, gpuVars>>
  BY DEF ClearRuntimeCaches, ClearPool, ClearPoolFails, DropContext, Empty, lutVars
<1>2. \A j \in Job : phase[j] = "idle"
  <2>1. CASE DropContext
    BY <2>1 DEF DropContext
  <2>2. CASE ClearRuntimeCaches \/ ClearPool \/ ClearPoolFails
    <3>1. call \in {None, Maint} /\ active = 0
      BY <2>2 DEF ClearRuntimeCaches, NoneActive, ClearPool, ClearPoolFails,
         ClearProgress
    <3> QED
      BY <3>1, NothingHeld
  <2> QED
    BY <2>1, <2>2
<1>3. ASSUME NEW j \in Job PROVE ReadsOf(j)' /\ UploadedOf(j)'
  <2>1. phase'[j] = "idle" /\ \A k \in Key : tables'[j][k] = None
    BY <1>1, <1>2 DEF ReadyTables, ReadsOf
  <2> QED
    BY <2>1 DEF ReadsOf, UploadedOf, Executed
<1>4. ASSUME NEW p \in Pools, NEW S \in SUBSET InPool(p), Empty(p, S)
      PROVE  CachedUploaded'
  <2> SUFFICES ASSUME NEW k \in Key, lutCache'[k] # None
               PROVE  content'[lutCache'[k]] = k
    BY DEF CachedUploaded
  <2>1. p # "lut" /\ lutCache'[k] = lutCache[k]
    BY <1>4 DEF Empty, NoTables
  <2>2. lutCache[k] \in CachedTables /\ lutCache[k] \in Device
    BY <2>1 DEF CachedTables, TypesOK, LutTypes
  <2>3. pool[lutCache[k]] = 0 /\ lutCache[k] \notin CachedModules
    <3>1. lutCache[k] \in Handle /\ lutCache[k] \in Cached
      BY <2>2 DEF Handle, Cached
    <3>2. CachedModules \subseteq Module
      BY DEF CachedModules, TypesOK, KernelTypes
    <3> QED
      BY <2>2, <3>1, <3>2, RuntimeAssumption DEF Owned, OneOwner
  <2>4. lutCache[k] \notin InPool(p)
    <3>1. p \in {"device", "host", "lut", "queue", "list", "kernel", "module"}
      BY DEF Pools, ClearOrder
    <3> QED
      BY <2>1, <2>3, <3>1 DEF InPool, Pooled
  <2>5. content'[lutCache[k]] = content[lutCache[k]]
    BY <1>4, <2>2, <2>4 DEF Empty, Destroy
  <2> QED
    BY <2>1, <2>5 DEF ReadyTables, CachedUploaded
<1>5. CachedUploaded'
  <2>1. CASE ClearRuntimeCaches
    BY <2>1 DEF ClearRuntimeCaches, lutVars, ReadyTables, CachedUploaded
  <2>2. CASE ClearPool
    BY <1>4, <2>2, ClearingHead DEF ClearPool
  <2>3. CASE ClearPoolFails
    <3>1. PICK S \in SUBSET InPool(Head(clearing)) : Empty(Head(clearing), S)
      BY <2>3 DEF ClearPoolFails
    <3> QED
      BY <1>4, <2>3, <3>1, ClearingHead DEF ClearPoolFails
  <2>4. CASE DropContext
    BY <2>4 DEF DropContext, NoTables, CachedUploaded
  <2> QED
    BY <2>1, <2>2, <2>3, <2>4
<1> QED
  BY <1>3, <1>5 DEF ReadyTables

ReadyInv == FlightInv /\ ClearProgress /\ ReadyTables

LEMMA ReadyStep == MaxFaults <= 1 /\ ReadyInv /\ [Next]_vars => ReadyInv'
<1> SUFFICES ASSUME MaxFaults <= 1, ReadyInv, [Next]_vars PROVE ReadyInv'
  OBVIOUS
<1>1. UNCHANGED vars => ReadyTables'
  BY DEF ReadyInv, ReadyTables, ReadsOf, UploadedOf, CachedUploaded, Reads,
     vars, lutVars, gpuVars
<1>2. ReadyTables'
  BY <1>1, ReadySubmit, ReadyComplete, ReadyDevice, ReadyMaintenance
  DEF Next, Call, Failure, ReadyInv
<1> QED
  BY <1>2, FlightStep, ClearStep DEF ReadyInv, FlightInv

LEMMA ReadyInit == Init => ReadyInv
<1> SUFFICES ASSUME Init PROVE ReadyInv
  OBVIOUS
<1>1. ClearProgress
  BY KernelInvInit DEF KernelInv
<1>2. ReadyTables
  BY DEF Init, ReadyTables, ReadsOf, UploadedOf, CachedUploaded, Reads, NoTables,
     SubmitPhases, Executed
<1> QED
  BY <1>1, <1>2, FlightInit DEF ReadyInv

\* If no more than one call of the driver fails, a program never runs with a
\* lookup table whose memory is gone or was never filled.
THEOREM LevelZeroTablesReady == ASSUME MaxFaults <= 1 PROVE Spec => []TablesReady
<1>1. ReadyInv => TablesReady
  <2> SUFFICES ASSUME ReadyInv, NEW j \in running, NEW k \in Key, tables[j][k] # None
               PROVE  /\ tables[j][k] \notin fresh /\ pool[tables[j][k]] = 0
                      /\ k \in pending[j] \/ content[tables[j][k]] = k
    BY DEF TablesReady
  <2> USE DEF ReadyInv, FlightInv, Inv
  <2>1. j \in Job /\ Reads(j) /\ ReadsOf(j)
    BY DEF TypesOK, GpuTypes, Reads, ReadyTables
  <2>2. CASE k \in pending[j]
    BY <2>1, <2>2 DEF TablesHeld, TablesOf, Owned, OneOwner, Handle
  <2>3. CASE k \notin pending[j]
    <3>1. tables[j][k] = lutCache[k]
      BY <2>1, <2>3 DEF ReadsOf
    <3>2. lutCache[k] \in Cached /\ lutCache[k] \in Handle
      BY <3>1 DEF Cached, CachedTables, TypesOK, LutTypes, Handle
    <3> QED
      BY <3>1, <3>2 DEF Owned, OneOwner, ReadyTables, CachedUploaded
  <2> QED
    BY <2>2, <2>3
<1> QED
  BY <1>1, ReadyInit, ReadyStep, PTL DEF Spec

-----------------------------------------------------------------------------
(* LevelZeroRuntime implements ExclusiveTickets as long as no more than one *)
(* call of the driver fails: a step of a ticket acquires or releases what   *)
(* it moves, and a step of the context keeps or gives up what it caches.    *)

Owner == [h \in Handle |-> OwnerOf(h)]
Busy  == UNION {uses[j] : j \in running}
Kept  == Cached \cup leaked

AbstractStep == [Tickets!Next]_(Tickets!ticketVars)

-----------------------------------------------------------------------------
(* Who owns a handle.                                                      *)

LEMMA OwnerHeld ==
    ASSUME Owned, NEW h \in Handle, NEW j \in Job, h \in held[j]
    PROVE  OwnerOf(h) = j
<1>1. \A i \in Job : h \in held[i] => i = j
  BY DEF Owned, OneOwner
<1> QED
  BY <1>1 DEF OwnerOf

LEMMA OwnerNotHeld ==
    ASSUME NEW h, \A j \in Job : h \notin held[j]
    PROVE  OwnerOf(h) = IF h \in Kept THEN Maint ELSE None
  BY DEF OwnerOf, Kept, Cached

LEMMA OwnerAvailable ==
    ASSUME Owned, NEW h \in Handle, h \in fresh \/ pool[h] > 0
    PROVE  OwnerOf(h) = None /\ \A j \in Job : h \notin held[j]
<1>1. (\A j \in Job : h \notin held[j]) /\ h \notin Kept
  BY DEF Owned, OneOwner, Kept
<1> QED
  BY <1>1, OwnerNotHeld

\* The owner of a handle depends on who holds it and on what is kept.
LEMMA OwnerSame ==
    ASSUME NEW h, \A j \in Job : h \in held'[j] <=> h \in held[j],
           h \in Kept' <=> h \in Kept
    PROVE  OwnerOf(h)' = OwnerOf(h)
<1>1. \A j \in Job : (h \in held'[j]) = (h \in held[j])
  OBVIOUS
<1>2. (CHOOSE j \in Job : h \in held'[j]) = (CHOOSE j \in Job : h \in held[j])
  BY <1>1
<1> QED
  BY <1>2 DEF OwnerOf, Kept, Cached

LEMMA OwnerHeldNext ==
    ASSUME Owned', NEW h \in Handle, NEW j \in Job, h \in held'[j]
    PROVE  OwnerOf(h)' = j
<1>1. \A i \in Job : h \in held'[i] => i = j
  BY DEF Owned, OneOwner
<1> QED
  BY <1>1 DEF OwnerOf

LEMMA OwnerNotHeldNext ==
    ASSUME NEW h, \A j \in Job : h \notin held'[j]
    PROVE  OwnerOf(h)' \in {None, Maint}
  BY DEF OwnerOf

LEMMA OwnerFunctions ==
    Owner' \in [Handle -> Tickets!Owners] /\ DOMAIN Owner = Handle
  BY DEF Owner, OwnerOf, Tickets!Owners

\* What the device may use is held by a ticket that runs.
LEMMA BusyHeld ==
    ASSUME FlightInv, NEW h \in Busy
    PROVE  \E i \in running : i \in Job /\ h \in held[i] /\ h \in Handle
<1>1. PICK i \in running : h \in uses[i]
  BY DEF Busy
<1>2. i \in Job /\ h \in held[i] /\ h \in Handle
  BY <1>1 DEF FlightInv, InFlight, Inv, TypesOK, GpuTypes
<1> QED
  BY <1>2

-----------------------------------------------------------------------------
(* The abstract step of each kind of move.                                 *)

LEMMA StutterStep ==
    ASSUME UNCHANGED <<held, leaked, lutCache, moduleCache, gpuVars>>
    PROVE  AbstractStep
<1>1. Kept' = Kept
  BY DEF Kept, Cached, CachedTables, CachedModules
<1>2. Owner' = Owner
  BY <1>1, OwnerSame DEF Owner
<1>3. Busy' = Busy
  BY DEF Busy, gpuVars
<1> QED
  BY <1>2, <1>3 DEF AbstractStep, Tickets!ticketVars, Owner, Busy

LEMMA TakeStep ==
    ASSUME FlightInv, FlightInv', NEW j \in Job, NEW hs \in SUBSET Handle,
           Take(j, hs), Available(hs), UNCHANGED <<lutCache, moduleCache, gpuVars>>
    PROVE  AbstractStep
<1>1. Kept' = Kept /\ Busy' = Busy
  BY DEF Take, Kept, Cached, CachedTables, CachedModules, Busy, gpuVars
<1>2. /\ held'[j] = held[j] \cup hs
      /\ \A i \in Job \ {j} : held'[i] = held[i]
  BY TakeLocal DEF FlightInv, Inv
<1>3. ASSUME NEW h \in Handle, h \notin hs PROVE OwnerOf(h)' = OwnerOf(h)
  BY <1>1, <1>2, <1>3, OwnerSame
<1>4. ASSUME NEW h \in hs PROVE OwnerOf(h) = None /\ OwnerOf(h)' = j
  <2>1. h \in Handle /\ h \in held'[j]
    BY <1>2, <1>4
  <2> QED
    BY <1>4, <2>1, OwnerAvailable, OwnerHeldNext DEF FlightInv, Inv, Available
<1>5. \A r \in Tickets!Moved : Owner[r] = None /\ Owner'[r] = j
  BY <1>3, <1>4 DEF Tickets!Moved, Owner
<1>6. Tickets!Acquire(j)
  BY <1>1, <1>5, OwnerFunctions DEF Tickets!Acquire, Owner, Busy
<1> QED
  BY <1>6 DEF AbstractStep, Tickets!Next

\* A ticket that no longer runs gives some of its handles up: to a pool, a
\* cache, the driver that destroys them, or to oblivion.
LEMMA GiveUpStep ==
    ASSUME FlightInv, FlightInv', NEW j \in Job, j \notin running,
           held'[j] \subseteq held[j],
           \A i \in Job \ {j} : held'[i] = held[i],
           \A h \in Handle \ held[j] : h \in Kept' <=> h \in Kept,
           UNCHANGED gpuVars
    PROVE  AbstractStep
<1>1. Busy' = Busy
  BY DEF Busy, gpuVars
<1>2. ASSUME NEW r \in Tickets!Moved
      PROVE  /\ r \in Handle /\ r \notin Busy
             /\ Owner[r] = j /\ Owner'[r] \in {None, Maint}
  <2>1. r \in Handle /\ OwnerOf(r)' # OwnerOf(r)
    BY DEF Tickets!Moved
  <2>2. r \in held[j]
    BY <2>1, OwnerSame
  <2>3. OwnerOf(r) = j
    BY <2>1, <2>2, OwnerHeld DEF FlightInv, Inv
  <2>4. r \notin held'[j]
    BY <2>1, <2>3, OwnerHeldNext DEF FlightInv, Inv
  <2>5. \A i \in Job \ {j} : r \notin held[i]
    BY <2>1, <2>2 DEF FlightInv, Inv, Owned, OneOwner
  <2>6. \A i \in Job : r \notin held'[i]
    BY <2>4, <2>5
  <2>7. r \notin Busy
    BY <2>5, BusyHeld
  <2> QED
    BY <2>1, <2>3, <2>6, <2>7, OwnerNotHeldNext DEF Owner
<1>3. Tickets!Release(j)
  BY <1>1, <1>2, OwnerFunctions DEF Tickets!Release, Owner, Busy
<1> QED
  BY <1>3 DEF AbstractStep, Tickets!Next

\* The context caches, destroys or loses what no ticket holds.
LEMMA KeepStep ==
    ASSUME FlightInv, FlightInv', UNCHANGED <<held, gpuVars>>
    PROVE  AbstractStep
<1>1. Busy' = Busy
  BY DEF Busy, gpuVars
<1>2. ASSUME NEW r \in Tickets!Moved
      PROVE  /\ r \in Handle /\ r \notin Busy
             /\ {Owner[r], Owner'[r]} = {None, Maint}
  <2>1. r \in Handle /\ OwnerOf(r)' # OwnerOf(r)
    BY DEF Tickets!Moved
  <2>2. ASSUME NEW j \in Job PROVE r \notin held[j]
    <3> SUFFICES ASSUME r \in held[j] PROVE FALSE
      OBVIOUS
    <3>1. OwnerOf(r) = j /\ OwnerOf(r)' = j
      BY <2>1, OwnerHeld, OwnerHeldNext DEF FlightInv, Inv
    <3> QED
      BY <2>1, <3>1
  <2>3. OwnerOf(r) \in {None, Maint} /\ OwnerOf(r)' \in {None, Maint}
    BY <2>2, OwnerNotHeld, OwnerNotHeldNext
  <2>4. r \notin Busy
    BY <2>2, BusyHeld
  <2>5. {OwnerOf(r), OwnerOf(r)'} = {None, Maint}
    BY <2>1, <2>3
  <2> QED
    BY <2>1, <2>4, <2>5 DEF Owner
<1>3. Tickets!Keep
  BY <1>1, <1>2, OwnerFunctions DEF Tickets!Keep, Owner, Busy
<1> QED
  BY <1>3 DEF AbstractStep, Tickets!Next

LEMMA ExecuteStep ==
    ASSUME FlightInv, NEW j \in Job, execute_command_lists(j)
    PROVE  AbstractStep
<1>1. /\ running' = running \cup {j} /\ uses' = [uses EXCEPT ![j] = held[j]]
      /\ UNCHANGED <<held, leaked, lutCache, moduleCache>>
  BY DEF execute_command_lists, handleVars, lutVars, kernelVars
<1>2. Owner' = Owner
  <2>1. Kept' = Kept
    BY <1>1 DEF Kept, Cached, CachedTables, CachedModules
  <2> QED
    BY <1>1, <2>1, OwnerSame DEF Owner
<1>3. j \notin running
  BY DEF execute_command_lists, At, FlightInv, InFlight, AfterDevice
<1>4. uses'[j] = held[j] /\ \A i \in running : uses'[i] = uses[i]
  BY <1>1, <1>3 DEF FlightInv, Inv, TypesOK, GpuTypes
<1>5. Busy' = Busy \cup held[j]
  BY <1>1, <1>4 DEF Busy
<1>6. held[j] \subseteq {r \in Handle : Owner[r] = j}
  <2>1. held[j] \subseteq Handle
    BY DEF FlightInv, Inv, TypesOK, HandleTypes
  <2> QED
    BY <2>1, OwnerHeld DEF FlightInv, Inv, Owner
<1>7. Tickets!Submit(j)
  BY <1>2, <1>5, <1>6 DEF Tickets!Submit, Owner, Busy
<1> QED
  BY <1>7 DEF AbstractStep, Tickets!Next

LEMMA DeviceStep ==
    ASSUME NEW j \in Job, DeviceEnds(j), FlightInv PROVE AbstractStep
<1>1. /\ running' = running \ {j} /\ uses' = [uses EXCEPT ![j] = {}]
      /\ UNCHANGED <<held, leaked, lutCache, moduleCache>>
  BY DEF DeviceEnds, handleVars, kernelVars
<1>2. Owner' = Owner
  <2>1. Kept' = Kept
    BY <1>1 DEF Kept, Cached, CachedTables, CachedModules
  <2> QED
    BY <1>1, <2>1, OwnerSame DEF Owner
<1>3. \A i \in running' : uses'[i] = uses[i]
  BY <1>1 DEF FlightInv, Inv, TypesOK, GpuTypes
<1>4. Busy' \subseteq Busy
  BY <1>1, <1>3 DEF Busy
<1>5. Tickets!Finish
  BY <1>2, <1>4 DEF Tickets!Finish, Owner, Busy
<1> QED
  BY <1>5 DEF AbstractStep, Tickets!Next

-----------------------------------------------------------------------------
LEMMA RefineRelease ==
    ASSUME FlightInv, FlightInv', NEW j \in Job, j \notin running,
           Release(j), UNCHANGED gpuVars
    PROVE  AbstractStep
<1>1. held'[j] = {} /\ \A i \in Job \ {j} : held'[i] = held[i]
  BY DEF Release, FlightInv, Inv, TypesOK, HandleTypes
<1>2. Kept' = Kept
  BY DEF Release, Kept, Cached, CachedTables, CachedModules
<1> QED
  BY <1>1, <1>2, GiveUpStep

LEMMA RefineGiveBack ==
    ASSUME FlightInv, FlightInv', NEW j \in Job, j \notin running,
           NEW hs \in SUBSET held[j], Recycle(j, hs) \/ Forget(j, hs),
           UNCHANGED <<lutCache, moduleCache, gpuVars>>
    PROVE  AbstractStep
<1>1. /\ held'[j] = held[j] \ hs
      /\ \A i \in Job \ {j} : held'[i] = held[i]
  BY RecycleLocal DEF FlightInv, Inv
<1>2. leaked \subseteq leaked' /\ leaked' \subseteq leaked \cup hs
  BY DEF Recycle, Forget
<1>3. \A h \in Handle \ held[j] : h \in Kept' <=> h \in Kept
  BY <1>2 DEF Kept, Cached, CachedTables, CachedModules
<1> QED
  BY <1>1, <1>3, GiveUpStep

LEMMA RefineSubmit ==
    ASSUME FlightInv, FlightInv', NEW j \in Job,
           \/ Submit(j) \/ take_queue(j) \/ create_command_list(j) \/ allocate(j)
           \/ Allocated(j) \/ create_module(j) \/ create_kernel(j)
           \/ allocate_host(j) \/ execute_command_lists(j) \/ SubmitFails(j)
    PROVE  AbstractStep
<1> USE DEF FlightInv, Inv
<1>0. ASSUME NEW h \in Handle, Take(j, {h}), Available({h}),
             UNCHANGED <<lutCache, moduleCache, gpuVars>>
      PROVE  AbstractStep
  BY <1>0, TakeStep
<1>1. CASE Submit(j) \/ Allocated(j)
  BY <1>1, StutterStep
  DEF Submit, Allocated, handleVars, lutVars, kernelVars
<1>2. CASE take_queue(j) \/ create_command_list(j)
  <2>1. PICK h \in Obtainable(Queue) \cup Obtainable(List) : Take(j, {h})
    BY <1>2 DEF take_queue, create_command_list
  <2>2. h \in Handle /\ Available({h})
    BY ObtainableAvailable DEF Handle, Available
  <2> QED
    BY <1>0, <1>2, <2>1, <2>2
    DEF take_queue, create_command_list, lutVars, kernelVars
<1>3. CASE allocate(j)
  <2>1. UNCHANGED <<lutCache, moduleCache, gpuVars>>
    BY <1>3, AllocateCases DEF allocate, kernelVars
  <2>2. \/ UNCHANGED handleVars
        \/ \E hs \in SUBSET Handle : Take(j, hs) /\ Available(hs)
    BY <1>3, AllocateCases DEF Available, Handle
  <2> QED
    BY <2>1, <2>2, StutterStep, TakeStep DEF handleVars
<1>4. CASE create_module(j)
  <2>1. UNCHANGED <<lutCache, gpuVars>>
    BY <1>4 DEF create_module, lutVars
  <2>2. CASE UNCHANGED held
    BY <2>1, <2>2, KeepStep
  <2>3. ASSUME NEW m \in Obtainable(Module), Take(j, {m}), UNCHANGED moduleCache
        PROVE  AbstractStep
    <3>1. m \in Handle /\ Available({m})
      BY ObtainableAvailable DEF Handle, Available
    <3> QED
      BY <1>0, <2>1, <2>3, <3>1
  <2> QED
    BY <1>4, <2>2, <2>3 DEF create_module, handleVars
<1>5. CASE create_kernel(j)
  <2>1. PICK k \in ObtainableKernels(module, NextSource(j)) : Take(j, {k})
    BY <1>5 DEF create_kernel
  <2>2. k \in Handle /\ Available({k})
    BY ObtainableKernel DEF Handle, Available
  <2> QED
    BY <1>0, <1>5, <2>1, <2>2 DEF create_kernel, lutVars
<1>6. CASE allocate_host(j)
  <2>1. UNCHANGED handleVars \/ \E h \in Obtainable(Host) : Take(j, {h})
    BY <1>6 DEF allocate_host
  <2>2. \A h \in Obtainable(Host) : h \in Handle /\ Available({h})
    BY ObtainableAvailable DEF Handle, Available
  <2>3. UNCHANGED <<lutCache, moduleCache, gpuVars>>
    BY <1>6 DEF allocate_host, lutVars, kernelVars
  <2> QED
    BY <1>0, <2>1, <2>2, <2>3, StutterStep DEF handleVars
<1>7. CASE execute_command_lists(j)
  BY <1>7, ExecuteStep
<1>8. CASE SubmitFails(j)
  <2>1. j \notin running
    BY <1>8 DEF SubmitFails, SubmitPhases, InFlight, AfterDevice
  <2> QED
    BY <1>8, <2>1, RefineRelease DEF SubmitFails
<1> QED
  BY <1>1, <1>2, <1>3, <1>4, <1>5, <1>6, <1>7, <1>8

LEMMA RefineComplete ==
    ASSUME FlightInv, FlightInv', NEW j \in Job,
           \/ Wait(j) \/ DropTicket(j) \/ synchronize(j) \/ SynchronizeFails(j)
           \/ \E k \in Key : insert_lut(j, k) \/ FreeDuplicateFails(j, k)
           \/ recycle_buffers(j) \/ recycle_command_list(j)
           \/ recycle_kernels(j) \/ recycle_queue(j) \/ DropWaits(j)
           \/ DropEnds(j)
    PROVE  AbstractStep
<1> USE DEF FlightInv, Inv
<1>1. CASE \/ Wait(j) \/ DropTicket(j) \/ synchronize(j) \/ SynchronizeFails(j)
           \/ DropWaits(j)
  BY <1>1, StutterStep DEF Wait, DropTicket, synchronize, SynchronizeFails,
     DropWaits, handleVars, lutVars, kernelVars
<1>2. ASSUME phase[j] \in {"tables", "reset", "recycle", "return", "free"}
      PROVE  j \notin running
  BY <1>2 DEF InFlight, AfterDevice
<1>3. ASSUME NEW k \in Key, insert_lut(j, k) PROVE AbstractStep
  <2> DEFINE d == tables[j][k]
  <2>1. /\ d \in held[j] /\ d \in Device /\ j \notin running
        /\ held' = [held EXCEPT ![j] = @ \ {d}]
        /\ UNCHANGED <<leaked, moduleCache, gpuVars>>
        /\ lutCache' \in {lutCache, [lutCache EXCEPT ![k] = d]}
        /\ lutCache[k] = None \/ lutCache' = lutCache
    BY <1>2, <1>3 DEF insert_lut, At, TablesHeld, TablesOf
  <2> HIDE DEF d
  <2>2. held'[j] \subseteq held[j] /\ \A i \in Job \ {j} : held'[i] = held[i]
    BY <2>1 DEF TypesOK, HandleTypes
  <2>3. ASSUME NEW h \in Handle \ held[j] PROVE h \in Kept' <=> h \in Kept
    <3>1. h # d /\ h # None
      BY <2>1, RuntimeAssumption
    <3>2. ASSUME NEW i \in Key PROVE lutCache'[i] = h <=> lutCache[i] = h
      BY <2>1, <3>1 DEF TypesOK, LutTypes
    <3>3. h \in CachedTables' <=> h \in CachedTables
      BY <3>2 DEF CachedTables
    <3> QED
      BY <2>1, <3>3 DEF Kept, Cached, CachedModules
  <2> QED
    BY <2>1, <2>2, <2>3, GiveUpStep
<1>4. ASSUME NEW k \in Key, FreeDuplicateFails(j, k) PROVE AbstractStep
  <2>1. j \notin running /\ {tables[j][k]} \subseteq held[j]
    BY <1>2, <1>4 DEF FreeDuplicateFails, At, TablesHeld, TablesOf
  <2>2. UNCHANGED <<lutCache, moduleCache, gpuVars>>
    BY <1>4 DEF FreeDuplicateFails, kernelVars
  <2> QED
    BY <1>4, <2>1, <2>2, RefineGiveBack DEF FreeDuplicateFails
<1>5. CASE \/ recycle_buffers(j) \/ recycle_command_list(j)
           \/ recycle_kernels(j) \/ recycle_queue(j)
  <2>1. j \notin running
    BY <1>2, <1>5 DEF recycle_buffers, recycle_command_list, recycle_kernels,
       recycle_queue, At
  <2>2. UNCHANGED <<lutCache, moduleCache, gpuVars>>
    BY <1>5 DEF recycle_buffers, recycle_command_list, recycle_kernels,
       recycle_queue, lutVars, kernelVars
  <2>3. \/ UNCHANGED handleVars
        \/ \E hs \in SUBSET held[j] : Recycle(j, hs) \/ Forget(j, hs)
    BY <1>5 DEF recycle_buffers, recycle_command_list, recycle_kernels,
       recycle_queue
  <2> QED
    BY <2>1, <2>2, <2>3, StutterStep, RefineGiveBack DEF handleVars
<1>6. CASE DropEnds(j)
  <2>1. j \notin running
    BY <1>2, <1>6 DEF DropEnds, At
  <2> QED
    BY <1>6, <2>1, RefineRelease DEF DropEnds
<1> QED
  BY <1>1, <1>3, <1>4, <1>5, <1>6

LEMMA RefineStep ==
    ASSUME FlightInv, FlightInv', [Next]_vars PROVE AbstractStep
<1>1. CASE ClearRuntimeCaches \/ ClearPool \/ ClearPoolFails \/ DropContext
  BY <1>1, KeepStep DEF ClearRuntimeCaches, ClearPool, ClearPoolFails,
     DropContext, Empty, handleVars
<1>2. CASE UNCHANGED vars
  BY <1>2, StutterStep DEF vars, handleVars, lutVars, kernelVars
<1> QED
  BY <1>1, <1>2, DeviceStep, RefineSubmit, RefineComplete
  DEF Next, Call, Failure

LEMMA RefineInit == Init => Tickets!Init
<1> SUFFICES ASSUME Init PROVE Tickets!Init
  OBVIOUS
<1>1. Kept = {} /\ \A j \in Job : held[j] = {}
  BY DEF Init, Kept, Cached, CachedTables, CachedModules, NoTables
<1>2. \A h \in Handle : OwnerOf(h) = None
  BY <1>1, OwnerNotHeld
<1>3. running = {}
  BY DEF Init
<1> QED
  BY <1>2, <1>3 DEF Tickets!Init

\* The tickets of the Level Zero runtime have exclusive use of what the
\* device works on, for any number of tickets, handles and programs, if no
\* more than one call of the driver fails.
THEOREM LevelZeroRefines ==
    ASSUME MaxFaults <= 1 PROVE Spec => ImplementsExclusiveTickets
<1>1. FlightInv /\ FlightInv' /\ [Next]_vars => [Tickets!Next]_(Tickets!ticketVars)
  BY RefineStep DEF AbstractStep
<1>2. Spec => []FlightInv
  BY FlightInit, FlightStep, PTL DEF Spec
<1> QED
  BY <1>1, <1>2, RefineInit, PTL
  DEF Spec, ImplementsExclusiveTickets, Tickets!Spec
=============================================================================
