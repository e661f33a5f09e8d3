------------------------ MODULE VulkanRuntimeProofs ------------------------
(* Theorems about VulkanRuntime, for every value of its constants.         *)
EXTENDS VulkanRuntime, FiniteSetTheorems, TLAPS

\* What a pool pop or a creation hands out is one of the handles asked for.
LEMMA CreatableSubset ==
    ASSUME NEW S PROVE Creatable(S) \subseteq S \cap fresh
  BY DEF Creatable

LEMMA ObtainableSubset ==
    ASSUME NEW S PROVE Obtainable(S) \subseteq S
  BY CreatableSubset DEF Obtainable, Pooled

\* The occurrence number of a pass is smaller than the number of passes.
LEMMA OccurrenceBound ==
    ASSUME NEW j \in Job, NEW i \in 1 .. Len(Shaders[j])
    PROVE  occurrence(j, i) \in Occurrences
<1> DEFINE S == {m \in 1 .. i - 1 : Shaders[j][m] = Shaders[j][i]}
<1>1. Shaders[j] \in Seq(Shader) /\ Len(Shaders[j]) \in Nat
  BY RuntimeAssumption
<1>2. IsFiniteSet(1 .. i - 1) /\ Cardinality(1 .. i - 1) = i - 1
  <2>1. 1 \in Int /\ i - 1 \in Int /\ i >= 1
    BY <1>1
  <2>2. /\ IsFiniteSet(1 .. i - 1)
        /\ Cardinality(1 .. i - 1)
             = IF 1 > i - 1 THEN 0 ELSE (i - 1) - 1 + 1
    BY <2>1, FS_Interval, Zenon
  <2> QED
    BY <1>1, <2>1, <2>2
<1>3. IsFiniteSet(S) /\ Cardinality(S) <= i - 1
  BY <1>2, FS_Subset
<1>4. Cardinality(S) \in Nat
  BY <1>3, FS_CardinalityType
<1>5. Cardinality(S) \in 0 .. Len(Shaders[j])
  BY <1>1, <1>3, <1>4
<1> QED
  BY <1>5 DEF occurrence, Occurrences, MaxPasses

-----------------------------------------------------------------------------
(* Type correctness.                                                       *)

HandleTypes ==
    /\ fresh \in SUBSET Handle
    /\ pool \in [Handle -> Nat]
    /\ held \in [Job -> SUBSET Handle]
    /\ leaked \in SUBSET Slot

LEMMA TakeType ==
    ASSUME TypeOK, NEW j \in Job, NEW hs \in SUBSET Handle, Take(j, hs)
    PROVE  HandleTypes'
  BY DEF TypeOK, Take, HandleTypes

LEMMA RecycleType ==
    ASSUME TypeOK, NEW j \in Job, NEW hs, Recycle(j, hs)
    PROVE  HandleTypes'
  BY DEF TypeOK, Recycle, HandleTypes

\* The control state of a call.
CallTypes ==
    /\ phase \in [Job -> Phases]
    /\ mode \in [Job -> AllModes]
    /\ stage \in [Job -> 1 .. 2]
    /\ count \in [Job -> Nat]

LEMMA ReturnType ==
    ASSUME TypeOK, NEW j \in Job, Return(j)
    PROVE  CallTypes'
  BY DEF TypeOK, Return, Goto, Phases, AllModes, CallTypes

LEMMA ReturnErrorType ==
    ASSUME TypeOK, NEW j \in Job, NEW keep, NEW lose \in SUBSET Slot,
           ReturnError(j, keep, lose), UNCHANGED gpuVars, faults' \in 0 .. MaxFaults
    PROVE  TypeOK'
<1>1. HandleTypes'
  BY DEF TypeOK, ReturnError, HandleTypes, Destroyed
<1>2. lock' \in Job \cup {Maint, None} /\ phase' \in [Job -> Phases]
      /\ mode' \in [Job -> AllModes] /\ stage' \in [Job -> 1 .. 2]
      /\ count' \in [Job -> Nat]
  BY DEF TypeOK, ReturnError, Return, Goto, Phases, AllModes
<1>3. resident' \in [Job -> Transient \cup {None}]
      /\ luts' \in [Job -> [Key -> LutBuffer \cup {None}]]
      /\ pending' \in [Job -> SUBSET Key]
      /\ pipes' \in [Job -> Seq(Pipe)]
  BY DEF TypeOK, ReturnError, NoLuts
<1> QED
  BY <1>1, <1>2, <1>3
  DEF TypeOK, ReturnError, HandleTypes, restVars, gpuVars

LEMMA TypeOKBuild ==
    ASSUME TypeOK, NEW j \in Job, Build(j)
    PROVE  TypeOK'
<1> USE RuntimeAssumption
<1>1. CASE execution_guard(j)
  BY <1>1 DEF execution_guard, TypeOK, Goto, Phases, handleVars, lutVars, pipeVars, gpuVars, callVars, restVars
<1>2. CASE allocate_program_storage(j)
  <2> DEFINE k == Plan[j][count[j] + 1]
  <2>1. k \in Key \cup {None}
    BY <1>2 DEF allocate_program_storage, AllocationsDone, TypeOK
  <2>2. PICK s \in Obtainable(Staging) :
          \/ /\ \E t \in Obtainable(Transient) : Take(j, {s, t})
             /\ UNCHANGED lutVars
          \/ /\ k \in Key /\ Take(j, {s})
             /\ luts' = [luts EXCEPT ![j][k] = lutCache[k]]
             /\ UNCHANGED <<pending, lutCache, content>>
          \/ /\ k \in Key /\ Take(j, {s})
             /\ \E b \in LutBuffer :
                   /\ luts' = [luts EXCEPT ![j][k] = b]
                   /\ content' = [content EXCEPT ![b] = None]
             /\ pending' = [pending EXCEPT ![j] = @ \cup {k}]
             /\ UNCHANGED lutCache
    BY <1>2, <2>1 DEF allocate_program_storage
  <2>3. s \in Handle
    BY ObtainableSubset DEF Handle
  <2>4. HandleTypes'
    <3>1. CASE \E t \in Obtainable(Transient) : Take(j, {s, t})
      BY <3>1, <2>3, ObtainableSubset, TakeType DEF Handle
    <3>2. CASE Take(j, {s})
      BY <3>2, <2>3, TakeType
    <3> QED
      BY <2>2, <3>1, <3>2
  <2>5. /\ luts' \in [Job -> [Key -> LutBuffer \cup {None}]]
        /\ pending' \in [Job -> SUBSET Key]
        /\ lutCache' \in [Key -> LutBuffer \cup {None}]
        /\ content' \in [LutBuffer -> Key \cup {None}]
    <3>1. CASE UNCHANGED lutVars
      BY <3>1 DEF TypeOK, lutVars
    <3>2. CASE /\ k \in Key
               /\ luts' = [luts EXCEPT ![j][k] = lutCache[k]]
               /\ UNCHANGED <<pending, lutCache, content>>
      BY <3>2 DEF TypeOK
    <3>3. CASE /\ k \in Key
               /\ \E b \in LutBuffer :
                     /\ luts' = [luts EXCEPT ![j][k] = b]
                     /\ content' = [content EXCEPT ![b] = None]
               /\ pending' = [pending EXCEPT ![j] = @ \cup {k}]
               /\ UNCHANGED lutCache
      BY <3>3 DEF TypeOK
    <3> HIDE DEF k
    <3> QED
      BY <2>2, <3>1, <3>2, <3>3
  <2>6. count' \in [Job -> Nat]
    BY <1>2 DEF allocate_program_storage, TypeOK
  <2> QED
    BY <1>2, <2>4, <2>5, <2>6
    DEF allocate_program_storage, TypeOK, HandleTypes, handleVars, lutVars, pipeVars, gpuVars, callVars, restVars
<1>3. CASE StorageReady(j)
  <2>1. HandleTypes'
    BY <1>3, RecycleType DEF StorageReady, TypeOK, HandleTypes, handleVars
  <2> QED
    BY <1>3, <2>1
    DEF StorageReady, TypeOK, HandleTypes, Goto, Phases, handleVars, lutVars, pipeVars, gpuVars, callVars, restVars
<1>4. CASE take_async_pipeline(j)
  <2>1. PICK p \in Obtainable(PipesFor(j, count[j] + 1)) :
          Take(j, {p}) /\ BindPass(j, count[j] + 1, p)
    BY <1>4 DEF take_async_pipeline
  <2>2. p \in Pipe /\ p \in Handle
    BY <2>1, ObtainableSubset DEF PipesFor, Handle
  <2>3. HandleTypes'
    BY <2>1, <2>2, TakeType
  <2>4. pipes' \in [Job -> Seq(Pipe)] /\ count' \in [Job -> Nat]
    BY <2>1, <2>2 DEF BindPass, TypeOK
  <2> QED
    BY <1>4, <2>3, <2>4
    DEF take_async_pipeline, TypeOK, HandleTypes, handleVars, lutVars, pipeVars, gpuVars, callVars, restVars
<1>5. CASE pipeline_for_shader_occurrence(j)
  <2> DEFINE i == count[j] + 1
             c == <<Shaders[j][i], occurrence(j, i)>>
  <2>1. i \in 1 .. Len(Shaders[j])
    BY <1>5 DEF pipeline_for_shader_occurrence, TypeOK
  <2>2. c \in Shader \X Occurrences
    BY <2>1, OccurrenceBound
  <2>3. \E p \in Pipe : /\ BindPass(j, i, p)
                       /\ \/ UNCHANGED <<syncCache, fresh>>
                          \/ /\ syncCache' = [syncCache EXCEPT ![c] = p]
                             /\ fresh' = fresh \ {p}
    <3>1. CASE /\ syncCache[c] # None
               /\ BindPass(j, i, syncCache[c])
               /\ UNCHANGED <<syncCache, fresh>>
      BY <2>2, <3>1 DEF TypeOK
    <3>2. CASE \E p \in Creatable(PipesFor(j, i)) :
                  /\ BindPass(j, i, p)
                  /\ syncCache' = [syncCache EXCEPT ![c] = p]
                  /\ fresh' = fresh \ {p}
      <4>1. Creatable(PipesFor(j, i)) \subseteq Pipe
        <5>1. Creatable(PipesFor(j, i)) \subseteq PipesFor(j, i)
          BY CreatableSubset
        <5> QED
          BY <5>1 DEF PipesFor
      <4> HIDE DEF i, c
      <4> QED
        BY <3>2, <4>1
    <3> QED
      BY <1>5, <3>1, <3>2 DEF pipeline_for_shader_occurrence
  <2>4. /\ pipes' \in [Job -> Seq(Pipe)] /\ count' \in [Job -> Nat]
        /\ syncCache' \in [Shader \X Occurrences -> Pipe \cup {None}]
        /\ fresh' \in SUBSET Handle
    <3>1. i \in Nat
      BY <2>1
    <3> HIDE DEF i, c
    <3>2. PICK p \in Pipe : /\ BindPass(j, i, p)
                            /\ \/ UNCHANGED <<syncCache, fresh>>
                               \/ /\ syncCache' = [syncCache EXCEPT ![c] = p]
                                  /\ fresh' = fresh \ {p}
      BY <2>3
    <3>3. pipes' \in [Job -> Seq(Pipe)] /\ count' \in [Job -> Nat]
      BY <3>1, <3>2 DEF BindPass, TypeOK
    <3>4. /\ syncCache' \in [Shader \X Occurrences -> Pipe \cup {None}]
          /\ fresh' \in SUBSET Handle
      <4>1. /\ syncCache \in [Shader \X Occurrences -> Pipe \cup {None}]
            /\ fresh \in SUBSET Handle
        BY DEF TypeOK
      <4>2. CASE UNCHANGED <<syncCache, fresh>>
        BY <4>1, <4>2
      <4>3. CASE syncCache' = [syncCache EXCEPT ![c] = p] /\ fresh' = fresh \ {p}
        BY <2>2, <3>2, <4>1, <4>3
      <4> QED
        BY <3>2, <4>2, <4>3
    <3> QED
      BY <3>3, <3>4
  <2> QED
    BY <1>5, <2>4 DEF pipeline_for_shader_occurrence, TypeOK, handleVars, lutVars, pipeVars, gpuVars, callVars, restVars
<1>6. CASE PassesBound(j)
  BY <1>6 DEF PassesBound, TypeOK, Goto, Phases, handleVars, lutVars, pipeVars, gpuVars, callVars, restVars
<1>7. CASE take_submission_slot(j)
  <2>1. PICK s \in Obtainable(Slot) :
          /\ Take(j, {s})
          /\ Goto(j, IF s \in fresh THEN "record" ELSE "reset")
          /\ signaled' = IF s \in fresh THEN signaled \ {s} ELSE signaled
    BY <1>7 DEF take_submission_slot
  <2>2. HandleTypes'
    BY <2>1, ObtainableSubset, TakeType DEF Handle
  <2>3. phase' \in [Job -> Phases] /\ signaled' \in SUBSET Slot
    BY <2>1 DEF Goto, Phases, TypeOK
  <2> QED
    BY <1>7, <2>2, <2>3
    DEF take_submission_slot, TypeOK, HandleTypes, handleVars, lutVars, pipeVars, gpuVars, callVars, restVars
<1>8. CASE ResetSlot(j)
  BY <1>8 DEF ResetSlot, TypeOK, Goto, Phases, handleVars, lutVars, pipeVars, gpuVars, callVars, restVars
<1>9. CASE ResetSlotFails(j) \/ BuildFails(j) \/ SubmitFails(j)
  <2>1. SlotOf(j) \in SUBSET Slot
    BY DEF SlotOf
  <2>2. \E keep : \E lose \in SUBSET Slot : ReturnError(j, keep, lose)
    BY <1>9, <2>1 DEF ResetSlotFails, BuildFails, SubmitFails
  <2>3. UNCHANGED gpuVars /\ faults' \in 0 .. MaxFaults
    BY <1>9
    DEF ResetSlotFails, BuildFails, SubmitFails, InjectFault, TypeOK
  <2> QED
    BY <2>2, <2>3, ReturnErrorType
<1>10. CASE submit_staged_program(j)
  <2>1. Submission(j) \in SubmissionRecord
    BY DEF Submission, SubmissionRecord, TypeOK
  <2>2. queue' \in Seq(SubmissionRecord)
    BY <1>10, <2>1 DEF submit_staged_program, TypeOK
  <2> QED
    BY <1>10, <2>2
    DEF submit_staged_program, LockAfterSubmit, TypeOK, Goto, Phases, handleVars, lutVars, pipeVars, gpuVars, callVars, restVars
<1> QED
  BY <1>1, <1>2, <1>3, <1>4, <1>5, <1>6, <1>7, <1>8, <1>9, <1>10 DEF Build

LEMMA TypeOKComplete ==
    ASSUME TypeOK, NEW j \in Job, Complete(j)
    PROVE  TypeOK'
<1> USE RuntimeAssumption
<1>1. SlotOf(j) \in SUBSET Slot
  BY DEF SlotOf
<1>2. CASE wait_for_completion(j)
  <2>1. HandleTypes'
    BY <1>2, RecycleType DEF wait_for_completion, TypeOK, HandleTypes, handleVars
  <2> QED
    BY <1>2, <2>1
    DEF wait_for_completion, TypeOK, HandleTypes, Goto, Phases, handleVars, lutVars, pipeVars, gpuVars, callVars, restVars
<1>3. CASE WaitFails(j)
  <2>1. faults' \in 0 .. MaxFaults
    BY <1>3 DEF WaitFails, InjectFault, TypeOK
  <2>2. phase' \in [Job -> Phases]
    BY <1>3 DEF WaitFails, Goto, AfterWaitFailure, Phases, TypeOK
  <2> QED
    BY <1>3, <2>1, <2>2 DEF WaitFails, TypeOK, handleVars, lutVars, pipeVars, gpuVars, callVars, restVars
<1>4. CASE SyncIdle(j)
  <2>1. faults' \in 0 .. MaxFaults
    BY <1>4 DEF SyncIdle, IdleReturns, InjectFault, TypeOK
  <2> QED
    BY <1>4, <2>1, ReturnErrorType DEF SyncIdle
<1>5. CASE DropPending(j)
  <2>1. faults' \in 0 .. MaxFaults
    BY <1>5 DEF DropPending, IdleReturns, InjectFault, TypeOK
  <2> QED
    BY <1>5, <2>1 DEF DropPending, TypeOK, Goto, Phases, handleVars, lutVars, pipeVars, gpuVars, callVars, restVars
<1>6. CASE ReadOutputFails(j)
  <2>1. faults' \in 0 .. MaxFaults
    BY <1>6 DEF ReadOutputFails, InjectFault, TypeOK
  <2>2. CASE phase[j] = "commit" /\ Goto(j, "dropWait")
             /\ UNCHANGED <<lock, mode, stage, count, resident, handleVars,
                            lutVars, pipeVars, restVars>>
    BY <1>6, <2>1, <2>2 DEF ReadOutputFails, TypeOK, Goto, Phases, handleVars, lutVars, pipeVars, gpuVars, callVars, restVars
  <2>3. CASE ReturnError(j, {}, {})
    BY <1>6, <2>1, <2>3, ReturnErrorType DEF ReadOutputFails
  <2> QED
    BY <1>6, <2>2, <2>3 DEF ReadOutputFails
<1>7. CASE commit_program_luts(j)
  <2>1. lutCache' \in [Key -> LutBuffer \cup {None}]
    BY <1>7 DEF commit_program_luts, TypeOK
  <2> QED
    BY <1>7, <2>1 DEF commit_program_luts, TypeOK, Goto, Phases, handleVars, lutVars, pipeVars, gpuVars, callVars, restVars
<1>8. CASE recycle_program_transients(j)
  <2>1. HandleTypes' /\ resident' \in [Job -> Transient \cup {None}]
    <3>1. CASE \E t \in held[j] \cap Transient :
                  /\ Recycle(j, (held[j] \cap Transient) \ {t})
                  /\ resident' = [resident EXCEPT ![j] = t]
      BY <3>1, RecycleType DEF TypeOK
    <3>2. CASE Recycle(j, held[j] \cap Transient) /\ UNCHANGED resident
      BY <3>2, RecycleType DEF TypeOK
    <3> QED
      BY <1>8, <3>1, <3>2 DEF recycle_program_transients
  <2>2. luts' \in [Job -> [Key -> LutBuffer \cup {None}]]
    BY <1>8 DEF recycle_program_transients, NoLuts, TypeOK
  <2> QED
    BY <1>8, <2>1, <2>2
    DEF recycle_program_transients, TypeOK, HandleTypes, Goto, Phases, handleVars, lutVars, pipeVars, gpuVars, callVars, restVars
<1>9. CASE recycle_staging_buffers(j)
  <2>1. HandleTypes'
    BY <1>9, RecycleType DEF recycle_staging_buffers
  <2>2. CallTypes'
    <3>1. CASE Goto(j, "pipes") /\ UNCHANGED <<mode, stage, count>>
      BY <3>1 DEF Goto, Phases, TypeOK, CallTypes
    <3>2. CASE /\ Goto(j, "locking") /\ stage' = [stage EXCEPT ![j] = 2]
               /\ UNCHANGED <<mode, count>>
      BY <3>2 DEF Goto, Phases, TypeOK, CallTypes
    <3> QED
      BY <1>9, <3>1, <3>2, ReturnType DEF recycle_staging_buffers
  <2>3. pipes' \in [Job -> Seq(Pipe)] /\ lock' \in Job \cup {Maint, None}
    <3>1. CASE lock' = None /\ pipes' = [pipes EXCEPT ![j] = <<>>]
      BY <3>1 DEF TypeOK
    <3>2. CASE UNCHANGED <<lock, pipes>>
      BY <3>2 DEF TypeOK
    <3> QED
      BY <1>9, <3>1, <3>2 DEF recycle_staging_buffers
  <2> QED
    BY <1>9, <2>1, <2>2, <2>3
    DEF recycle_staging_buffers, TypeOK, HandleTypes, CallTypes, lutVars,
        gpuVars, restVars
<1>10. CASE recycle_async_pipelines(j)
  <2>1. HandleTypes'
    BY <1>10, RecycleType DEF recycle_async_pipelines
  <2>2. CallTypes' /\ pipes' \in [Job -> Seq(Pipe)]
    BY <1>10 DEF recycle_async_pipelines, Goto, Phases, TypeOK, CallTypes
  <2> QED
    BY <1>10, <2>1, <2>2
    DEF recycle_async_pipelines, TypeOK, HandleTypes, CallTypes, lutVars,
        gpuVars, restVars
<1>11. CASE recycle_submission_slot(j)
  <2>1. HandleTypes' /\ CallTypes'
    BY <1>11, RecycleType, ReturnType DEF recycle_submission_slot
  <2>2. UNCHANGED <<lock, resident, luts, pending, lutCache, content, pipes,
                    syncCache, queue, signaled, lost, clearing, alive, faults>>
    BY <1>11 DEF recycle_submission_slot, lutVars, pipeVars, gpuVars, restVars
  <2> QED
    BY <2>1, <2>2 DEF TypeOK, HandleTypes, CallTypes
<1> QED
  BY <1>2, <1>3, <1>4, <1>5, <1>6, <1>7, <1>8, <1>9, <1>10, <1>11
  DEF Complete

LEMMA TypeOKDevice ==
    ASSUME TypeOK, GpuCompletes \/ DeviceLost
    PROVE  TypeOK'
<1>1. CASE GpuCompletes
  <2>1. Head(queue) \in SubmissionRecord /\ Tail(queue) \in Seq(SubmissionRecord)
    BY <1>1 DEF GpuCompletes, TypeOK
  <2>2. Head(queue).uploads \subseteq Key
    BY <2>1 DEF SubmissionRecord
  <2>3. content' \in [LutBuffer -> Key \cup {None}]
    BY <1>1, <2>2 DEF GpuCompletes, TypeOK
  <2>4. signaled' \in SUBSET Slot
    BY <1>1 DEF GpuCompletes, TypeOK
  <2> QED
    BY <1>1, <2>1, <2>3, <2>4 DEF GpuCompletes, TypeOK, handleVars, lutVars, pipeVars, gpuVars, callVars, restVars
<1>2. CASE DeviceLost
  BY <1>2, RuntimeAssumption DEF DeviceLost, InjectFault, TypeOK, handleVars, lutVars, pipeVars, gpuVars, callVars, restVars
<1> QED
  BY <1>1, <1>2

LEMMA TypeOKMaintenance ==
    ASSUME TypeOK,
           \/ \E list \in Clears : BeginClear(list)
           \/ ClearIdles \/ ClearPool \/ ContextDrop
    PROVE  TypeOK'
<1> USE RuntimeAssumption
<1>1. ASSUME NEW list \in Clears, BeginClear(list)
      PROVE  TypeOK'
  <2>1. list \in Seq(Pools \cup {"idle"})
    <3> DEFINE S == Pools \cup {"idle"}
    <3>1. {"idle", "lut", "transient", "slot", "staging", "syncPipe",
           "asyncPipe"} \subseteq S
      BY DEF Pools
    <3> HIDE DEF S
    <3>2. <<"idle", "lut">> \in Seq(S) /\ <<"idle", "transient">> \in Seq(S)
          /\ <<"idle", "slot">> \in Seq(S)
      BY <3>1
    <3>3. <<"idle", "staging", "syncPipe", "asyncPipe", "slot">> \in Seq(S)
      BY <3>1
    <3> QED
      BY <3>2, <3>3, Zenon DEF S, AllClears
  <2> QED
    BY <1>1, <2>1 DEF BeginClear, TypeOK, handleVars, lutVars, pipeVars, gpuVars, callVars, restVars
<1>2. CASE ClearIdles
  <2>1. clearing' \in Seq(Pools \cup {"idle"}) /\ faults' \in 0 .. MaxFaults
    <3>1. CASE queue = <<>> /\ ~lost /\ clearing' = Tail(clearing)
               /\ UNCHANGED <<lock, faults>>
      BY <1>2, <3>1 DEF ClearIdles, TypeOK
    <3>2. CASE /\ IF lost THEN UNCHANGED faults ELSE InjectFault
               /\ clearing' = <<>>
      BY <3>2 DEF InjectFault, TypeOK
    <3> QED
      BY <1>2, <3>1, <3>2 DEF ClearIdles
  <2> QED
    BY <1>2, <2>1 DEF ClearIdles, TypeOK, handleVars, lutVars, pipeVars, gpuVars, callVars, restVars
<1>3. CASE ClearPool
  <2>1. Head(clearing) \in Pools /\ Tail(clearing) \in Seq(Pools \cup {"idle"})
    BY <1>3 DEF ClearPool, TypeOK
  <2>2. CachedPipes \subseteq Pipe
    BY DEF CachedPipes, TypeOK
  <2>3. HandlesOf(Head(clearing)) \subseteq Handle
    BY <2>1, <2>2 DEF HandlesOf, Pools, Pooled, Handle
  <2>4. fresh' \in SUBSET Handle /\ pool' \in [Handle -> Nat]
    BY <1>3, <2>3 DEF ClearPool, TypeOK
  <2>5. syncCache' \in [Shader \X Occurrences -> Pipe \cup {None}]
        /\ lutCache' \in [Key -> LutBuffer \cup {None}]
    BY <1>3 DEF ClearPool, TypeOK, NoLuts
  <2>6. lock' \in Job \cup {Maint, None}
    BY <1>3 DEF ClearPool, TypeOK
  <2> QED
    BY <1>3, <2>1, <2>4, <2>5, <2>6 DEF ClearPool, TypeOK, handleVars, lutVars, pipeVars, gpuVars, callVars, restVars
<1>4. CASE ContextDrop
  <2>1. CachedPipes \subseteq Pipe
    BY DEF CachedPipes, TypeOK
  <2>2. fresh' \in SUBSET Handle /\ pool' \in [Handle -> Nat]
    BY <1>4, <2>1 DEF ContextDrop, TypeOK, Drained, Pooled, Handle
  <2>3. syncCache' \in [Shader \X Occurrences -> Pipe \cup {None}]
        /\ lutCache' \in [Key -> LutBuffer \cup {None}]
    BY <1>4 DEF ContextDrop, TypeOK, NoLuts
  <2> QED
    <3>1. alive' \in BOOLEAN
      BY <1>4, Zenon DEF ContextDrop
    <3>2. queue' \in Seq(SubmissionRecord)
      BY <1>4 DEF ContextDrop
    <3>3. UNCHANGED <<lock, phase, mode, stage, count, resident, held, leaked,
                      luts, pending, content, pipes, signaled, lost, clearing,
                      faults>>
      BY <1>4 DEF ContextDrop, callVars
    <3> QED
      BY <2>2, <2>3, <3>1, <3>2, <3>3 DEF TypeOK
<1> QED
  BY <1>1, <1>2, <1>3, <1>4

\* TypeOK is inductive.
LEMMA TypeOKStep == TypeOK /\ [Next]_vars => TypeOK'
<1> SUFFICES ASSUME TypeOK, [Next]_vars PROVE TypeOK'
  OBVIOUS
<1>1. ASSUME NEW j \in Job, NEW m \in Modes[j], Begin(j, m)
      PROVE  TypeOK'
  <2>1. m \in AllModes
    BY RuntimeAssumption
  <2>2. CallTypes'
    BY <1>1, <2>1 DEF Begin, TypeOK, Goto, Phases, CallTypes
  <2> QED
    BY <1>1, <2>2 DEF Begin, TypeOK, CallTypes, handleVars, lutVars, pipeVars, gpuVars, callVars, restVars
<1>2. ASSUME NEW j \in Job, TicketWait(j) \/ TicketDrop(j)
      PROVE  TypeOK'
  BY <1>2 DEF TicketWait, TicketDrop, TypeOK, Goto, Phases, handleVars, lutVars, pipeVars, gpuVars, callVars, restVars
<1>3. CASE UNCHANGED vars
  BY <1>3 DEF vars, TypeOK, handleVars, lutVars, pipeVars, gpuVars, callVars, restVars
<1> QED
  BY <1>1, <1>2, <1>3, TypeOKBuild, TypeOKComplete, TypeOKDevice,
     TypeOKMaintenance DEF Next

LEMMA TypeOKInit == Init => TypeOK
<1> SUFFICES ASSUME Init PROVE TypeOK
  OBVIOUS
<1>1. HandleTypes /\ CallTypes
  BY DEF Init, HandleTypes, CallTypes, Phases, AllModes
<1>2. /\ luts \in [Job -> [Key -> LutBuffer \cup {None}]]
      /\ lutCache \in [Key -> LutBuffer \cup {None}]
      /\ content \in [LutBuffer -> Key \cup {None}]
      /\ syncCache \in [Shader \X Occurrences -> Pipe \cup {None}]
  BY DEF Init, NoLuts
<1>3. queue \in Seq(SubmissionRecord) /\ clearing \in Seq(Pools \cup {"idle"})
      /\ pipes \in [Job -> Seq(Pipe)]
  BY DEF Init
<1>4. alive \in BOOLEAN /\ lost \in BOOLEAN
  BY Zenon DEF Init
<1>5. /\ lock \in Job \cup {Maint, None}
      /\ resident \in [Job -> Transient \cup {None}]
      /\ pending \in [Job -> SUBSET Key]
      /\ signaled \in SUBSET Slot
      /\ faults \in 0 .. MaxFaults
  BY RuntimeAssumption DEF Init
<1> QED
  BY <1>1, <1>2, <1>3, <1>4, <1>5 DEF TypeOK, HandleTypes, CallTypes

\* Every variable keeps its type.
THEOREM TypeCorrect == Spec => []TypeOK
  BY TypeOKInit, TypeOKStep, PTL DEF Spec

-----------------------------------------------------------------------------
(* Exclusive ownership.  The invariant is inductive: every operation moves  *)
(* handles from one place to exactly one other.                             *)

LEMMA ObtainableAvailable ==
    ASSUME TypeOK, NEW S \in SUBSET Handle, NEW h \in Obtainable(S)
    PROVE  h \in S /\ (pool[h] > 0 \/ h \in fresh)
  BY CreatableSubset DEF Obtainable, Pooled

LEMMA TakeExclusive ==
    ASSUME TypeOK, ExclusiveOwnership, NEW j \in Job,
           NEW hs \in SUBSET Handle,
           \A h \in hs : pool[h] > 0 \/ h \in fresh,
           Take(j, hs), UNCHANGED syncCache
    PROVE  ExclusiveOwnership'
<1>1. CachedPipes' = CachedPipes
  BY DEF CachedPipes
<1> SUFFICES ASSUME NEW h \in Handle PROVE OneOwner(h)'
  BY DEF ExclusiveOwnership
<1>2. CASE h \in hs
  BY <1>1, <1>2 DEF Take, ExclusiveOwnership, OneOwner, TypeOK
<1>3. CASE h \notin hs
  BY <1>1, <1>3 DEF Take, ExclusiveOwnership, OneOwner, TypeOK
<1> QED
  BY <1>2, <1>3

LEMMA RecycleExclusive ==
    ASSUME TypeOK, ExclusiveOwnership, NEW j \in Job,
           NEW hs \in SUBSET held[j], Recycle(j, hs), UNCHANGED syncCache
    PROVE  ExclusiveOwnership'
<1>1. CachedPipes' = CachedPipes
  BY DEF CachedPipes
<1> SUFFICES ASSUME NEW h \in Handle PROVE OneOwner(h)'
  BY DEF ExclusiveOwnership
<1>2. CASE h \in hs
  BY <1>1, <1>2 DEF Recycle, ExclusiveOwnership, OneOwner, TypeOK
<1>3. CASE h \notin hs
  BY <1>1, <1>3 DEF Recycle, ExclusiveOwnership, OneOwner, TypeOK
<1> QED
  BY <1>2, <1>3

LEMMA ReturnErrorExclusive ==
    ASSUME TypeOK, ExclusiveOwnership, NEW j \in Job,
           NEW keep \in SUBSET held[j], NEW lose \in SUBSET held[j],
           keep \cap lose = {}, ReturnError(j, keep, lose)
    PROVE  ExclusiveOwnership'
<1>1. CachedPipes' = CachedPipes
  BY DEF CachedPipes, ReturnError
<1> SUFFICES ASSUME NEW h \in Handle PROVE OneOwner(h)'
  BY DEF ExclusiveOwnership
<1>2. CASE h \in held[j]
  BY <1>1, <1>2
  DEF ReturnError, Destroyed, ExclusiveOwnership, OneOwner, TypeOK
<1>3. CASE h \notin held[j]
  BY <1>1, <1>3
  DEF ReturnError, Destroyed, ExclusiveOwnership, OneOwner, TypeOK
<1> QED
  BY <1>2, <1>3

LEMMA UnchangedExclusive ==
    ASSUME ExclusiveOwnership, UNCHANGED <<fresh, pool, held, leaked, syncCache>>
    PROVE  ExclusiveOwnership'
  BY DEF ExclusiveOwnership, OneOwner, CachedPipes

LEMMA ExclusiveBuild ==
    ASSUME TypeOK, ExclusiveOwnership, NEW j \in Job, Build(j)
    PROVE  ExclusiveOwnership'
<1>1. CASE execution_guard(j) \/ PassesBound(j) \/ ResetSlot(j)
           \/ submit_staged_program(j)
  BY <1>1, UnchangedExclusive
  DEF execution_guard, PassesBound, ResetSlot, submit_staged_program,
      handleVars, pipeVars
<1>2. CASE allocate_program_storage(j)
  <2>1. UNCHANGED syncCache
    BY <1>2 DEF allocate_program_storage, pipeVars
  <2>2. PICK s \in Obtainable(Staging) :
          \/ \E t \in Obtainable(Transient) : Take(j, {s, t})
          \/ Take(j, {s})
    BY <1>2 DEF allocate_program_storage
  <2>3. s \in Handle /\ (pool[s] > 0 \/ s \in fresh)
    BY ObtainableAvailable DEF Handle
  <2>4. CASE \E t \in Obtainable(Transient) : Take(j, {s, t})
    <3>1. PICK t \in Obtainable(Transient) : Take(j, {s, t})
      BY <2>4
    <3>2. t \in Handle /\ (pool[t] > 0 \/ t \in fresh)
      BY ObtainableAvailable DEF Handle
    <3> QED
      BY <2>1, <2>3, <3>1, <3>2, TakeExclusive
  <2>5. CASE Take(j, {s})
    BY <2>1, <2>3, <2>5, TakeExclusive
  <2> QED
    BY <2>2, <2>4, <2>5
<1>3. CASE StorageReady(j)
  <2>1. CASE UNCHANGED handleVars
    BY <1>3, <2>1, UnchangedExclusive DEF StorageReady, handleVars, pipeVars
  <2>2. CASE \E t \in (held[j] \cap Transient) \ {resident[j]} :
                Recycle(j, {t})
    BY <1>3, <2>2, RecycleExclusive DEF StorageReady, pipeVars
  <2> QED
    BY <1>3, <2>1, <2>2 DEF StorageReady
<1>4. CASE take_async_pipeline(j)
  <2>1. PICK p \in Obtainable(PipesFor(j, count[j] + 1)) : Take(j, {p})
    BY <1>4 DEF take_async_pipeline
  <2>2. p \in Handle /\ (pool[p] > 0 \/ p \in fresh)
    BY <2>1, ObtainableAvailable DEF PipesFor, Handle
  <2> QED
    BY <1>4, <2>1, <2>2, TakeExclusive DEF take_async_pipeline
<1>5. CASE pipeline_for_shader_occurrence(j)
  <2> DEFINE i == count[j] + 1
             c == <<Shaders[j][i], occurrence(j, i)>>
  <2>1. CASE UNCHANGED <<syncCache, fresh>>
    BY <1>5, <2>1, UnchangedExclusive DEF pipeline_for_shader_occurrence
  <2>2. CASE \E p \in Creatable(PipesFor(j, i)) :
                /\ syncCache' = [syncCache EXCEPT ![c] = p]
                /\ fresh' = fresh \ {p}
    <3>1. PICK p \in fresh : /\ syncCache' = [syncCache EXCEPT ![c] = p]
                             /\ fresh' = fresh \ {p}
      BY <2>2, CreatableSubset
    <3> HIDE DEF c
    <3>2. CachedPipes' \subseteq CachedPipes \cup {p}
      BY <3>1 DEF CachedPipes, TypeOK
    <3>3. UNCHANGED <<pool, held, leaked>>
      BY <1>5 DEF pipeline_for_shader_occurrence
    <3> SUFFICES ASSUME NEW h \in Handle PROVE OneOwner(h)'
      BY DEF ExclusiveOwnership
    <3>4. CASE h = p
      BY <3>1, <3>2, <3>3, <3>4 DEF ExclusiveOwnership, OneOwner, TypeOK
    <3>5. CASE h # p
      BY <3>1, <3>2, <3>3, <3>5 DEF ExclusiveOwnership, OneOwner, TypeOK
    <3> QED
      BY <3>4, <3>5
  <2> QED
    BY <1>5, <2>1, <2>2 DEF pipeline_for_shader_occurrence
<1>6. CASE take_submission_slot(j)
  <2>1. PICK s \in Obtainable(Slot) : Take(j, {s})
    BY <1>6 DEF take_submission_slot
  <2>2. s \in Handle /\ (pool[s] > 0 \/ s \in fresh)
    BY ObtainableAvailable DEF Handle
  <2> QED
    BY <1>6, <2>1, <2>2, TakeExclusive DEF take_submission_slot, pipeVars
<1>7. CASE ResetSlotFails(j) \/ BuildFails(j) \/ SubmitFails(j)
  BY <1>7, ReturnErrorExclusive
  DEF ResetSlotFails, BuildFails, SubmitFails, SlotOf
<1> QED
  BY <1>1, <1>2, <1>3, <1>4, <1>5, <1>6, <1>7 DEF Build

LEMMA ExclusiveComplete ==
    ASSUME TypeOK, ExclusiveOwnership, NEW j \in Job, Complete(j)
    PROVE  ExclusiveOwnership'
<1>1. CASE WaitFails(j) \/ DropPending(j) \/ commit_program_luts(j)
  BY <1>1, UnchangedExclusive
  DEF WaitFails, DropPending, commit_program_luts, handleVars, pipeVars
<1>2. CASE wait_for_completion(j)
  BY <1>2, UnchangedExclusive, RecycleExclusive
  DEF wait_for_completion, SlotOf, handleVars, pipeVars
<1>3. CASE SyncIdle(j)
  BY <1>3, ReturnErrorExclusive DEF SyncIdle, SlotOf
<1>4. CASE ReadOutputFails(j)
  BY <1>4, UnchangedExclusive, ReturnErrorExclusive
  DEF ReadOutputFails, handleVars, pipeVars
<1>5. CASE recycle_program_transients(j)
  <2>1. UNCHANGED syncCache
    BY <1>5 DEF recycle_program_transients, pipeVars
  <2>2. \E hs \in SUBSET held[j] : Recycle(j, hs)
    BY <1>5 DEF recycle_program_transients
  <2> QED
    BY <2>1, <2>2, RecycleExclusive
<1>6. CASE recycle_staging_buffers(j)
  BY <1>6, RecycleExclusive DEF recycle_staging_buffers
<1>7. CASE recycle_async_pipelines(j)
  BY <1>7, RecycleExclusive DEF recycle_async_pipelines
<1>8. CASE recycle_submission_slot(j)
  BY <1>8, RecycleExclusive DEF recycle_submission_slot, SlotOf, pipeVars
<1> QED
  BY <1>1, <1>2, <1>3, <1>4, <1>5, <1>6, <1>7, <1>8 DEF Complete

LEMMA ExclusiveMaintenance ==
    ASSUME TypeOK, ExclusiveOwnership, ClearPool \/ ContextDrop
    PROVE  ExclusiveOwnership'
<1>1. CASE ClearPool
  <2> DEFINE p == Head(clearing)
  <2>1. p \in Pools
    BY <1>1 DEF ClearPool, TypeOK
  <2>2. UNCHANGED <<held, leaked>>
    BY <1>1 DEF ClearPool
  <2> SUFFICES ASSUME NEW h \in Handle PROVE OneOwner(h)'
    BY DEF ExclusiveOwnership
  <2>3. CASE p = "syncPipe"
    <3>1. CachedPipes' = {}
      BY <1>1, <2>3 DEF ClearPool, CachedPipes
    <3>2. fresh' = fresh \cup CachedPipes /\ pool' = [g \in Handle |-> pool[g]]
      BY <1>1, <2>3 DEF ClearPool, HandlesOf
    <3> QED
      BY <2>2, <3>1, <3>2 DEF ExclusiveOwnership, OneOwner, TypeOK
  <2>4. CASE p # "syncPipe"
    <3>1. CachedPipes' = CachedPipes
      BY <1>1, <2>4 DEF ClearPool, CachedPipes
    <3>2. HandlesOf(p) \subseteq Pooled(Handle)
      BY <2>1, <2>4 DEF HandlesOf, Pools, Pooled, Handle
    <3>3. /\ fresh' = fresh \cup HandlesOf(p)
          /\ pool' = [g \in Handle |-> IF g \in HandlesOf(p) THEN 0 ELSE pool[g]]
      BY <1>1, <2>4 DEF ClearPool
    <3> HIDE DEF p
    <3>4. CASE h \in HandlesOf(p)
      BY <2>2, <3>1, <3>2, <3>3, <3>4
      DEF ExclusiveOwnership, OneOwner, TypeOK, Pooled
    <3>5. CASE h \notin HandlesOf(p)
      BY <2>2, <3>1, <3>3, <3>5 DEF ExclusiveOwnership, OneOwner, TypeOK
    <3> QED
      BY <3>4, <3>5
  <2> QED
    BY <2>3, <2>4
<1>2. CASE ContextDrop
  <2>1. CachedPipes' = {}
    BY <1>2 DEF ContextDrop, CachedPipes
  <2>2. /\ fresh' = fresh \cup Pooled(Handle) \cup CachedPipes
        /\ pool' = [h \in Handle |-> 0]
        /\ UNCHANGED <<held, leaked>>
    BY <1>2 DEF ContextDrop, Drained
  <2> SUFFICES ASSUME NEW h \in Handle PROVE OneOwner(h)'
    BY DEF ExclusiveOwnership
  <2> QED
    BY <2>1, <2>2 DEF ExclusiveOwnership, OneOwner, TypeOK, Pooled
<1> QED
  BY <1>1, <1>2

LEMMA ExclusiveStep == TypeOK /\ ExclusiveOwnership /\ [Next]_vars
                         => ExclusiveOwnership'
<1> SUFFICES ASSUME TypeOK, ExclusiveOwnership, [Next]_vars
             PROVE  ExclusiveOwnership'
  OBVIOUS
<1>1. ASSUME NEW j \in Job,
             (\E m \in Modes[j] : Begin(j, m)) \/ TicketWait(j) \/ TicketDrop(j)
      PROVE  ExclusiveOwnership'
  BY <1>1, UnchangedExclusive
  DEF Begin, TicketWait, TicketDrop, handleVars, pipeVars
<1>2. CASE \/ GpuCompletes \/ DeviceLost \/ ClearIdles
           \/ \E list \in Clears : BeginClear(list)
  BY <1>2, UnchangedExclusive
  DEF GpuCompletes, DeviceLost, ClearIdles, BeginClear, handleVars, pipeVars
<1>3. CASE UNCHANGED vars
  BY <1>3, UnchangedExclusive DEF vars, handleVars, pipeVars
<1> QED
  BY <1>1, <1>2, <1>3, ExclusiveBuild, ExclusiveComplete,
     ExclusiveMaintenance DEF Next

\* A handle has one owner at a time, for any number of threads, handles and
\* failures, whether or not queue_wait_idle can fail.
THEOREM Exclusive == Spec => []ExclusiveOwnership
<1>1. Init => ExclusiveOwnership
  <2> SUFFICES ASSUME Init PROVE ExclusiveOwnership
    OBVIOUS
  <2>1. CachedPipes = {}
    BY DEF Init, CachedPipes
  <2> QED
    BY <2>1 DEF Init, ExclusiveOwnership, OneOwner
<1> QED
  BY <1>1, TypeCorrect, ExclusiveStep, PTL DEF Spec

-----------------------------------------------------------------------------
(* No handle is forgotten.                                                  *)

\* What a call may still hold at each point.  Without it nothing says that a
\* call about to return has given everything back.
HoldsByPhase(j) ==
    /\ phase[j] = "idle" => held[j] = {}
    /\ IsSync(j) => held[j] \cap Pipe = {}
    /\ phase[j] \in {"locking", "alloc", "bind", "slot"} => SlotOf(j) = {}
    /\ IsSync(j) /\ phase[j] \in {"commit", "transients", "staging"}
          => SlotOf(j) = {}
    /\ phase[j] = "staging" /\ ~Preserves(j) => held[j] \cap Transient = {}
    /\ phase[j] = "pipes" => held[j] \subseteq Pipe \cup Slot
    /\ phase[j] = "recycleSlot" => held[j] \subseteq Slot
    /\ phase[j] \in {"ticket", "dropWait", "dropIdle", "pipes", "recycleSlot"}
          => ~IsSync(j)

HeldByPhase == \A j \in Job : HoldsByPhase(j)

\* Every handle has a place, the calls' own places included.
Placed(h) == \/ h \in fresh \cup leaked \cup CachedPipes
             \/ pool[h] > 0
             \/ \E j \in Job : h \in held[j]

AllPlaced == \A h \in Handle : Placed(h)

LEMMA PlacedImplies ==
    ASSUME HeldByPhase, AllPlaced PROVE NothingForgotten
  BY DEF HeldByPhase, HoldsByPhase, AllPlaced, Placed, NothingForgotten

-----------------------------------------------------------------------------
(* AllPlaced is inductive.                                                 *)

LEMMA PlacedUnchanged ==
    ASSUME AllPlaced, UNCHANGED <<fresh, pool, held, leaked, syncCache>>
    PROVE  AllPlaced'
  BY DEF AllPlaced, Placed, CachedPipes

LEMMA PlacedTake ==
    ASSUME TypeOK, AllPlaced, NEW j \in Job, NEW hs \in SUBSET Handle,
           Take(j, hs), UNCHANGED syncCache
    PROVE  AllPlaced'
<1>1. CachedPipes' = CachedPipes
  BY DEF CachedPipes
<1> SUFFICES ASSUME NEW h \in Handle PROVE Placed(h)'
  BY DEF AllPlaced
<1>2. CASE h \in hs
  BY <1>2 DEF Take, Placed, TypeOK
<1>3. CASE h \notin hs
  BY <1>1, <1>3 DEF Take, AllPlaced, Placed, TypeOK
<1> QED
  BY <1>2, <1>3

LEMMA PlacedRecycle ==
    ASSUME TypeOK, AllPlaced, NEW j \in Job, NEW hs, Recycle(j, hs),
           UNCHANGED syncCache
    PROVE  AllPlaced'
<1>1. CachedPipes' = CachedPipes
  BY DEF CachedPipes
<1> SUFFICES ASSUME NEW h \in Handle PROVE Placed(h)'
  BY DEF AllPlaced
<1>2. CASE h \in hs
  BY <1>2 DEF Recycle, Placed, TypeOK
<1>3. CASE h \notin hs
  BY <1>1, <1>3 DEF Recycle, AllPlaced, Placed, TypeOK
<1> QED
  BY <1>2, <1>3

LEMMA PlacedReturnError ==
    ASSUME TypeOK, AllPlaced, NEW j \in Job, NEW keep, NEW lose,
           ReturnError(j, keep, lose)
    PROVE  AllPlaced'
<1>1. CachedPipes' = CachedPipes
  BY DEF CachedPipes, ReturnError
<1> SUFFICES ASSUME NEW h \in Handle PROVE Placed(h)'
  BY DEF AllPlaced
<1>2. CASE h \in held[j]
  BY <1>2 DEF ReturnError, Destroyed, Placed, TypeOK
<1>3. CASE h \notin held[j]
  BY <1>1, <1>3 DEF ReturnError, AllPlaced, Placed, TypeOK
<1> QED
  BY <1>2, <1>3

LEMMA PlacedBuild ==
    ASSUME TypeOK, ExclusiveOwnership, AllPlaced, NEW j \in Job, Build(j)
    PROVE  AllPlaced'
<1>1. CASE execution_guard(j) \/ PassesBound(j) \/ ResetSlot(j)
           \/ submit_staged_program(j)
  BY <1>1, PlacedUnchanged
  DEF execution_guard, PassesBound, ResetSlot, submit_staged_program,
      handleVars, pipeVars
<1>2. CASE allocate_program_storage(j)
  <2>1. UNCHANGED syncCache
    BY <1>2 DEF allocate_program_storage, pipeVars
  <2>2. PICK s \in Obtainable(Staging) :
          \/ \E t \in Obtainable(Transient) : Take(j, {s, t})
          \/ Take(j, {s})
    BY <1>2 DEF allocate_program_storage
  <2>3. s \in Handle /\ Obtainable(Transient) \subseteq Handle
    BY ObtainableSubset DEF Handle
  <2>4. \E hs \in SUBSET Handle : Take(j, hs)
    BY <2>2, <2>3
  <2> QED
    BY <2>1, <2>4, PlacedTake
<1>3. CASE StorageReady(j)
  BY <1>3, PlacedUnchanged, PlacedRecycle DEF StorageReady, handleVars, pipeVars
<1>4. CASE take_async_pipeline(j)
  <2>1. PICK p \in Obtainable(PipesFor(j, count[j] + 1)) : Take(j, {p})
    BY <1>4 DEF take_async_pipeline
  <2>2. p \in Handle
    BY <2>1, ObtainableSubset DEF PipesFor, Handle
  <2> QED
    BY <1>4, <2>1, <2>2, PlacedTake DEF take_async_pipeline
<1>5. CASE pipeline_for_shader_occurrence(j)
  <2> DEFINE i == count[j] + 1
             c == <<Shaders[j][i], occurrence(j, i)>>
  <2>1. CASE UNCHANGED <<syncCache, fresh>>
    BY <1>5, <2>1, PlacedUnchanged DEF pipeline_for_shader_occurrence
  <2>2. CASE /\ syncCache[c] = None
             /\ \E p \in Creatable(PipesFor(j, i)) :
                   /\ syncCache' = [syncCache EXCEPT ![c] = p]
                   /\ fresh' = fresh \ {p}
    <3>1. PICK p \in Creatable(PipesFor(j, i)) :
             /\ syncCache' = [syncCache EXCEPT ![c] = p]
             /\ fresh' = fresh \ {p}
      BY <2>2
    <3>2. i \in 1 .. Len(Shaders[j])
      BY <1>5, RuntimeAssumption DEF pipeline_for_shader_occurrence, TypeOK
    <3>3. c \in Shader \X Occurrences
      BY <3>2, OccurrenceBound, RuntimeAssumption
    <3>4. p \in Handle
      BY CreatableSubset DEF PipesFor, Handle
    <3>5. syncCache[c] = None
      BY <2>2
    <3>6. DOMAIN syncCache' = DOMAIN syncCache /\ c \in DOMAIN syncCache
          /\ syncCache'[c] = p
          /\ \A d \in DOMAIN syncCache \ {c} : syncCache'[d] = syncCache[d]
      BY <3>1, <3>3 DEF TypeOK
    <3> HIDE DEF c
    <3>7. CachedPipes \cup {p} \subseteq CachedPipes'
      <4>1. p # None
        BY <3>4, RuntimeAssumption
      <4> QED
        BY <3>5, <3>6, <4>1 DEF CachedPipes
    <3>8. UNCHANGED <<pool, held, leaked>>
      BY <1>5 DEF pipeline_for_shader_occurrence
    <3> QED
      BY <3>1, <3>7, <3>8 DEF AllPlaced, Placed
  <2> QED
    BY <1>5, <2>1, <2>2 DEF pipeline_for_shader_occurrence
<1>6. CASE take_submission_slot(j)
  <2>1. PICK s \in Obtainable(Slot) : Take(j, {s})
    BY <1>6 DEF take_submission_slot
  <2>2. s \in Handle
    BY ObtainableSubset DEF Handle
  <2> QED
    BY <1>6, <2>1, <2>2, PlacedTake DEF take_submission_slot, pipeVars
<1>7. CASE ResetSlotFails(j) \/ BuildFails(j) \/ SubmitFails(j)
  BY <1>7, PlacedReturnError DEF ResetSlotFails, BuildFails, SubmitFails
<1> QED
  BY <1>1, <1>2, <1>3, <1>4, <1>5, <1>6, <1>7 DEF Build

LEMMA PlacedComplete ==
    ASSUME TypeOK, AllPlaced, NEW j \in Job, Complete(j)
    PROVE  AllPlaced'
<1>1. CASE WaitFails(j) \/ DropPending(j) \/ commit_program_luts(j)
  BY <1>1, PlacedUnchanged
  DEF WaitFails, DropPending, commit_program_luts, handleVars, pipeVars
<1>2. CASE wait_for_completion(j)
  BY <1>2, PlacedUnchanged, PlacedRecycle
  DEF wait_for_completion, handleVars, pipeVars
<1>3. CASE SyncIdle(j)
  BY <1>3, PlacedReturnError DEF SyncIdle
<1>4. CASE ReadOutputFails(j)
  BY <1>4, PlacedUnchanged, PlacedReturnError
  DEF ReadOutputFails, handleVars, pipeVars
<1>5. CASE recycle_program_transients(j)
  BY <1>5, PlacedRecycle DEF recycle_program_transients, pipeVars
<1>6. CASE recycle_staging_buffers(j)
  BY <1>6, PlacedRecycle DEF recycle_staging_buffers
<1>7. CASE recycle_async_pipelines(j) \/ recycle_submission_slot(j)
  BY <1>7, PlacedRecycle
  DEF recycle_async_pipelines, recycle_submission_slot, pipeVars
<1> QED
  BY <1>1, <1>2, <1>3, <1>4, <1>5, <1>6, <1>7 DEF Complete

LEMMA PlacedMaintenance ==
    ASSUME TypeOK, AllPlaced, ClearPool \/ ContextDrop
    PROVE  AllPlaced'
<1>1. CASE ClearPool
  <2> DEFINE p == Head(clearing)
  <2>1. /\ fresh' = fresh \cup HandlesOf(p)
        /\ pool' = [g \in Handle |-> IF g \in HandlesOf(p) /\ p # "syncPipe"
                                     THEN 0 ELSE pool[g]]
        /\ UNCHANGED <<held, leaked>>
        /\ \/ UNCHANGED syncCache
           \/ p = "syncPipe"
    BY <1>1 DEF ClearPool
  <2>2. CachedPipes \subseteq CachedPipes' \cup HandlesOf(p)
    BY <2>1 DEF CachedPipes, HandlesOf
  <2> HIDE DEF p
  <2> QED
    BY <2>1, <2>2 DEF AllPlaced, Placed, TypeOK
<1>2. CASE ContextDrop
  BY <1>2 DEF ContextDrop, Drained, Pooled, AllPlaced, Placed, TypeOK
<1> QED
  BY <1>1, <1>2

LEMMA PlacedStep ==
    ASSUME TypeOK, ExclusiveOwnership, AllPlaced, [Next]_vars
    PROVE  AllPlaced'
<1>1. ASSUME NEW j \in Job,
             (\E m \in Modes[j] : Begin(j, m)) \/ TicketWait(j) \/ TicketDrop(j)
      PROVE  AllPlaced'
  BY <1>1, PlacedUnchanged DEF Begin, TicketWait, TicketDrop, handleVars, pipeVars
<1>2. CASE \/ GpuCompletes \/ DeviceLost \/ ClearIdles
           \/ \E list \in Clears : BeginClear(list)
  BY <1>2, PlacedUnchanged
  DEF GpuCompletes, DeviceLost, ClearIdles, BeginClear, handleVars, pipeVars
<1>3. CASE UNCHANGED vars
  BY <1>3, PlacedUnchanged DEF vars, handleVars, pipeVars
<1> QED
  BY <1>1, <1>2, <1>3, PlacedBuild, PlacedComplete, PlacedMaintenance DEF Next

-----------------------------------------------------------------------------
(* HeldByPhase is inductive.  A step changes what one call holds.           *)

callState == <<phase, held, mode, stage>>

LEMMA HoldsOthers ==
    ASSUME HeldByPhase, NEW j \in Job, HoldsByPhase(j)',
           \A i \in Job \ {j} : /\ phase'[i] = phase[i] /\ held'[i] = held[i]
                                /\ mode'[i] = mode[i] /\ stage'[i] = stage[i]
    PROVE  HeldByPhase'
<1> SUFFICES ASSUME NEW i \in Job \ {j} PROVE HoldsByPhase(i)'
  BY DEF HeldByPhase
<1> QED
  BY DEF HeldByPhase, HoldsByPhase, IsSync, SlotOf, Preserves

LEMMA HoldsUnchanged ==
    ASSUME HeldByPhase, UNCHANGED callState
    PROVE  HeldByPhase'
  BY DEF HeldByPhase, HoldsByPhase, IsSync, SlotOf, Preserves, callState

LEMMA HoldsReturnError ==
    ASSUME TypeOK, HeldByPhase, NEW j \in Job, NEW keep, NEW lose,
           ReturnError(j, keep, lose)
    PROVE  HeldByPhase'
<1>1. \A i \in Job \ {j} : /\ phase'[i] = phase[i] /\ held'[i] = held[i]
                           /\ mode'[i] = mode[i] /\ stage'[i] = stage[i]
  BY DEF ReturnError, Return, Goto, TypeOK
<1>2. phase'[j] = "idle" /\ held'[j] = {}
  BY DEF ReturnError, Return, Goto, TypeOK
<1>3. HoldsByPhase(j)'
  BY <1>2 DEF HoldsByPhase, SlotOf
<1> QED
  BY <1>1, <1>3, HoldsOthers

\* A call goes to phase p, giving back hs and keeping its entry point.
Moves(j, p, hs) ==
    /\ phase'[j] = p /\ held'[j] = held[j] \ hs
    /\ mode'[j] = mode[j] /\ stage'[j] = stage[j]
    /\ \A i \in Job \ {j} : /\ phase'[i] = phase[i] /\ held'[i] = held[i]
                            /\ mode'[i] = mode[i] /\ stage'[i] = stage[i]

LEMMA MovesKeeping ==
    ASSUME TypeOK, NEW j \in Job, NEW p, Goto(j, p), UNCHANGED <<held, mode, stage>>
    PROVE  Moves(j, p, {})
  BY DEF Goto, Moves, TypeOK

LEMMA MovesRecycling ==
    ASSUME TypeOK, NEW j \in Job, NEW p, NEW hs, Goto(j, p), Recycle(j, hs),
           UNCHANGED <<mode, stage>>
    PROVE  Moves(j, p, hs)
  BY DEF Goto, Recycle, Moves, TypeOK

LEMMA HoldsMoves ==
    ASSUME HeldByPhase, NEW j \in Job, NEW p, NEW hs, Moves(j, p, hs),
           HoldsByPhase(j)'
    PROVE  HeldByPhase'
  BY HoldsOthers DEF Moves

LEMMA HoldsBuild ==
    ASSUME TypeOK, HeldByPhase, NEW j \in Job, Build(j)
    PROVE  HeldByPhase'
<1> USE RuntimeAssumption
<1>1. HoldsByPhase(j)
  BY DEF HeldByPhase
<1>2. CASE execution_guard(j) \/ PassesBound(j)
  <2>1. PICK p \in {"alloc", "slot"} : Goto(j, p)
    BY <1>2 DEF execution_guard, PassesBound
  <2>2. phase[j] \in {"locking", "bind"} /\ UNCHANGED <<mode, stage, held>>
    BY <1>2 DEF execution_guard, PassesBound, handleVars
  <2>3. Moves(j, p, {})
    BY <2>1, <2>2, MovesKeeping
  <2>4. HoldsByPhase(j)'
    BY <1>1, <2>2, <2>3 DEF Moves, HoldsByPhase, IsSync, SlotOf, Preserves
  <2> QED
    BY <2>3, <2>4, HoldsMoves
<1>3. CASE allocate_program_storage(j)
  <2>1. \E hs \in SUBSET (Staging \cup Transient) : Take(j, hs)
    BY <1>3, ObtainableSubset DEF allocate_program_storage
  <2>2. phase[j] = "alloc" /\ UNCHANGED <<phase, mode, stage>>
    BY <1>3 DEF allocate_program_storage
  <2>3. \E hs \in SUBSET (Staging \cup Transient) : held'[j] = held[j] \cup hs
    BY <2>1 DEF Take, TypeOK
  <2>4. HoldsByPhase(j)'
    BY <1>1, <2>2, <2>3 DEF HoldsByPhase, IsSync, SlotOf, Preserves
  <2>5. \A i \in Job \ {j} : held'[i] = held[i]
    BY <2>1 DEF Take, TypeOK
  <2> QED
    BY <2>2, <2>4, <2>5, HoldsOthers
<1>4. CASE StorageReady(j)
  <2>1. phase[j] = "alloc" /\ Goto(j, "bind") /\ UNCHANGED <<mode, stage>>
    BY <1>4 DEF StorageReady
  <2>2. PICK hs : Moves(j, "bind", hs)
    <3>1. CASE UNCHANGED handleVars
      BY <2>1, <3>1, MovesKeeping DEF handleVars
    <3>2. CASE \E t : Recycle(j, {t})
      BY <2>1, <3>2, MovesRecycling
    <3> QED
      BY <1>4, <3>1, <3>2 DEF StorageReady
  <2>3. HoldsByPhase(j)'
    BY <1>1, <2>1, <2>2 DEF Moves, HoldsByPhase, IsSync, SlotOf, Preserves
  <2> QED
    BY <2>2, <2>3, HoldsMoves
<1>5. CASE take_async_pipeline(j)
  <2>1. PICK p \in Obtainable(PipesFor(j, count[j] + 1)) : Take(j, {p})
    BY <1>5 DEF take_async_pipeline
  <2>2. p \in Pipe
    BY <2>1, ObtainableSubset DEF PipesFor
  <2>3. phase[j] = "bind" /\ ~IsSync(j) /\ UNCHANGED <<phase, mode, stage>>
    BY <1>5 DEF take_async_pipeline
  <2>4. held'[j] = held[j] \cup {p} /\ \A i \in Job \ {j} : held'[i] = held[i]
    BY <2>1 DEF Take, TypeOK
  <2>5. HoldsByPhase(j)'
    BY <1>1, <2>2, <2>3, <2>4 DEF HoldsByPhase, IsSync, SlotOf, Preserves
  <2> QED
    BY <2>3, <2>4, <2>5, HoldsOthers
<1>6. CASE pipeline_for_shader_occurrence(j)
  BY <1>6, HoldsUnchanged DEF pipeline_for_shader_occurrence, callState
<1>7. CASE take_submission_slot(j)
  <2>1. PICK s \in Obtainable(Slot) :
          /\ Take(j, {s}) /\ Goto(j, IF s \in fresh THEN "record" ELSE "reset")
    BY <1>7 DEF take_submission_slot
  <2>2. s \in Slot
    BY <2>1, ObtainableSubset
  <2>3. /\ phase'[j] \in {"record", "reset"}
        /\ held'[j] = held[j] \cup {s}
        /\ \A i \in Job \ {j} : held'[i] = held[i] /\ phase'[i] = phase[i]
        /\ UNCHANGED <<mode, stage>>
    BY <1>7, <2>1 DEF take_submission_slot, Take, Goto, TypeOK
  <2>4. HoldsByPhase(j)'
    BY <1>1, <2>2, <2>3 DEF HoldsByPhase, IsSync, SlotOf, Preserves
  <2> QED
    BY <2>3, <2>4, HoldsOthers
<1>8. CASE ResetSlot(j) \/ submit_staged_program(j)
  <2>1. PICK p \in {"record", "wait", "ticket"} :
          Goto(j, p) /\ (p = "ticket" => ~IsSync(j))
    BY <1>8 DEF ResetSlot, submit_staged_program
  <2>2. Moves(j, p, {})
    BY <1>8, <2>1, MovesKeeping DEF ResetSlot, submit_staged_program, handleVars
  <2>3. HoldsByPhase(j)'
    BY <1>1, <2>1, <2>2 DEF Moves, HoldsByPhase, IsSync, SlotOf, Preserves
  <2> QED
    BY <2>2, <2>3, HoldsMoves
<1>9. CASE ResetSlotFails(j) \/ BuildFails(j) \/ SubmitFails(j)
  BY <1>9, HoldsReturnError DEF ResetSlotFails, BuildFails, SubmitFails
<1> QED
  BY <1>2, <1>3, <1>4, <1>5, <1>6, <1>7, <1>8, <1>9 DEF Build

LEMMA HoldsComplete ==
    ASSUME TypeOK, HeldByPhase, NEW j \in Job, Complete(j)
    PROVE  HeldByPhase'
<1> USE RuntimeAssumption
<1>1. HoldsByPhase(j) /\ held[j] \subseteq Handle
  BY DEF HeldByPhase, TypeOK
<1>3. CASE wait_for_completion(j)
  <2>1. phase[j] = "wait" /\ Goto(j, "commit") /\ UNCHANGED <<mode, stage>>
    BY <1>3 DEF wait_for_completion
  <2>2. PICK hs : Moves(j, "commit", hs) /\ (IsSync(j) => hs = SlotOf(j))
    BY <1>3, <2>1, MovesKeeping, MovesRecycling
    DEF wait_for_completion, handleVars
  <2>3. HoldsByPhase(j)'
    BY <1>1, <2>1, <2>2 DEF Moves, HoldsByPhase, IsSync, SlotOf, Preserves
  <2> QED
    BY <2>2, <2>3, HoldsMoves
<1>4. CASE WaitFails(j)
  <2>1. PICK p \in {"dropIdle", "syncIdle", "dropWait"} :
          Goto(j, p) /\ (p # "syncIdle" => ~IsSync(j))
    BY <1>1, <1>4 DEF WaitFails, AfterWaitFailure, HoldsByPhase
  <2>2. Moves(j, p, {})
    BY <1>4, <2>1, MovesKeeping DEF WaitFails, handleVars
  <2>3. HoldsByPhase(j)'
    BY <1>1, <2>1, <2>2 DEF Moves, HoldsByPhase, IsSync, SlotOf, Preserves
  <2> QED
    BY <2>2, <2>3, HoldsMoves
<1>5. CASE SyncIdle(j)
  BY <1>5, HoldsReturnError DEF SyncIdle
<1>6. CASE ReadOutputFails(j)
  <2>1. CASE ~IsSync(j) /\ Goto(j, "dropWait") /\ UNCHANGED <<lock, mode, stage,
               count, resident, handleVars, lutVars, pipeVars, restVars>>
    <3>1. Moves(j, "dropWait", {})
      BY <2>1, MovesKeeping DEF handleVars
    <3>2. HoldsByPhase(j)'
      BY <1>1, <2>1, <3>1 DEF Moves, HoldsByPhase, IsSync, SlotOf, Preserves
    <3> QED
      BY <3>1, <3>2, HoldsMoves
  <2>2. CASE ReturnError(j, {}, {})
    BY <2>2, HoldsReturnError
  <2> QED
    BY <1>6, <2>1, <2>2 DEF ReadOutputFails
<1>7. CASE commit_program_luts(j)
  <2>1. phase[j] = "commit" /\ Moves(j, "transients", {})
    BY <1>7, MovesKeeping DEF commit_program_luts, handleVars
  <2>2. HoldsByPhase(j)'
    BY <1>1, <2>1 DEF Moves, HoldsByPhase, IsSync, SlotOf, Preserves
  <2> QED
    BY <2>1, <2>2, HoldsMoves
<1>8. CASE recycle_program_transients(j)
  <2>1. PICK hs : /\ Recycle(j, hs)
                  /\ ~Preserves(j) => hs = held[j] \cap Transient
    BY <1>8 DEF recycle_program_transients
  <2>2. phase[j] = "transients" /\ Moves(j, "staging", hs)
    BY <1>8, <2>1, MovesRecycling DEF recycle_program_transients
  <2>3. HoldsByPhase(j)'
    BY <1>1, <2>1, <2>2 DEF Moves, HoldsByPhase, IsSync, SlotOf, Preserves
  <2> QED
    BY <2>2, <2>3, HoldsMoves
<1>9. CASE recycle_staging_buffers(j)
  <2>1. held' = [held EXCEPT ![j] = @ \ (held[j] \cap Staging)]
        /\ phase[j] = "staging"
    BY <1>9 DEF recycle_staging_buffers, Recycle
  <2>2. /\ ~Preserves(j) => held[j] \cap Transient = {}
        /\ IsSync(j) => held[j] \cap Pipe = {} /\ SlotOf(j) = {}
    BY <1>1, <2>1 DEF HoldsByPhase
  <2>3. CASE ~IsSync(j) /\ Goto(j, "pipes") /\ UNCHANGED <<mode, stage, count>>
    <3>1. ~Preserves(j)
      BY <2>3 DEF IsSync, Preserves
    <3>2. held[j] \ (held[j] \cap Staging) \subseteq Pipe \cup Slot
      BY <1>1, <2>2, <3>1 DEF Handle
    <3>3. Moves(j, "pipes", held[j] \cap Staging)
      BY <1>9, <2>3, MovesRecycling DEF recycle_staging_buffers
    <3>4. HoldsByPhase(j)'
      BY <1>1, <2>3, <3>2, <3>3 DEF Moves, HoldsByPhase, IsSync, SlotOf, Preserves
    <3> QED
      BY <3>3, <3>4, HoldsMoves
  <2>4. CASE /\ IsSync(j) /\ Goto(j, "locking")
             /\ stage' = [stage EXCEPT ![j] = 2] /\ UNCHANGED <<mode, count>>
    <3>1. /\ phase'[j] = "locking" /\ held'[j] = held[j] \ (held[j] \cap Staging)
          /\ mode'[j] = mode[j]
          /\ \A i \in Job \ {j} : /\ phase'[i] = phase[i] /\ held'[i] = held[i]
                                  /\ mode'[i] = mode[i] /\ stage'[i] = stage[i]
      BY <2>1, <2>4 DEF Goto, TypeOK
    <3>2. HoldsByPhase(j)'
      BY <2>2, <2>4, <3>1 DEF HoldsByPhase, SlotOf, IsSync
    <3> QED
      BY <3>1, <3>2, HoldsOthers
  <2>5. CASE IsSync(j) /\ ~Preserves(j) /\ Return(j)
    <3>1. /\ phase'[j] = "idle" /\ held'[j] = held[j] \ (held[j] \cap Staging)
          /\ \A i \in Job \ {j} : /\ phase'[i] = phase[i] /\ held'[i] = held[i]
                                  /\ mode'[i] = mode[i] /\ stage'[i] = stage[i]
      BY <2>1, <2>5 DEF Return, Goto, TypeOK
    <3>2. held'[j] = {}
      BY <1>1, <2>2, <2>5, <3>1 DEF SlotOf, Handle
    <3>3. HoldsByPhase(j)'
      BY <3>1, <3>2 DEF HoldsByPhase, SlotOf
    <3> QED
      BY <3>1, <3>3, HoldsOthers
  <2> QED
    BY <1>9, <2>3, <2>4, <2>5 DEF recycle_staging_buffers
<1>10. CASE recycle_async_pipelines(j)
  <2>1. phase[j] = "pipes" /\ Moves(j, "recycleSlot", held[j] \cap Pipe)
    BY <1>10, MovesRecycling DEF recycle_async_pipelines
  <2>2. HoldsByPhase(j)'
    BY <1>1, <2>1 DEF Moves, HoldsByPhase, IsSync, SlotOf, Preserves
  <2> QED
    BY <2>1, <2>2, HoldsMoves
<1>11. CASE recycle_submission_slot(j)
  <2>1. /\ phase'[j] = "idle" /\ held'[j] = held[j] \ SlotOf(j)
        /\ \A i \in Job \ {j} : /\ phase'[i] = phase[i] /\ held'[i] = held[i]
                                /\ mode'[i] = mode[i] /\ stage'[i] = stage[i]
    BY <1>11 DEF recycle_submission_slot, Recycle, Return, Goto, TypeOK
  <2>2. held'[j] = {}
    BY <1>1, <1>11, <2>1 DEF recycle_submission_slot, HoldsByPhase, SlotOf
  <2>3. HoldsByPhase(j)'
    BY <2>1, <2>2 DEF HoldsByPhase, SlotOf
  <2> QED
    BY <2>1, <2>3, HoldsOthers
<1>12. CASE DropPending(j)
  <2>1. phase[j] \in {"dropWait", "dropIdle"} /\ Moves(j, "transients", {})
    BY <1>12, MovesKeeping DEF DropPending, handleVars
  <2>2. HoldsByPhase(j)'
    BY <1>1, <2>1 DEF Moves, HoldsByPhase, IsSync, SlotOf, Preserves
  <2> QED
    BY <2>1, <2>2, HoldsMoves
<1> QED
  BY <1>3, <1>4, <1>5, <1>6, <1>7, <1>8, <1>9, <1>10, <1>11, <1>12 DEF Complete

LEMMA HoldsStep ==
    ASSUME TypeOK, HeldByPhase, [Next]_vars
    PROVE  HeldByPhase'
<1>1. ASSUME NEW j \in Job, NEW m, Begin(j, m) PROVE HeldByPhase'
  <2>1. /\ phase'[j] = "locking" /\ held' = held
        /\ \A i \in Job \ {j} : /\ phase'[i] = phase[i] /\ mode'[i] = mode[i]
                                /\ stage'[i] = stage[i]
    BY <1>1 DEF Begin, Goto, handleVars, TypeOK
  <2>2. held[j] = {}
    BY <1>1 DEF Begin, HeldByPhase, HoldsByPhase
  <2>3. HoldsByPhase(j)'
    BY <2>1, <2>2 DEF HoldsByPhase, SlotOf
  <2> QED
    BY <2>1, <2>3, HoldsOthers
<1>2. ASSUME NEW j \in Job, TicketWait(j) \/ TicketDrop(j) PROVE HeldByPhase'
  <2>1. PICK p \in {"wait", "dropWait"} : Goto(j, p)
    BY <1>2 DEF TicketWait, TicketDrop
  <2>2. phase[j] = "ticket" /\ Moves(j, p, {})
    BY <1>2, <2>1, MovesKeeping DEF TicketWait, TicketDrop, handleVars
  <2>3. HoldsByPhase(j)
    BY DEF HeldByPhase
  <2>4. HoldsByPhase(j)'
    BY <2>1, <2>2, <2>3 DEF Moves, HoldsByPhase, IsSync, SlotOf, Preserves
  <2> QED
    BY <2>2, <2>4, HoldsMoves
<1>3. CASE \/ GpuCompletes \/ DeviceLost \/ ClearIdles \/ ClearPool
           \/ ContextDrop \/ \E list \in Clears : BeginClear(list)
  BY <1>3, HoldsUnchanged
  DEF GpuCompletes, DeviceLost, ClearIdles, ClearPool, ContextDrop, BeginClear,
      callVars, handleVars, callState
<1>4. CASE UNCHANGED vars
  BY <1>4, HoldsUnchanged DEF vars, callVars, handleVars, callState
<1> QED
  BY <1>1, <1>2, <1>3, <1>4, HoldsBuild, HoldsComplete DEF Next

LEMMA OwnershipInit == Init => HeldByPhase /\ AllPlaced
  BY DEF Init, HeldByPhase, HoldsByPhase, SlotOf, IsSync, AllPlaced, Placed

\* Whatever fails and however calls, tickets and clears interleave, every
\* handle that exists is pooled, cached, owned by a running call or ticket, or
\* was lost with a failed reset.
THEOREM Nothing_Forgotten == Spec => []NothingForgotten
<1>1. TypeOK /\ ExclusiveOwnership /\ HeldByPhase /\ AllPlaced /\ [Next]_vars
        => HeldByPhase' /\ AllPlaced'
  BY PlacedStep, HoldsStep
<1>2. HeldByPhase /\ AllPlaced => NothingForgotten
  BY PlacedImplies
<1> QED
  BY <1>1, <1>2, OwnershipInit, TypeCorrect, Exclusive, PTL DEF Spec

-----------------------------------------------------------------------------
(* The drop of the context.  Nothing runs afterwards.                       *)

AllReturned == \A j \in Job : phase[j] = "idle"

DeviceGone == ~alive => AllReturned /\ Handle \subseteq fresh \cup leaked

\* Only the drop of the context ends the context.
LEMMA StaysAlive ==
    ASSUME [Next]_vars, alive PROVE alive' \/ ContextDrop
<1>1. ASSUME NEW j \in Job, Build(j) PROVE UNCHANGED alive
  BY <1>1
  DEF Build, execution_guard, allocate_program_storage, StorageReady,
      take_async_pipeline, pipeline_for_shader_occurrence, PassesBound,
      take_submission_slot, ResetSlot, ResetSlotFails, BuildFails, SubmitFails,
      submit_staged_program, ReturnError, restVars
<1>2. ASSUME NEW j \in Job, Complete(j) PROVE UNCHANGED alive
  BY <1>2
  DEF Complete, wait_for_completion, WaitFails, SyncIdle, DropPending,
      ReadOutputFails, commit_program_luts, recycle_program_transients,
      recycle_staging_buffers, recycle_async_pipelines,
      recycle_submission_slot, ReturnError, restVars
<1> QED
  BY <1>1, <1>2
  DEF Next, Begin, TicketWait, TicketDrop, GpuCompletes, DeviceLost,
      BeginClear, ClearIdles, ClearPool, vars, restVars

\* Dropping the context destroys what no call holds, and no call holds anything.
LEMMA DropDestroys ==
    ASSUME TypeOK, NothingForgotten, ContextDrop
    PROVE  DeviceGone'
<1>1. /\ AllReturned /\ UNCHANGED <<phase, leaked>>
      /\ fresh' = fresh \cup Drained
  BY DEF ContextDrop, AllReturned, callVars
<1>2. ASSUME NEW h \in Handle PROVE h \in fresh' \cup leaked'
  <2>1. h \in fresh \cup leaked \cup CachedPipes \/ pool[h] > 0
    BY <1>1 DEF NothingForgotten, AllReturned
  <2> QED
    BY <1>1, <2>1 DEF Drained, Pooled
<1> QED
  BY <1>1, <1>2 DEF DeviceGone, AllReturned

\* Without a call or a context nothing is created any more.
LEMMA GoneStaysGone ==
    ASSUME TypeOK, DeviceGone, ~alive, [Next]_vars
    PROVE  DeviceGone'
<1>1. AllReturned /\ Handle \subseteq fresh \cup leaked
  BY DEF DeviceGone
<1>2. ASSUME NEW j \in Job
      PROVE  ~Build(j) /\ ~Complete(j) /\ ~TicketWait(j) /\ ~TicketDrop(j)
  BY <1>1, <1>2
  DEF AllReturned, Build, execution_guard, allocate_program_storage,
      StorageReady, take_async_pipeline, pipeline_for_shader_occurrence,
      PassesBound, take_submission_slot, ResetSlot, ResetSlotFails, BuildFails,
      SubmitFails, submit_staged_program, Complete, wait_for_completion,
      WaitFails, SyncIdle, DropPending, ReadOutputFails, commit_program_luts,
      recycle_program_transients, recycle_staging_buffers,
      recycle_async_pipelines, recycle_submission_slot, TicketWait, TicketDrop
<1>3. UNCHANGED <<phase, leaked>> /\ fresh \subseteq fresh'
  <2>1. CASE GpuCompletes \/ DeviceLost \/ ClearIdles
             \/ \E list \in Clears : BeginClear(list)
    BY <2>1
    DEF GpuCompletes, DeviceLost, ClearIdles, BeginClear, callVars, handleVars
  <2>2. CASE ClearPool
    BY <2>2 DEF ClearPool
  <2>3. CASE UNCHANGED vars
    BY <2>3 DEF vars, callVars, handleVars
  <2> QED
    BY <1>2, <2>1, <2>2, <2>3 DEF Next, Begin, ContextDrop
<1> QED
  BY <1>1, <1>3 DEF DeviceGone, AllReturned

\* When the context is dropped every handle but the slots lost to a failed
\* reset has been destroyed, and none is created after that.
THEOREM Nothing_Outlives_Device == Spec => []NothingOutlivesDevice
<1>1. Init => DeviceGone
  BY DEF Init, DeviceGone
<1>2. TypeOK /\ NothingForgotten /\ DeviceGone /\ [Next]_vars => DeviceGone'
  <2>1. ASSUME alive' PROVE DeviceGone'
    BY <2>1 DEF DeviceGone
  <2> QED
    BY <2>1, StaysAlive, DropDestroys, GoneStaysGone
<1>3. DeviceGone => NothingOutlivesDevice
  BY DEF DeviceGone, NothingOutlivesDevice
<1> QED
  BY <1>1, <1>2, <1>3, TypeCorrect, Nothing_Forgotten, PTL DEF Spec

-----------------------------------------------------------------------------
(* What the device may still use stays with the ticket that submitted it,   *)
(* provided queue_wait_idle does not fail on a device that is not lost.      *)


\* The phases of a call whose submission the device may not have finished.
Waiting == {"ticket", "wait", "dropWait", "dropIdle", "syncIdle"}

\* A submission belongs to a waiting call, which still owns all it uses, and
\* its fence is not signaled.
EntryOwned(e) ==
    /\ phase[e.job] \in Waiting
    /\ e.uses \subseteq held[e.job]
    /\ e.luts = luts[e.job]
    /\ \E s \in e.uses \cap Slot : s \notin signaled

EntriesOwned == \A n \in 1 .. Len(queue) : EntryOwned(queue[n])

\* A call has one submission in flight.
OneEntryEach ==
    \A m, n \in 1 .. Len(queue) : queue[m].job = queue[n].job => m = n

\* The fence of the slot being recorded is not signaled.
FenceReset ==
    \A j \in Job :
       /\ phase[j] = "reset" => SlotOf(j) # {}
       /\ phase[j] = "record" => \E s \in SlotOf(j) : s \notin signaled

FlightInv == EntriesOwned /\ OneEntryEach /\ FenceReset

-----------------------------------------------------------------------------
LEMMA EntryTypes ==
    ASSUME TypeOK, NEW n \in 1 .. Len(queue)
    PROVE  queue[n] \in SubmissionRecord
  BY DEF TypeOK

\* A signaled fence means that the call has nothing in flight.
LEMMA DoneMeansFinished ==
    ASSUME TypeOK, EntriesOwned, NEW j \in Job, Done(j)
    PROVE  ~InFlight(j)
  BY DEF EntriesOwned, EntryOwned, Done, SlotOf, InFlight

\* A call outside the waiting phases has nothing in flight.
LEMMA BuildingMeansFinished ==
    ASSUME EntriesOwned, NEW j \in Job, phase[j] \notin Waiting
    PROVE  ~InFlight(j)
  BY DEF EntriesOwned, EntryOwned, InFlight

\* What a call with nothing in flight does leaves the entries owned.
LEMMA OthersKeepTheirs ==
    ASSUME TypeOK, EntriesOwned, OneEntryEach, NEW j \in Job, ~InFlight(j),
           \A i \in Job \ {j} : /\ phase'[i] = phase[i]
                                /\ held'[i] = held[i]
                                /\ luts'[i] = luts[i],
           UNCHANGED queue, signaled' \subseteq signaled
    PROVE  EntriesOwned' /\ OneEntryEach'
<1>1. OneEntryEach'
  BY DEF OneEntryEach
<1> SUFFICES ASSUME NEW n \in 1 .. Len(queue) PROVE EntryOwned(queue[n])'
  BY <1>1 DEF EntriesOwned
<1>2. queue[n].job \in Job \ {j}
  BY EntryTypes DEF InFlight, SubmissionRecord
<1> QED
  BY <1>2 DEF EntriesOwned, EntryOwned

\* A step that changes no entry and moves nothing an entry uses.
LEMMA EntriesUntouched ==
    ASSUME EntriesOwned, OneEntryEach,
           UNCHANGED <<queue, held, luts, phase, signaled>>
    PROVE  EntriesOwned' /\ OneEntryEach'
  BY DEF EntriesOwned, OneEntryEach, EntryOwned

\* The waiting call itself goes on waiting.
LEMMA StillWaiting ==
    ASSUME TypeOK, EntriesOwned, OneEntryEach, NEW j \in Job, NEW p \in Waiting,
           Goto(j, p), UNCHANGED <<queue, held, luts, signaled>>
    PROVE  EntriesOwned' /\ OneEntryEach'
<1>1. OneEntryEach'
  BY DEF OneEntryEach
<1> SUFFICES ASSUME NEW n \in 1 .. Len(queue) PROVE EntryOwned(queue[n])'
  BY <1>1 DEF EntriesOwned
<1>2. queue[n].job \in Job
  BY EntryTypes DEF SubmissionRecord
<1> QED
  BY <1>2 DEF EntriesOwned, EntryOwned, Goto, TypeOK

-----------------------------------------------------------------------------
(* FenceReset, action by action.                                           *)

\* A step of j to a phase other than reset and record.
LEMMA FenceResetElsewhere ==
    ASSUME TypeOK, FenceReset, NEW j \in Job,
           phase'[j] \notin {"reset", "record"},
           \A i \in Job \ {j} : phase'[i] = phase[i] /\ held'[i] = held[i],
           signaled' \subseteq signaled
    PROVE  FenceReset'
<1> SUFFICES ASSUME NEW i \in Job
             PROVE /\ phase'[i] = "reset" => SlotOf(i)' # {}
                   /\ phase'[i] = "record" => \E s \in SlotOf(i)' : s \notin signaled'
  BY DEF FenceReset
<1> QED
  BY DEF FenceReset, SlotOf

\* What a call returning an error does to the phases and the handles.
LEMMA ReturnErrorLocal ==
    ASSUME TypeOK, NEW j \in Job, NEW keep, NEW lose, ReturnError(j, keep, lose)
    PROVE  /\ phase'[j] = "idle" /\ held'[j] = {}
           /\ \A i \in Job \ {j} : /\ phase'[i] = phase[i]
                                   /\ held'[i] = held[i]
                                   /\ luts'[i] = luts[i]
  BY DEF ReturnError, Return, Goto, TypeOK

LEMMA FlightReturnError ==
    ASSUME TypeOK, FlightInv, NEW j \in Job, NEW keep, NEW lose,
           ReturnError(j, keep, lose), UNCHANGED gpuVars, ~InFlight(j)
    PROVE  FlightInv'
<1>1. EntriesOwned' /\ OneEntryEach'
  BY ReturnErrorLocal, OthersKeepTheirs DEF FlightInv, gpuVars
<1>2. FenceReset'
  BY ReturnErrorLocal, FenceResetElsewhere DEF FlightInv, gpuVars
<1> QED
  BY <1>1, <1>2 DEF FlightInv

\* A step by which a call with nothing in flight moves to another phase than
\* reset and record, whatever it does to its own handles and tables.
LEMMA FlightLocal ==
    ASSUME TypeOK, FlightInv, NEW j \in Job, NEW p,
           p \notin {"reset", "record"}, phase'[j] = p, ~InFlight(j),
           \A i \in Job \ {j} : /\ phase'[i] = phase[i]
                                /\ held'[i] = held[i]
                                /\ luts'[i] = luts[i],
           UNCHANGED queue, signaled' \subseteq signaled
    PROVE  FlightInv'
  BY OthersKeepTheirs, FenceResetElsewhere DEF FlightInv

LEMMA TakeLocal ==
    ASSUME TypeOK, NEW j \in Job, NEW hs, Take(j, hs)
    PROVE  /\ held'[j] = held[j] \cup hs
           /\ \A i \in Job \ {j} : held'[i] = held[i]
  BY DEF Take, TypeOK

LEMMA RecycleLocal ==
    ASSUME TypeOK, NEW j \in Job, NEW hs, Recycle(j, hs)
    PROVE  /\ held'[j] = held[j] \ hs
           /\ \A i \in Job \ {j} : held'[i] = held[i]
  BY DEF Recycle, TypeOK

LEMMA GotoLocal ==
    ASSUME TypeOK, NEW j \in Job, NEW p, Goto(j, p)
    PROVE  phase'[j] = p /\ \A i \in Job \ {j} : phase'[i] = phase[i]
  BY DEF Goto, TypeOK

LEMMA FlightBuild ==
    ASSUME TypeOK, ExclusiveOwnership, FlightInv, NEW j \in Job, Build(j)
    PROVE  FlightInv'
<1>1. phase[j] \notin Waiting
  BY DEF Build, Waiting, execution_guard, allocate_program_storage,
     StorageReady, take_async_pipeline, pipeline_for_shader_occurrence,
     PassesBound, take_submission_slot, ResetSlot, ResetSlotFails,
     BuildFails, SubmitFails, submit_staged_program
<1>2. ~InFlight(j)
  BY <1>1, BuildingMeansFinished DEF FlightInv
<1>3. CASE execution_guard(j) \/ PassesBound(j)
  <2>1. \E p \in {"alloc", "slot"} : Goto(j, p)
    BY <1>3 DEF execution_guard, PassesBound
  <2>2. UNCHANGED <<queue, signaled, held, luts>>
    BY <1>3 DEF execution_guard, PassesBound, handleVars, lutVars, gpuVars
  <2> QED
    BY <1>2, <2>1, <2>2, GotoLocal, FlightLocal
<1>4. CASE allocate_program_storage(j)
  <2>1. \E hs : Take(j, hs)
    BY <1>4 DEF allocate_program_storage
  <2>2. /\ phase[j] = "alloc" /\ UNCHANGED <<phase, queue, signaled>>
        /\ \A i \in Job \ {j} : luts'[i] = luts[i]
    BY <1>4 DEF allocate_program_storage, gpuVars, lutVars, TypeOK
  <2> QED
    BY <1>2, <2>1, <2>2, TakeLocal, FlightLocal
<1>5. CASE StorageReady(j)
  <2>1. \A i \in Job \ {j} : held'[i] = held[i]
    BY <1>5, RecycleLocal DEF StorageReady, handleVars
  <2>2. Goto(j, "bind") /\ UNCHANGED <<queue, signaled, luts>>
    BY <1>5 DEF StorageReady, gpuVars, lutVars
  <2> QED
    BY <1>2, <2>1, <2>2, GotoLocal, FlightLocal
<1>6. CASE take_async_pipeline(j)
  <2>1. \E hs : Take(j, hs)
    BY <1>6 DEF take_async_pipeline
  <2>2. phase[j] = "bind" /\ UNCHANGED <<phase, queue, signaled, luts>>
    BY <1>6 DEF take_async_pipeline, gpuVars, lutVars
  <2> QED
    BY <1>2, <2>1, <2>2, TakeLocal, FlightLocal
<1>7. CASE pipeline_for_shader_occurrence(j)
  <2>1. phase[j] = "bind" /\ UNCHANGED <<phase, queue, signaled, luts, held>>
    BY <1>7 DEF pipeline_for_shader_occurrence, gpuVars, lutVars
  <2> QED
    BY <1>2, <2>1, FlightLocal
<1>8. CASE take_submission_slot(j)
  <2>1. PICK s \in Obtainable(Slot) :
          /\ Take(j, {s})
          /\ Goto(j, IF s \in fresh THEN "record" ELSE "reset")
          /\ signaled' = IF s \in fresh THEN signaled \ {s} ELSE signaled
    BY <1>8 DEF take_submission_slot
  <2>2. s \in Slot
    BY <2>1, ObtainableSubset
  <2>3. /\ held'[j] = held[j] \cup {s}
        /\ \A i \in Job \ {j} : held'[i] = held[i] /\ phase'[i] = phase[i]
        /\ phase'[j] = IF s \in fresh THEN "record" ELSE "reset"
    BY <2>1, TakeLocal, GotoLocal
  <2>4. UNCHANGED <<queue, luts>> /\ signaled' \subseteq signaled
    BY <1>8, <2>1 DEF take_submission_slot, lutVars
  <2>5. EntriesOwned' /\ OneEntryEach'
    BY <1>2, <2>3, <2>4, OthersKeepTheirs DEF FlightInv
  <2>6. FenceReset'
    <3> SUFFICES ASSUME NEW i \in Job
                 PROVE /\ phase'[i] = "reset" => SlotOf(i)' # {}
                       /\ phase'[i] = "record" => \E c \in SlotOf(i)' : c \notin signaled'
      BY DEF FenceReset
    <3>1. CASE i = j
      BY <2>1, <2>2, <2>3, <3>1 DEF SlotOf
    <3>2. CASE i # j
      BY <2>3, <2>4, <3>2 DEF FlightInv, FenceReset, SlotOf
    <3> QED
      BY <3>1, <3>2
  <2> QED
    BY <2>5, <2>6 DEF FlightInv
<1>9. CASE ResetSlot(j)
  <2>1. /\ signaled' = signaled \ SlotOf(j)
        /\ UNCHANGED <<queue, luts, held>>
        /\ Goto(j, "record") /\ phase[j] = "reset"
    BY <1>9 DEF ResetSlot, handleVars, lutVars
  <2>2. EntriesOwned' /\ OneEntryEach'
    BY <1>2, <2>1, GotoLocal, OthersKeepTheirs DEF FlightInv
  <2>3. FenceReset'
    <3> SUFFICES ASSUME NEW i \in Job
                 PROVE /\ phase'[i] = "reset" => SlotOf(i)' # {}
                       /\ phase'[i] = "record" => \E c \in SlotOf(i)' : c \notin signaled'
      BY DEF FenceReset
    <3>1. CASE i = j
      BY <2>1, <3>1, GotoLocal DEF FlightInv, FenceReset, SlotOf
    <3>2. CASE i # j
      BY <2>1, <3>2, GotoLocal DEF FlightInv, FenceReset, SlotOf
    <3> QED
      BY <3>1, <3>2
  <2> QED
    BY <2>2, <2>3 DEF FlightInv
<1>10. CASE ResetSlotFails(j) \/ BuildFails(j) \/ SubmitFails(j)
  BY <1>2, <1>10, FlightReturnError DEF ResetSlotFails, BuildFails, SubmitFails
<1>11. CASE submit_staged_program(j)
  <2>1. /\ phase[j] = "record" /\ queue' = Append(queue, Submission(j))
        /\ UNCHANGED <<held, luts, signaled>>
        /\ \E p \in {"wait", "ticket"} : Goto(j, p)
    BY <1>11 DEF submit_staged_program, handleVars, lutVars
  <2>2. FenceReset'
    BY <2>1, GotoLocal, FenceResetElsewhere DEF FlightInv
  <2>3. /\ Len(queue') = Len(queue) + 1
        /\ queue'[Len(queue) + 1] = Submission(j)
        /\ \A n \in 1 .. Len(queue) : queue'[n] = queue[n]
        /\ Len(queue) \in Nat
    BY <2>1 DEF TypeOK
  <2>4. ASSUME NEW n \in 1 .. Len(queue) PROVE EntryOwned(queue[n])' /\ queue[n].job # j
    <3>1. queue[n].job # j /\ queue[n].job \in Job
      BY <1>2, EntryTypes DEF InFlight, SubmissionRecord
    <3> QED
      BY <2>1, <2>3, <3>1, GotoLocal DEF FlightInv, EntriesOwned, EntryOwned
  <2>5. ASSUME NEW e, e = Submission(j) PROVE EntryOwned(e)'
    BY <2>1, <2>5, GotoLocal
    DEF FlightInv, FenceReset, EntryOwned, Submission, SlotOf, Waiting, TypeOK
  <2>6. Submission(j).job = j
    BY DEF Submission
  <2>7. EntriesOwned'
    <3> SUFFICES ASSUME NEW n \in 1 .. Len(queue')
                 PROVE EntryOwned(queue[n])'
      BY DEF EntriesOwned
    <3>1. CASE n = Len(queue) + 1
      BY <2>3, <2>5, <3>1 DEF EntryOwned
    <3>2. CASE n # Len(queue) + 1
      <4>1. n \in 1 .. Len(queue)
        BY <2>3, <3>2
      <4> QED
        BY <2>3, <2>4, <4>1 DEF EntryOwned
    <3> QED
      BY <3>1, <3>2
  <2>8. OneEntryEach'
    BY <2>3, <2>4, <2>6 DEF FlightInv, OneEntryEach
  <2> QED
    BY <2>2, <2>7, <2>8 DEF FlightInv
<1> QED
  BY <1>3, <1>4, <1>5, <1>6, <1>7, <1>8, <1>9, <1>10, <1>11 DEF Build

\* A fault-free or device-lost queue_wait_idle leaves nothing in flight.
LEMMA IdleMeansFinished ==
    ASSUME ~IdleCanFail, NEW j \in Job, IdleReturns(j)
    PROVE  ~InFlight(j)
  BY DEF IdleReturns

LEMMA FlightComplete ==
    ASSUME TypeOK, FlightInv, ~IdleCanFail, NEW j \in Job, Complete(j)
    PROVE  FlightInv'
<1>1. CASE wait_for_completion(j)
  <2>1. ~InFlight(j)
    BY <1>1, DoneMeansFinished DEF wait_for_completion, FlightInv
  <2>2. \A i \in Job \ {j} : held'[i] = held[i]
    BY <1>1, RecycleLocal DEF wait_for_completion, handleVars
  <2>3. Goto(j, "commit") /\ UNCHANGED <<queue, signaled, luts>>
    BY <1>1 DEF wait_for_completion, gpuVars, lutVars
  <2> QED
    BY <2>1, <2>2, <2>3, GotoLocal, FlightLocal
<1>2. CASE WaitFails(j)
  <2>1. /\ \E p \in Waiting : Goto(j, p) /\ p \notin {"reset", "record"}
        /\ UNCHANGED <<queue, signaled, held, luts>>
    BY <1>2 DEF WaitFails, AfterWaitFailure, Waiting, gpuVars, handleVars, lutVars
  <2>2. EntriesOwned' /\ OneEntryEach'
    BY <2>1, StillWaiting DEF FlightInv
  <2>3. FenceReset'
    BY <2>1, GotoLocal, FenceResetElsewhere DEF FlightInv
  <2> QED
    BY <2>2, <2>3 DEF FlightInv
<1>3. CASE SyncIdle(j)
  BY <1>3, IdleMeansFinished, FlightReturnError DEF SyncIdle
<1>4. CASE DropPending(j)
  <2>1. ~InFlight(j)
    BY <1>4, DoneMeansFinished, IdleMeansFinished DEF DropPending, FlightInv
  <2>2. Goto(j, "transients") /\ UNCHANGED <<queue, signaled, luts, held>>
    BY <1>4 DEF DropPending, gpuVars, handleVars
  <2> QED
    BY <2>1, <2>2, GotoLocal, FlightLocal
<1>5. ASSUME phase[j] \in {"commit", "transients", "staging", "pipes", "recycleSlot"}
      PROVE  ~InFlight(j)
  BY <1>5, BuildingMeansFinished DEF FlightInv, Waiting
<1>6. CASE ReadOutputFails(j)
  <2>1. ~InFlight(j)
    BY <1>5, <1>6 DEF ReadOutputFails
  <2>2. CASE Goto(j, "dropWait")
             /\ UNCHANGED <<lock, mode, stage, count, resident, handleVars,
                            lutVars, pipeVars, restVars>>
    BY <1>6, <2>1, <2>2, GotoLocal, FlightLocal
    DEF ReadOutputFails, gpuVars, handleVars, lutVars
  <2>3. CASE ReturnError(j, {}, {})
    BY <1>6, <2>1, <2>3, FlightReturnError DEF ReadOutputFails
  <2> QED
    BY <1>6, <2>2, <2>3 DEF ReadOutputFails
<1>7. CASE commit_program_luts(j)
  <2>1. /\ Goto(j, "transients") /\ phase[j] = "commit"
        /\ UNCHANGED <<queue, signaled, luts, held>>
    BY <1>7 DEF commit_program_luts, gpuVars, handleVars
  <2> QED
    BY <1>5, <2>1, GotoLocal, FlightLocal
<1>8. CASE recycle_program_transients(j)
  <2>1. \E hs : Recycle(j, hs)
    BY <1>8 DEF recycle_program_transients
  <2>2. /\ Goto(j, "staging") /\ phase[j] = "transients"
        /\ UNCHANGED <<queue, signaled>>
        /\ \A i \in Job \ {j} : luts'[i] = luts[i]
    BY <1>8 DEF recycle_program_transients, gpuVars, TypeOK
  <2> QED
    BY <1>5, <2>1, <2>2, GotoLocal, RecycleLocal, FlightLocal
<1>9. CASE recycle_staging_buffers(j)
  <2>1. \E p \in {"pipes", "locking", "idle"} : Goto(j, p)
    BY <1>9 DEF recycle_staging_buffers, Return
  <2>2. /\ \E hs : Recycle(j, hs)
        /\ phase[j] = "staging" /\ UNCHANGED <<queue, signaled, luts>>
    BY <1>9 DEF recycle_staging_buffers, gpuVars, lutVars
  <2> QED
    BY <1>5, <2>1, <2>2, GotoLocal, RecycleLocal, FlightLocal
<1>10. CASE recycle_async_pipelines(j) \/ recycle_submission_slot(j)
  <2>1. \E p \in {"recycleSlot", "idle"} : Goto(j, p)
    BY <1>10 DEF recycle_async_pipelines, recycle_submission_slot, Return
  <2>2. /\ \E hs : Recycle(j, hs)
        /\ phase[j] \in {"pipes", "recycleSlot"}
        /\ UNCHANGED <<queue, signaled, luts>>
    BY <1>10
    DEF recycle_async_pipelines, recycle_submission_slot, gpuVars, lutVars
  <2> QED
    BY <1>5, <2>1, <2>2, GotoLocal, RecycleLocal, FlightLocal
<1> QED
  BY <1>1, <1>2, <1>3, <1>4, <1>6, <1>7, <1>8, <1>9, <1>10 DEF Complete

\* Signaling the fence of the oldest submission touches no other submission
\* and no slot that is being recorded: their owners differ.
LEMMA FlightGpuCompletes ==
    ASSUME TypeOK, ExclusiveOwnership, FlightInv, GpuCompletes
    PROVE  FlightInv'
<1> DEFINE e == Head(queue)
<1>1. /\ queue # <<>> /\ queue' = Tail(queue)
      /\ signaled' = signaled \cup (e.uses \cap Slot)
      /\ UNCHANGED <<phase, held, luts>>
  BY DEF GpuCompletes, callVars, handleVars
<1>2. /\ e = queue[1] /\ Len(queue) \in Nat \ {0}
      /\ Len(queue') = Len(queue) - 1
      /\ \A n \in 1 .. Len(queue') : queue'[n] = queue[n + 1]
  BY <1>1 DEF TypeOK
<1>3. e.job \in Job /\ EntryOwned(e)
  BY <1>2, EntryTypes DEF FlightInv, EntriesOwned, SubmissionRecord
<1>4. ASSUME NEW i \in Job, i # e.job, NEW s \in held[i], s \notin signaled
      PROVE  s \notin signaled'
  <2>1. s \in Handle
    BY <1>4 DEF TypeOK
  <2>2. s \notin held[e.job]
    BY <1>3, <1>4, <2>1 DEF ExclusiveOwnership, OneOwner
  <2> QED
    BY <1>1, <1>3, <1>4, <2>2 DEF EntryOwned
<1> HIDE DEF e
<1>5. EntriesOwned'
  <2> SUFFICES ASSUME NEW n \in 1 .. Len(queue')
               PROVE  EntryOwned(queue[n])'
    BY DEF EntriesOwned
  <2> DEFINE d == queue[n + 1]
  <2>1. n + 1 \in 1 .. Len(queue) /\ queue'[n] = d
    BY <1>2
  <2>2. d.job \in Job /\ EntryOwned(d) /\ d.job # e.job
    <3>1. d.job \in Job
      BY <2>1, EntryTypes DEF SubmissionRecord
    <3>2. EntryOwned(d)
      BY <2>1 DEF FlightInv, EntriesOwned
    <3>3. 1 \in 1 .. Len(queue) /\ n + 1 # 1
      BY <1>2
    <3>4. queue[n + 1].job # queue[1].job
      BY <2>1, <3>3 DEF FlightInv, OneEntryEach
    <3> QED
      BY <1>2, <3>1, <3>2, <3>4
  <2>3. PICK s \in d.uses \cap Slot : s \notin signaled
    BY <2>2 DEF EntryOwned
  <2>4. s \notin signaled'
    BY <1>4, <2>2, <2>3 DEF EntryOwned
  <2> QED
    BY <1>1, <2>1, <2>2, <2>3, <2>4 DEF EntryOwned
<1>6. OneEntryEach'
  <2> SUFFICES ASSUME NEW m \in 1 .. Len(queue'), NEW n \in 1 .. Len(queue'),
                      queue'[m].job = queue'[n].job
               PROVE  m = n
    BY DEF OneEntryEach
  <2>1. m + 1 \in 1 .. Len(queue) /\ n + 1 \in 1 .. Len(queue)
        /\ queue[m + 1].job = queue[n + 1].job
    BY <1>2
  <2>2. m + 1 = n + 1
    BY <2>1 DEF FlightInv, OneEntryEach
  <2> QED
    BY <1>2, <2>2
<1>7. FenceReset'
  <2> SUFFICES ASSUME NEW i \in Job
               PROVE /\ phase'[i] = "reset" => SlotOf(i)' # {}
                     /\ phase'[i] = "record" => \E c \in SlotOf(i)' : c \notin signaled'
    BY DEF FenceReset
  <2>1. SlotOf(i)' = SlotOf(i)
    BY <1>1 DEF SlotOf
  <2>2. phase'[i] = "record" => i # e.job
    BY <1>1, <1>3 DEF EntryOwned, Waiting
  <2> QED
    BY <1>1, <1>4, <2>1, <2>2 DEF FlightInv, FenceReset, SlotOf
<1> QED
  BY <1>5, <1>6, <1>7 DEF FlightInv

LEMMA FlightUnchanged ==
    ASSUME FlightInv, UNCHANGED <<queue, held, luts, phase, signaled>>
    PROVE  FlightInv'
<1>1. FenceReset'
  BY DEF FlightInv, FenceReset, SlotOf
<1> QED
  BY <1>1, EntriesUntouched DEF FlightInv

LEMMA FlightQueueEmptied ==
    ASSUME FlightInv, queue' = <<>>, UNCHANGED <<held, phase, signaled>>
    PROVE  FlightInv'
<1>1. FenceReset'
  BY DEF FlightInv, FenceReset, SlotOf
<1>2. EntriesOwned' /\ OneEntryEach'
  BY DEF EntriesOwned, OneEntryEach
<1> QED
  BY <1>1, <1>2 DEF FlightInv

LEMMA FlightStep ==
    ASSUME ~IdleCanFail, TypeOK, ExclusiveOwnership, FlightInv, [Next]_vars
    PROVE  FlightInv'
<1>1. ASSUME NEW j \in Job, NEW m, Begin(j, m) PROVE FlightInv'
  <2>1. ~InFlight(j)
    BY <1>1, BuildingMeansFinished DEF Begin, FlightInv, Waiting
  <2>2. Goto(j, "locking") /\ UNCHANGED <<queue, signaled, luts, held>>
    BY <1>1 DEF Begin, gpuVars, lutVars, handleVars
  <2> QED
    BY <2>1, <2>2, GotoLocal, FlightLocal
<1>2. ASSUME NEW j \in Job, TicketWait(j) \/ TicketDrop(j) PROVE FlightInv'
  <2>1. /\ \E p \in Waiting : Goto(j, p) /\ p \notin {"reset", "record"}
        /\ UNCHANGED <<queue, signaled, luts, held>>
    BY <1>2 DEF TicketWait, TicketDrop, Waiting, gpuVars, lutVars, handleVars
  <2>2. EntriesOwned' /\ OneEntryEach'
    BY <2>1, StillWaiting DEF FlightInv
  <2>3. FenceReset'
    BY <2>1, GotoLocal, FenceResetElsewhere DEF FlightInv
  <2> QED
    BY <2>2, <2>3 DEF FlightInv
<1>3. CASE DeviceLost \/ ContextDrop
  BY <1>3, FlightQueueEmptied DEF DeviceLost, ContextDrop, callVars, handleVars
<1>4. CASE ClearIdles \/ ClearPool \/ \E list \in Clears : BeginClear(list)
  BY <1>4, FlightUnchanged
  DEF ClearIdles, ClearPool, BeginClear, handleVars, lutVars, gpuVars
<1>5. CASE UNCHANGED vars
  BY <1>5, FlightUnchanged DEF vars, handleVars, lutVars, gpuVars, callVars
<1> QED
  BY <1>1, <1>2, <1>3, <1>4, <1>5, FlightBuild, FlightComplete,
     FlightGpuCompletes DEF Next

LEMMA FlightInit == Init => FlightInv
  BY DEF Init, FlightInv, EntriesOwned, OneEntryEach, FenceReset

\* InFlightStaysOwned follows: the tables a submission reads are the ones its
\* call holds.
LEMMA FlightImplies ==
    ASSUME TypeOK, FlightInv
    PROVE  InFlightStaysOwned
<1> SUFFICES ASSUME NEW n \in 1 .. Len(queue)
             PROVE  /\ queue[n].uses \subseteq held[queue[n].job]
                    /\ \A k \in Key : queue[n].luts[k] # None
                                         => queue[n].luts[k] \in LiveLuts
  BY DEF InFlightStaysOwned, Entries
<1>1. queue[n].job \in Job /\ EntryOwned(queue[n])
  BY EntryTypes DEF FlightInv, EntriesOwned, SubmissionRecord
<1> QED
  BY <1>1 DEF EntryOwned, LiveLuts

\* While queue_wait_idle works on a device that is not lost, nothing the
\* device may still use leaves the call or ticket that submitted it.
THEOREM InFlight_Owned == ASSUME ~IdleCanFail PROVE Spec => []InFlightStaysOwned
<1>1. TypeOK /\ ExclusiveOwnership /\ FlightInv /\ [Next]_vars => FlightInv'
  BY FlightStep
<1>2. TypeOK /\ FlightInv => InFlightStaysOwned
  BY FlightImplies
<1> QED
  BY <1>1, <1>2, FlightInit, TypeCorrect, Exclusive, PTL DEF Spec

-----------------------------------------------------------------------------
(* Lookup tables.  A buffer carries the table of one key from the moment it *)
(* is allocated until nothing refers to it, and a call reads it only when   *)
(* it has been uploaded or when the call uploads it itself.                 *)

\* The cache or a call uses buffer b as the table of key k.
Binds(k, b) == lutCache[k] = b \/ \E j \in Job : luts[j][k] = b

OneKeyEach ==
    \A b \in LutBuffer : \A k, l \in Key : Binds(k, b) /\ Binds(l, b) => k = l

Uploaded(j) == \A k \in Key : luts[j][k] # None => content[luts[j][k]] = k

\* The submission of j is over: its fence was seen, or can be.
Finished(j) ==
    \/ phase[j] = "commit"
    \/ phase[j] \in Waiting /\ Done(j)

FinishedUploaded == \A j \in Job : Finished(j) => Uploaded(j)

\* What a call did not find uploaded it has still to insert; a dropped ticket
\* discards its insertions and then its tables.
PendingOrUploaded ==
    \A j \in Job : phase[j] # "transients" =>
       \A k \in Key : luts[j][k] # None =>
          k \in pending[j] \/ content[luts[j][k]] = k

\* A submission uploads what its call has still to insert.
UploadsPending ==
    \A n \in 1 .. Len(queue) : queue[n].uploads = pending[queue[n].job]

TableInv ==
    /\ OneKeyEach /\ CachedTablesUploaded
    /\ FinishedUploaded /\ PendingOrUploaded /\ UploadsPending

\* The calls other than j keep their tables.
OthersTables(j) ==
    \A i \in Job \ {j} : /\ phase'[i] = phase[i]
                         /\ held'[i] = held[i]
                         /\ luts'[i] = luts[i]
                         /\ pending'[i] = pending[i]

\* A call with nothing in flight leaves the uploads of the queue alone.
LEMMA UploadsOfOthers ==
    ASSUME TypeOK, UploadsPending, NEW j \in Job, ~InFlight(j),
           OthersTables(j), UNCHANGED queue
    PROVE  UploadsPending'
<1> SUFFICES ASSUME NEW n \in 1 .. Len(queue)
             PROVE  queue[n].uploads = pending'[queue[n].job]
  BY DEF UploadsPending
<1>1. queue[n].job \in Job \ {j}
  BY EntryTypes DEF InFlight, SubmissionRecord
<1> QED
  BY <1>1 DEF UploadsPending, OthersTables

\* Releasing references to buffers leaves the others with their keys.
LEMMA FewerBindings ==
    ASSUME TypeOK, OneKeyEach,
           \A k \in Key, b \in LutBuffer : Binds(k, b)' => Binds(k, b)
    PROVE  OneKeyEach'
  BY DEF OneKeyEach

\* A step that moves j between phases and changes no table.
LEMMA TablesKept ==
    ASSUME TypeOK, TableInv, NEW j \in Job,
           UNCHANGED <<lutVars, queue>>, signaled' \subseteq signaled,
           \A i \in Job \ {j} : phase'[i] = phase[i] /\ held'[i] = held[i],
           phase[j] # "transients", Finished(j)' => Finished(j)
    PROVE  TableInv'
<1>1. UNCHANGED <<luts, pending, lutCache, content>>
  BY DEF lutVars
<1>2. OneKeyEach' /\ CachedTablesUploaded' /\ UploadsPending'
  BY <1>1
  DEF TableInv, OneKeyEach, Binds, CachedTablesUploaded, UploadsPending
<1>3. PendingOrUploaded'
  <2> SUFFICES ASSUME NEW i \in Job, phase'[i] # "transients"
               PROVE  \A k \in Key : luts[i][k] # None =>
                         k \in pending[i] \/ content[luts[i][k]] = k
    BY <1>1 DEF PendingOrUploaded
  <2> QED
    BY DEF TableInv, PendingOrUploaded
<1>4. FinishedUploaded'
  <2> SUFFICES ASSUME NEW i \in Job, Finished(i)' PROVE Uploaded(i)
    BY <1>1 DEF FinishedUploaded, Uploaded
  <2>1. Finished(i)
    BY DEF Finished, Done, SlotOf
  <2> QED
    BY <2>1 DEF TableInv, FinishedUploaded
<1> QED
  BY <1>2, <1>3, <1>4 DEF TableInv

\* A call gives its tables up.
LEMMA TablesReleased ==
    ASSUME TypeOK, TableInv, NEW j \in Job, ~InFlight(j),
           luts' = [luts EXCEPT ![j] = NoLuts],
           OthersTables(j), UNCHANGED <<lutCache, content, queue, signaled>>
    PROVE  TableInv'
<1>1. luts'[j] = NoLuts
  BY DEF TypeOK
<1>2. OneKeyEach'
  <2> SUFFICES ASSUME NEW k \in Key, NEW b \in LutBuffer, Binds(k, b)'
               PROVE  Binds(k, b)
    BY FewerBindings DEF TableInv
  <2>1. b # None
    BY RuntimeAssumption
  <2> QED
    BY <1>1, <2>1 DEF Binds, NoLuts, OthersTables
<1>3. CachedTablesUploaded'
  BY DEF TableInv, CachedTablesUploaded
<1>4. PendingOrUploaded'
  <2> SUFFICES ASSUME NEW i \in Job, phase'[i] # "transients",
                      NEW k \in Key, luts'[i][k] # None
               PROVE  k \in pending'[i] \/ content'[luts'[i][k]] = k
    BY DEF PendingOrUploaded
  <2>1. i # j
    BY <1>1 DEF NoLuts
  <2> QED
    BY <2>1 DEF TableInv, PendingOrUploaded, OthersTables
<1>5. FinishedUploaded'
  <2> SUFFICES ASSUME NEW i \in Job, Finished(i)' PROVE Uploaded(i)'
    BY DEF FinishedUploaded
  <2>1. CASE i = j
    BY <1>1, <2>1 DEF Uploaded, NoLuts
  <2>2. CASE i # j
    <3>1. Finished(i)
      BY <2>2 DEF Finished, Done, SlotOf, OthersTables
    <3> QED
      BY <2>2, <3>1 DEF TableInv, FinishedUploaded, Uploaded, OthersTables
  <2> QED
    BY <2>1, <2>2
<1> QED
  BY <1>2, <1>3, <1>4, <1>5, UploadsOfOthers DEF TableInv

\* A call settles its insertions, into the cache or away.
LEMMA TablesSettled ==
    ASSUME TypeOK, TableInv, NEW j \in Job, ~InFlight(j),
           phase'[j] = "transients",
           OthersTables(j), UNCHANGED <<luts, content, queue, signaled>>,
           \A k \in Key : \/ lutCache'[k] = lutCache[k]
                          \/ lutCache'[k] = luts[j][k] /\ Finished(j)
    PROVE  TableInv'
<1>1. OneKeyEach'
  BY FewerBindings DEF TableInv, Binds
<1>2. CachedTablesUploaded'
  BY DEF TableInv, CachedTablesUploaded, FinishedUploaded, Uploaded
<1>3. PendingOrUploaded'
  <2> SUFFICES ASSUME NEW i \in Job, phase'[i] # "transients",
                      NEW k \in Key, luts'[i][k] # None
               PROVE  k \in pending'[i] \/ content'[luts'[i][k]] = k
    BY DEF PendingOrUploaded
  <2> QED
    BY DEF TableInv, PendingOrUploaded, OthersTables
<1>4. FinishedUploaded'
  <2> SUFFICES ASSUME NEW i \in Job, Finished(i)' PROVE Uploaded(i)'
    BY DEF FinishedUploaded
  <2>1. i # j
    BY DEF Finished, Waiting
  <2>2. Finished(i)
    BY <2>1 DEF Finished, Done, SlotOf, OthersTables
  <2> QED
    BY <2>2 DEF TableInv, FinishedUploaded, Uploaded
<1> QED
  BY <1>1, <1>2, <1>3, <1>4, UploadsOfOthers DEF TableInv

LEMMA TablesReturnError ==
    ASSUME TypeOK, TableInv, NEW j \in Job, NEW keep, NEW lose,
           ReturnError(j, keep, lose), UNCHANGED gpuVars, ~InFlight(j)
    PROVE  TableInv'
<1>1. OthersTables(j)
  <2>1. \A i \in Job \ {j} : pending'[i] = pending[i]
    BY DEF ReturnError, TypeOK
  <2>2. \A i \in Job \ {j} : /\ phase'[i] = phase[i]
                             /\ held'[i] = held[i]
                             /\ luts'[i] = luts[i]
    BY ReturnErrorLocal
  <2> QED
    BY <2>1, <2>2 DEF OthersTables
<1>2. UNCHANGED <<queue, signaled>>
  BY DEF gpuVars
<1> QED
  BY <1>1, <1>2, TablesReleased DEF ReturnError, gpuVars

\* A table found in the cache is uploaded; a new one is in a buffer that
\* nothing else refers to.
LEMMA TablesAllocate ==
    ASSUME TypeOK, TableInv, NEW j \in Job, ~InFlight(j),
           allocate_program_storage(j)
    PROVE  TableInv'
<1> DEFINE k == Plan[j][count[j] + 1]
<1>1. /\ phase[j] = "alloc" /\ UNCHANGED <<phase, queue, signaled>>
      /\ \E hs : Take(j, hs)
  BY DEF allocate_program_storage, gpuVars
<1>2. \A i \in Job \ {j} : held'[i] = held[i]
  BY <1>1, TakeLocal
<1>3. ~Finished(j)' /\ \A i \in Job \ {j} : Finished(i)' => Finished(i)
  BY <1>1, <1>2 DEF Finished, Waiting, Done, SlotOf
<1>4. CASE UNCHANGED lutVars
  BY <1>1, <1>2, <1>3, <1>4, TablesKept
<1>5. CASE /\ k \in Key /\ lutCache[k] # None
           /\ luts' = [luts EXCEPT ![j][k] = lutCache[k]]
           /\ UNCHANGED <<pending, lutCache, content>>
  <2> HIDE DEF k
  <2>1. /\ luts'[j][k] = lutCache[k]
        /\ \A l \in Key \ {k} : luts'[j][l] = luts[j][l]
        /\ \A i \in Job \ {j} : luts'[i] = luts[i]
    BY <1>5 DEF TypeOK
  <2>2. OthersTables(j)
    BY <1>1, <1>2, <1>5, <2>1 DEF OthersTables
  <2>3. OneKeyEach'
    <3> SUFFICES ASSUME NEW l \in Key, NEW b \in LutBuffer, Binds(l, b)'
                 PROVE  Binds(l, b)
      BY FewerBindings DEF TableInv
    <3> QED
      BY <1>5, <2>1 DEF Binds
  <2>4. CachedTablesUploaded'
    BY <1>5 DEF TableInv, CachedTablesUploaded
  <2>5. FinishedUploaded'
    BY <1>3, <1>5, <2>1 DEF TableInv, FinishedUploaded, Uploaded
  <2>6. PendingOrUploaded'
    <3> SUFFICES ASSUME NEW i \in Job, phase[i] # "transients",
                        NEW l \in Key, luts'[i][l] # None
                 PROVE  l \in pending[i] \/ content[luts'[i][l]] = l
      BY <1>1, <1>5 DEF PendingOrUploaded
    <3>1. CASE i = j /\ l = k
      BY <1>5, <2>1, <3>1 DEF TableInv, CachedTablesUploaded
    <3>2. CASE ~(i = j /\ l = k)
      <4>1. luts'[i][l] = luts[i][l]
        BY <2>1, <3>2
      <4> QED
        BY <4>1 DEF TableInv, PendingOrUploaded
    <3> QED
      BY <3>1, <3>2
  <2> QED
    BY <1>1, <2>2, <2>3, <2>4, <2>5, <2>6, UploadsOfOthers DEF TableInv
<1>6. ASSUME NEW b \in LutBuffer, b \notin LiveLuts, k \in Key,
             luts' = [luts EXCEPT ![j][k] = b],
             content' = [content EXCEPT ![b] = None],
             pending' = [pending EXCEPT ![j] = @ \cup {k}],
             UNCHANGED lutCache
      PROVE  TableInv'
  <2> HIDE DEF k
  <2>1. /\ luts'[j][k] = b
        /\ \A l \in Key \ {k} : luts'[j][l] = luts[j][l]
        /\ \A i \in Job \ {j} : luts'[i] = luts[i]
        /\ pending'[j] = pending[j] \cup {k}
        /\ \A i \in Job \ {j} : pending'[i] = pending[i]
        /\ \A c \in LutBuffer \ {b} : content'[c] = content[c]
    BY <1>6 DEF TypeOK
  <2>2. OthersTables(j)
    BY <1>1, <1>2, <2>1 DEF OthersTables
  <2>3. b # None /\ \A l \in Key : ~Binds(l, b)
    BY <1>6, RuntimeAssumption DEF Binds, LiveLuts
  <2>4. /\ \A l \in Key : lutCache[l] # None => lutCache[l] \in LutBuffer \ {b}
        /\ \A i \in Job, l \in Key :
              luts[i][l] # None => luts[i][l] \in LutBuffer \ {b}
    BY <2>3 DEF Binds, TypeOK
  <2>5. OneKeyEach'
    <3> SUFFICES ASSUME NEW c \in LutBuffer, NEW l \in Key, NEW m \in Key,
                        Binds(l, c)', Binds(m, c)'
                 PROVE  l = m
      BY DEF OneKeyEach
    <3>1. CASE c = b
      BY <1>6, <2>1, <2>3, <3>1 DEF Binds
    <3>2. CASE c # b
      <4>1. Binds(l, c) /\ Binds(m, c)
        BY <1>6, <2>1, <3>2 DEF Binds
      <4> QED
        BY <4>1 DEF TableInv, OneKeyEach
    <3> QED
      BY <3>1, <3>2
  <2>6. CachedTablesUploaded'
    BY <1>6, <2>1, <2>4 DEF TableInv, CachedTablesUploaded
  <2>7. FinishedUploaded'
    BY <1>3, <2>1, <2>4 DEF TableInv, FinishedUploaded, Uploaded
  <2>8. PendingOrUploaded'
    <3> SUFFICES ASSUME NEW i \in Job, phase[i] # "transients",
                        NEW l \in Key, luts'[i][l] # None
                 PROVE  l \in pending'[i] \/ content'[luts'[i][l]] = l
      BY <1>1 DEF PendingOrUploaded
    <3>1. CASE i = j /\ l = k
      BY <2>1, <3>1
    <3>2. CASE ~(i = j /\ l = k)
      <4>1. luts'[i][l] = luts[i][l] /\ pending[i] \subseteq pending'[i]
        BY <2>1, <3>2
      <4> QED
        BY <2>1, <2>4, <4>1 DEF TableInv, PendingOrUploaded
    <3> QED
      BY <3>1, <3>2
  <2> QED
    BY <1>1, <2>2, <2>5, <2>6, <2>7, <2>8, UploadsOfOthers DEF TableInv
<1>7. k \in Key \cup {None}
  <2>1. count[j] \in Nat /\ count[j] < Len(Plan[j])
    BY RuntimeAssumption DEF allocate_program_storage, AllocationsDone, TypeOK
  <2> QED
    BY <2>1, RuntimeAssumption
<1>8. \/ UNCHANGED lutVars
      \/ /\ k \in Key /\ lutCache[k] # None
         /\ luts' = [luts EXCEPT ![j][k] = lutCache[k]]
         /\ UNCHANGED <<pending, lutCache, content>>
      \/ \E b \in LutBuffer :
            /\ b \notin LiveLuts /\ k \in Key
            /\ luts' = [luts EXCEPT ![j][k] = b]
            /\ content' = [content EXCEPT ![b] = None]
            /\ pending' = [pending EXCEPT ![j] = @ \cup {k}]
            /\ UNCHANGED lutCache
  BY <1>7 DEF allocate_program_storage
<1> HIDE DEF k
<1> QED
  BY <1>4, <1>5, <1>6, <1>8

LEMMA TablesBuild ==
    ASSUME TypeOK, FlightInv, TableInv, NEW j \in Job, Build(j)
    PROVE  TableInv'
<1>1. phase[j] \in {"locking", "alloc", "bind", "slot", "reset", "record"}
  BY DEF Build, execution_guard, allocate_program_storage,
     StorageReady, take_async_pipeline, pipeline_for_shader_occurrence,
     PassesBound, take_submission_slot, ResetSlot, ResetSlotFails,
     BuildFails, SubmitFails, submit_staged_program
<1>2. ~InFlight(j)
  BY <1>1, BuildingMeansFinished DEF FlightInv, Waiting
<1>3. CASE execution_guard(j) \/ PassesBound(j) \/ StorageReady(j)
  <2>1. \E p \in {"alloc", "slot", "bind"} : Goto(j, p)
    BY <1>3 DEF execution_guard, PassesBound, StorageReady
  <2>2. \A i \in Job \ {j} : held'[i] = held[i]
    BY <1>3, RecycleLocal DEF execution_guard, PassesBound, StorageReady, handleVars
  <2>3. UNCHANGED <<lutVars, queue, signaled>>
    BY <1>3 DEF execution_guard, PassesBound, StorageReady, gpuVars
  <2>4. ~Finished(j)'
    BY <2>1, GotoLocal DEF Finished, Waiting
  <2> QED
    BY <1>1, <2>1, <2>2, <2>3, <2>4, GotoLocal, TablesKept
<1>4. CASE take_async_pipeline(j) \/ pipeline_for_shader_occurrence(j)
  <2>1. \A i \in Job \ {j} : held'[i] = held[i]
    BY <1>4, TakeLocal DEF take_async_pipeline, pipeline_for_shader_occurrence
  <2>2. UNCHANGED <<lutVars, queue, signaled, phase>>
    BY <1>4 DEF take_async_pipeline, pipeline_for_shader_occurrence, gpuVars
  <2>3. ~Finished(j)'
    BY <1>1, <2>2 DEF Finished, Waiting
  <2> QED
    BY <1>1, <2>1, <2>2, <2>3, TablesKept
<1>5. CASE take_submission_slot(j) \/ ResetSlot(j)
  <2>1. \E p \in {"record", "reset"} : Goto(j, p)
    BY <1>5 DEF take_submission_slot, ResetSlot
  <2>2. \A i \in Job \ {j} : held'[i] = held[i]
    BY <1>5, TakeLocal DEF take_submission_slot, ResetSlot, handleVars
  <2>3. UNCHANGED <<lutVars, queue>> /\ signaled' \subseteq signaled
    BY <1>5 DEF take_submission_slot, ResetSlot
  <2>4. ~Finished(j)'
    BY <2>1, GotoLocal DEF Finished, Waiting
  <2> QED
    BY <1>1, <2>1, <2>2, <2>3, <2>4, GotoLocal, TablesKept
<1>6. CASE ResetSlotFails(j) \/ BuildFails(j) \/ SubmitFails(j)
  BY <1>2, <1>6, TablesReturnError DEF ResetSlotFails, BuildFails, SubmitFails
<1>7. CASE submit_staged_program(j)
  <2>1. /\ phase[j] = "record" /\ queue' = Append(queue, Submission(j))
        /\ UNCHANGED <<held, luts, pending, lutCache, content, signaled>>
        /\ \E p \in {"wait", "ticket"} : Goto(j, p)
    BY <1>7 DEF submit_staged_program, handleVars, lutVars
  <2>2. ~Done(j)
    BY <2>1 DEF FlightInv, FenceReset, Done
  <2>3. ~Finished(j)' /\ \A i \in Job \ {j} : Finished(i)' => Finished(i)
    BY <2>1, <2>2, GotoLocal DEF Finished, Done, SlotOf
  <2>4. OneKeyEach' /\ CachedTablesUploaded'
    BY <2>1 DEF TableInv, OneKeyEach, Binds, CachedTablesUploaded
  <2>5. FinishedUploaded'
    BY <2>1, <2>3 DEF TableInv, FinishedUploaded, Uploaded
  <2>6. PendingOrUploaded'
    BY <2>1, GotoLocal DEF TableInv, PendingOrUploaded
  <2>7. UploadsPending'
    <3>1. /\ Len(queue') = Len(queue) + 1 /\ Len(queue) \in Nat
          /\ queue'[Len(queue) + 1] = Submission(j)
          /\ \A n \in 1 .. Len(queue) : queue'[n] = queue[n]
      BY <2>1 DEF TypeOK
    <3>2. Submission(j).uploads = pending[j] /\ Submission(j).job = j
      BY DEF Submission
    <3> SUFFICES ASSUME NEW n \in 1 .. Len(queue')
                 PROVE  queue'[n].uploads = pending[queue'[n].job]
      BY <2>1 DEF UploadsPending
    <3>3. CASE n = Len(queue) + 1
      BY <3>1, <3>2, <3>3
    <3>4. CASE n # Len(queue) + 1
      <4>1. n \in 1 .. Len(queue)
        BY <3>1, <3>4
      <4> QED
        BY <3>1, <4>1 DEF TableInv, UploadsPending
    <3> QED
      BY <3>3, <3>4
  <2> QED
    BY <2>4, <2>5, <2>6, <2>7 DEF TableInv
<1> QED
  BY <1>2, <1>3, <1>4, <1>5, <1>6, <1>7, TablesAllocate DEF Build

LEMMA TablesComplete ==
    ASSUME TypeOK, FlightInv, TableInv, ~IdleCanFail, NEW j \in Job, Complete(j)
    PROVE  TableInv'
<1>1. ASSUME phase[j] \in {"commit", "transients", "staging", "pipes", "recycleSlot"}
      PROVE  ~InFlight(j)
  BY <1>1, BuildingMeansFinished DEF FlightInv, Waiting
<1>2. CASE wait_for_completion(j)
  <2>1. \A i \in Job \ {j} : held'[i] = held[i]
    BY <1>2, RecycleLocal DEF wait_for_completion, handleVars
  <2>2. /\ UNCHANGED <<lutVars, queue, signaled>>
        /\ Goto(j, "commit") /\ phase[j] = "wait" /\ Done(j)
    BY <1>2 DEF wait_for_completion, gpuVars
  <2> QED
    BY <2>1, <2>2, GotoLocal, TablesKept DEF Finished, Waiting
<1>3. CASE WaitFails(j)
  <2>1. /\ UNCHANGED <<lutVars, queue, signaled, held>>
        /\ \E p \in Waiting : Goto(j, p) /\ phase[j] \in {"wait", "dropWait"}
    BY <1>3 DEF WaitFails, AfterWaitFailure, Waiting, gpuVars, handleVars
  <2>2. Finished(j)' => Finished(j)
    BY <2>1, GotoLocal DEF Finished, Waiting, Done, SlotOf
  <2> QED
    BY <2>1, <2>2, GotoLocal, TablesKept
<1>4. CASE SyncIdle(j)
  BY <1>4, IdleMeansFinished, TablesReturnError DEF SyncIdle
<1>5. CASE DropPending(j)
  <2>1. ~InFlight(j)
    BY <1>5, DoneMeansFinished, IdleMeansFinished DEF DropPending, FlightInv
  <2>2. /\ Goto(j, "transients")
        /\ UNCHANGED <<luts, lutCache, content, queue, signaled, held>>
        /\ pending' = [pending EXCEPT ![j] = {}]
    BY <1>5 DEF DropPending, gpuVars, handleVars
  <2>3. OthersTables(j)
    BY <2>2, GotoLocal DEF OthersTables, TypeOK
  <2> QED
    BY <2>1, <2>2, <2>3, GotoLocal, TablesSettled
<1>6. CASE ReadOutputFails(j)
  <2>1. ~InFlight(j)
    BY <1>1, <1>6 DEF ReadOutputFails
  <2>2. CASE /\ phase[j] = "commit" /\ Goto(j, "dropWait")
             /\ UNCHANGED <<lock, mode, stage, count, resident, handleVars,
                            lutVars, pipeVars, restVars>>
    <3>1. UNCHANGED <<lutVars, queue, signaled, held>>
      BY <1>6, <2>2 DEF ReadOutputFails, gpuVars, handleVars
    <3>2. Finished(j) /\ phase[j] # "transients"
      BY <2>2 DEF Finished
    <3> QED
      BY <2>2, <3>1, <3>2, GotoLocal, TablesKept
  <2>3. CASE ReturnError(j, {}, {})
    BY <1>6, <2>1, <2>3, TablesReturnError DEF ReadOutputFails
  <2> QED
    BY <1>6, <2>2, <2>3 DEF ReadOutputFails
<1>7. CASE commit_program_luts(j)
  <2>1. /\ Goto(j, "transients") /\ phase[j] = "commit"
        /\ UNCHANGED <<luts, content, queue, signaled, held>>
        /\ pending' = [pending EXCEPT ![j] = {}]
        /\ \A k \in Key : lutCache'[k] \in {lutCache[k], luts[j][k]}
    BY <1>7 DEF commit_program_luts, gpuVars, handleVars
  <2>2. OthersTables(j)
    BY <2>1, GotoLocal DEF OthersTables, TypeOK
  <2>3. Finished(j)
    BY <2>1 DEF Finished
  <2> QED
    BY <1>1, <2>1, <2>2, <2>3, GotoLocal, TablesSettled
<1>8. CASE recycle_program_transients(j)
  <2>1. \E hs : Recycle(j, hs)
    BY <1>8 DEF recycle_program_transients
  <2>2. /\ Goto(j, "staging") /\ phase[j] = "transients"
        /\ UNCHANGED <<pending, lutCache, content, queue, signaled>>
        /\ luts' = [luts EXCEPT ![j] = NoLuts]
    BY <1>8 DEF recycle_program_transients, gpuVars
  <2>3. OthersTables(j)
    BY <2>1, <2>2, GotoLocal, RecycleLocal DEF OthersTables, TypeOK
  <2> QED
    BY <1>1, <2>2, <2>3, TablesReleased
<1>9. CASE \/ recycle_staging_buffers(j) \/ recycle_async_pipelines(j)
           \/ recycle_submission_slot(j)
  <2>1. \E p \in {"pipes", "locking", "recycleSlot", "idle"} : Goto(j, p)
    BY <1>9
    DEF recycle_staging_buffers, recycle_async_pipelines,
        recycle_submission_slot, Return
  <2>2. /\ \E hs : Recycle(j, hs)
        /\ phase[j] # "transients" /\ UNCHANGED <<lutVars, queue, signaled>>
    BY <1>9
    DEF recycle_staging_buffers, recycle_async_pipelines,
        recycle_submission_slot, gpuVars
  <2>3. ~Finished(j)'
    BY <2>1, GotoLocal DEF Finished, Waiting
  <2> QED
    BY <2>1, <2>2, <2>3, GotoLocal, RecycleLocal, TablesKept
<1> QED
  BY <1>2, <1>3, <1>4, <1>5, <1>6, <1>7, <1>8, <1>9 DEF Complete

\* Completing a submission puts its tables on the device, and writes no buffer
\* that carries another key.
LEMMA TablesGpuCompletes ==
    ASSUME TypeOK, ExclusiveOwnership, FlightInv, TableInv, GpuCompletes
    PROVE  TableInv'
<1> DEFINE e == Head(queue)
<1>1. /\ queue # <<>> /\ queue' = Tail(queue)
      /\ signaled' = signaled \cup (e.uses \cap Slot)
      /\ UNCHANGED <<phase, held, luts, pending, lutCache>>
  BY DEF GpuCompletes, callVars, handleVars
<1>2. /\ e = queue[1] /\ Len(queue) \in Nat \ {0}
      /\ Len(queue') = Len(queue) - 1
      /\ \A n \in 1 .. Len(queue') : queue'[n] = queue[n + 1]
  BY <1>1 DEF TypeOK
<1>3. /\ e \in SubmissionRecord /\ e.job \in Job
      /\ EntryOwned(e) /\ e.uploads = pending[e.job]
  <2>1. 1 \in 1 .. Len(queue)
    BY <1>2
  <2>2. queue[1] \in SubmissionRecord /\ queue[1].job \in Job
    BY <2>1, EntryTypes DEF SubmissionRecord
  <2> QED
    BY <1>2, <2>1, <2>2 DEF FlightInv, EntriesOwned, TableInv, UploadsPending
<1>4. content' = [b \in LutBuffer |->
                     IF \E k \in e.uploads : e.luts[k] = b
                     THEN CHOOSE k \in e.uploads : e.luts[k] = b
                     ELSE content[b]]
  BY DEF GpuCompletes
<1> HIDE DEF e
\* A buffer that carries k receives k or keeps what it holds.
<1>5. ASSUME NEW k \in Key, NEW b \in LutBuffer, Binds(k, b)
      PROVE  content'[b] = IF k \in e.uploads /\ e.luts[k] = b
                           THEN k ELSE content[b]
  <2>1. ASSUME NEW l \in e.uploads, e.luts[l] = b PROVE l = k
    <3>1. l \in Key /\ Binds(l, b)
      BY <1>3, <2>1 DEF EntryOwned, Binds, SubmissionRecord
    <3> QED
      BY <1>5, <3>1 DEF TableInv, OneKeyEach
  <2> QED
    BY <1>4, <2>1
<1>6. ASSUME NEW i \in Job, NEW k \in Key, luts[i][k] # None
      PROVE  luts[i][k] \in LutBuffer /\ Binds(k, luts[i][k])
  BY <1>6 DEF TypeOK, Binds
<1>7. OneKeyEach'
  BY <1>1 DEF TableInv, OneKeyEach, Binds
<1>8. CachedTablesUploaded'
  <2> SUFFICES ASSUME NEW k \in Key, lutCache[k] # None
               PROVE  content'[lutCache[k]] = k
    BY <1>1 DEF CachedTablesUploaded
  <2>1. lutCache[k] \in LutBuffer /\ Binds(k, lutCache[k])
    BY DEF TypeOK, Binds
  <2> QED
    BY <1>5, <2>1 DEF TableInv, CachedTablesUploaded
<1>9. PendingOrUploaded'
  <2> SUFFICES ASSUME NEW i \in Job, phase[i] # "transients",
                      NEW k \in Key, luts[i][k] # None
               PROVE  k \in pending[i] \/ content'[luts[i][k]] = k
    BY <1>1 DEF PendingOrUploaded
  <2> QED
    BY <1>5, <1>6 DEF TableInv, PendingOrUploaded
<1>10. FinishedUploaded'
  <2> SUFFICES ASSUME NEW i \in Job, Finished(i)',
                      NEW k \in Key, luts[i][k] # None
               PROVE  content'[luts[i][k]] = k
    BY <1>1 DEF FinishedUploaded, Uploaded
  <2>1. CASE i = e.job
    <3>1. phase[i] # "transients" /\ e.luts[k] = luts[i][k]
      BY <1>3, <2>1 DEF EntryOwned, Waiting
    <3>2. k \in e.uploads \/ content[luts[i][k]] = k
      BY <1>3, <2>1, <3>1 DEF TableInv, PendingOrUploaded
    <3> QED
      BY <1>5, <1>6, <3>1, <3>2
  <2>2. CASE i # e.job
    <3>1. SlotOf(i) \cap e.uses = {}
      <4> SUFFICES ASSUME NEW s \in held[i] \cap e.uses PROVE FALSE
        BY DEF SlotOf
      <4>1. s \in Handle /\ s \in held[e.job]
        BY <1>3 DEF TypeOK, EntryOwned
      <4> QED
        BY <1>3, <2>2, <4>1 DEF ExclusiveOwnership, OneOwner
    <3>2. Finished(i)
      BY <1>1, <3>1 DEF Finished, Done, SlotOf
    <3>3. content[luts[i][k]] = k
      BY <3>2 DEF TableInv, FinishedUploaded, Uploaded
    <3> QED
      BY <1>5, <1>6, <3>3
  <2> QED
    BY <2>1, <2>2
<1>11. UploadsPending'
  <2> SUFFICES ASSUME NEW n \in 1 .. Len(queue')
               PROVE  queue'[n].uploads = pending[queue'[n].job]
    BY <1>1 DEF UploadsPending
  <2>1. n + 1 \in 1 .. Len(queue) /\ queue'[n] = queue[n + 1]
    BY <1>2
  <2> QED
    BY <2>1 DEF TableInv, UploadsPending
<1> QED
  BY <1>7, <1>8, <1>9, <1>10, <1>11 DEF TableInv

\* Clears, device loss and the drop of the context empty the cache or the queue.
LEMMA TablesEmptied ==
    ASSUME TypeOK, TableInv,
           UNCHANGED <<phase, held, luts, pending, content, signaled>>,
           queue' \in {queue, <<>>}, lutCache' \in {lutCache, NoLuts}
    PROVE  TableInv'
<1>1. OneKeyEach'
  <2> SUFFICES ASSUME NEW k \in Key, NEW b \in LutBuffer, Binds(k, b)'
               PROVE  Binds(k, b)
    BY FewerBindings DEF TableInv
  <2>1. b # None
    BY RuntimeAssumption
  <2> QED
    BY <2>1 DEF Binds, NoLuts
<1>2. CachedTablesUploaded'
  BY DEF TableInv, CachedTablesUploaded, NoLuts
<1>3. PendingOrUploaded' /\ FinishedUploaded'
  BY DEF TableInv, PendingOrUploaded, FinishedUploaded, Finished, Done, SlotOf,
         Uploaded
<1>4. UploadsPending'
  <2>1. CASE queue' = queue
    BY <2>1 DEF TableInv, UploadsPending
  <2>2. CASE queue' = <<>>
    BY <2>2 DEF UploadsPending
  <2> QED
    BY <2>1, <2>2
<1> QED
  BY <1>1, <1>2, <1>3, <1>4 DEF TableInv

LEMMA TablesStep ==
    ASSUME ~IdleCanFail, TypeOK, ExclusiveOwnership, FlightInv, TableInv,
           [Next]_vars
    PROVE  TableInv'
<1>1. ASSUME NEW j \in Job, NEW m, Begin(j, m) PROVE TableInv'
  <2>1. /\ phase[j] = "idle" /\ Goto(j, "locking")
        /\ UNCHANGED <<lutVars, queue, signaled, held>>
    BY <1>1 DEF Begin, gpuVars, handleVars
  <2>2. ~Finished(j)'
    BY <2>1, GotoLocal DEF Finished, Waiting
  <2> QED
    BY <2>1, <2>2, GotoLocal, TablesKept
<1>2. ASSUME NEW j \in Job, TicketWait(j) \/ TicketDrop(j) PROVE TableInv'
  <2>1. /\ \E p \in Waiting : Goto(j, p) /\ phase[j] = "ticket"
        /\ UNCHANGED <<lutVars, queue, signaled, held>>
    BY <1>2 DEF TicketWait, TicketDrop, Waiting, gpuVars, handleVars
  <2>2. Finished(j)' => Finished(j)
    BY <2>1, GotoLocal DEF Finished, Waiting, Done, SlotOf
  <2> QED
    BY <2>1, <2>2, GotoLocal, TablesKept
<1>3. CASE DeviceLost \/ ContextDrop
  BY <1>3, TablesEmptied
  DEF DeviceLost, ContextDrop, callVars, handleVars, lutVars
<1>4. CASE ClearIdles \/ \E list \in Clears : BeginClear(list)
  BY <1>4, TablesEmptied
  DEF ClearIdles, BeginClear, handleVars, lutVars, gpuVars
<1>5. CASE ClearPool
  BY <1>5, TablesEmptied DEF ClearPool, gpuVars
<1>6. CASE UNCHANGED vars
  BY <1>6, TablesEmptied DEF vars, handleVars, lutVars, gpuVars, callVars
<1> QED
  BY <1>1, <1>2, <1>3, <1>4, <1>5, <1>6, TablesBuild, TablesComplete,
     TablesGpuCompletes DEF Next

LEMMA TablesInit == Init => TableInv
<1> SUFFICES ASSUME Init PROVE TableInv
  OBVIOUS
<1>1. /\ \A k \in Key : lutCache[k] = None
      /\ \A j \in Job, k \in Key : luts[j][k] = None
  BY DEF Init, NoLuts
<1>2. queue = <<>>
  BY DEF Init
<1> QED
  BY <1>1, <1>2, RuntimeAssumption
  DEF TableInv, OneKeyEach, Binds, CachedTablesUploaded, FinishedUploaded,
      Uploaded, PendingOrUploaded, UploadsPending

\* The oldest submission belongs to a call that has not settled its tables.
LEMMA ReadyFollows ==
    ASSUME TypeOK, FlightInv, TableInv
    PROVE  TablesReadyForExecution
<1> SUFFICES ASSUME queue # <<>>, NEW e, e = Head(queue),
                    NEW k \in Key, e.luts[k] # None
             PROVE  k \in e.uploads \/ content[e.luts[k]] = k
  BY DEF TablesReadyForExecution
<1>1. 1 \in 1 .. Len(queue) /\ e = queue[1]
  BY DEF TypeOK
<1>2. /\ e.job \in Job /\ EntryOwned(e) /\ e.uploads = pending[e.job]
  BY <1>1, EntryTypes
  DEF FlightInv, EntriesOwned, TableInv, UploadsPending, SubmissionRecord
<1> QED
  BY <1>2 DEF EntryOwned, Waiting, TableInv, PendingOrUploaded

\* While queue_wait_idle works on a device that is not lost, a table in the
\* shared cache is on the device, whoever uploaded it and whatever failed.
THEOREM Cached_Uploaded == ASSUME ~IdleCanFail PROVE Spec => []CachedTablesUploaded
<1>1. TypeOK /\ ExclusiveOwnership /\ FlightInv /\ [Next]_vars => FlightInv'
  BY FlightStep
<1>2. TypeOK /\ ExclusiveOwnership /\ FlightInv /\ TableInv /\ [Next]_vars
         => TableInv'
  BY TablesStep
<1>3. TableInv => CachedTablesUploaded
  BY DEF TableInv
<1> QED
  BY <1>1, <1>2, <1>3, FlightInit, TablesInit, TypeCorrect, Exclusive, PTL
  DEF Spec

\* Under the same condition, the submission that the device executes next
\* finds every table it reads on the device or uploads it itself.
THEOREM Tables_Ready == ASSUME ~IdleCanFail PROVE Spec => []TablesReadyForExecution
<1>1. TypeOK /\ ExclusiveOwnership /\ FlightInv /\ [Next]_vars => FlightInv'
  BY FlightStep
<1>2. TypeOK /\ ExclusiveOwnership /\ FlightInv /\ TableInv /\ [Next]_vars
         => TableInv'
  BY TablesStep
<1>3. TypeOK /\ FlightInv /\ TableInv => TablesReadyForExecution
  BY ReadyFollows
<1> QED
  BY <1>1, <1>2, <1>3, FlightInit, TablesInit, TypeCorrect, Exclusive, PTL
  DEF Spec

-----------------------------------------------------------------------------
(* The execution lock.  A call builds its submission inside it, and a       *)
(* synchronous call stays inside until it has recycled its staging buffers. *)

Building == {"alloc", "bind", "slot", "reset", "record"}

Inside(j) ==
    \/ phase[j] \in Building
    \/ IsSync(j) /\ phase[j] \in {"wait", "syncIdle", "commit", "transients",
                                  "staging"}

LockInv ==
    /\ \A j \in Job : Inside(j) => lock = j
    /\ \A j \in Job : phase[j] = "syncIdle" => IsSync(j)
    /\ clearing # <<>> => lock = Maint

\* A step of j by which it enters the free lock, stays where it is with respect
\* to the lock, or leaves it.
LEMMA LockMove ==
    ASSUME TypeOK, LockInv, NEW j \in Job, UNCHANGED clearing,
           \A i \in Job \ {j} : phase'[i] = phase[i] /\ mode'[i] = mode[i],
           phase'[j] = "syncIdle" => IsSync(j)',
           \/ lock' = lock /\ (Inside(j)' => Inside(j))
           \/ lock = None /\ lock' = j
           \/ Inside(j) /\ ~Inside(j)'
    PROVE  LockInv'
<1>1. \A i \in Job \ {j} : /\ Inside(i)' => Inside(i)
                           /\ phase'[i] = "syncIdle" => IsSync(i)'
  BY DEF Inside, IsSync, LockInv
<1>2. lock # None => (\A i \in Job : Inside(i) => lock = i)
  BY DEF LockInv
<1>3. CASE lock' = lock /\ (Inside(j)' => Inside(j))
  BY <1>1, <1>3 DEF LockInv
<1>4. CASE lock = None /\ lock' = j
  <2>1. /\ \A i \in Job : ~Inside(i)
        /\ clearing = <<>>
    BY <1>4, RuntimeAssumption DEF LockInv
  <2> QED
    BY <1>1, <1>4, <2>1 DEF LockInv
<1>5. CASE Inside(j) /\ ~Inside(j)'
  <2>1. lock = j /\ clearing = <<>>
    BY <1>5, RuntimeAssumption DEF LockInv
  <2>2. \A i \in Job : ~Inside(i)'
    BY <1>1, <1>5, <2>1 DEF LockInv
  <2> QED
    BY <1>1, <2>1, <2>2 DEF LockInv
<1> QED
  BY <1>3, <1>4, <1>5

LEMMA LockReturnError ==
    ASSUME TypeOK, LockInv, NEW j \in Job, NEW keep, NEW lose,
           ReturnError(j, keep, lose), Inside(j)
    PROVE  LockInv'
<1>1. /\ phase'[j] = "idle" /\ UNCHANGED clearing
      /\ \A i \in Job \ {j} : phase'[i] = phase[i] /\ mode'[i] = mode[i]
  BY DEF ReturnError, Return, Goto, TypeOK, restVars
<1>2. ~Inside(j)'
  BY <1>1 DEF Inside, Building
<1> QED
  BY <1>1, <1>2, LockMove

\* A step of j that leaves the lock alone and goes to p.
LEMMA LockGoto ==
    ASSUME TypeOK, LockInv, NEW j \in Job, NEW p, Goto(j, p),
           UNCHANGED <<lock, mode, clearing>>,
           p = "syncIdle" => IsSync(j),
           \/ Inside(j)
           \/ p \notin Building \cup {"wait", "syncIdle", "commit",
                                      "transients", "staging"}
           \/ ~IsSync(j) /\ p \notin Building
    PROVE  LockInv'
<1>1. /\ phase'[j] = p /\ \A i \in Job \ {j} : phase'[i] = phase[i]
  BY GotoLocal
<1>2. IsSync(j)' = IsSync(j)
  BY DEF IsSync
<1>3. Inside(j)' => Inside(j)
  BY <1>1, <1>2 DEF Inside
<1> QED
  BY <1>1, <1>2, <1>3, LockMove

LEMMA LockBuild ==
    ASSUME TypeOK, LockInv, NEW j \in Job, Build(j)
    PROVE  LockInv'
<1>1. CASE execution_guard(j)
  <2>1. /\ lock = None /\ lock' = j /\ UNCHANGED <<mode, clearing>>
        /\ Goto(j, "alloc")
    BY <1>1 DEF execution_guard, restVars
  <2> QED
    BY <2>1, GotoLocal, LockMove
<1>2. CASE \/ allocate_program_storage(j) \/ take_async_pipeline(j)
           \/ pipeline_for_shader_occurrence(j)
  <2>1. UNCHANGED <<phase, mode, lock, clearing>>
    BY <1>2
    DEF allocate_program_storage, take_async_pipeline,
        pipeline_for_shader_occurrence, restVars
  <2> QED
    BY <2>1 DEF LockInv, Inside, IsSync
<1>3. CASE \/ StorageReady(j) \/ PassesBound(j) \/ take_submission_slot(j)
           \/ ResetSlot(j)
  <2>1. /\ phase[j] \in Building /\ UNCHANGED <<mode, lock, clearing>>
        /\ \E p \in Building : Goto(j, p)
    BY <1>3
    DEF StorageReady, PassesBound, take_submission_slot, ResetSlot, restVars,
        Building
  <2> QED
    BY <2>1, LockGoto DEF Inside, Building
<1>4. CASE ResetSlotFails(j) \/ BuildFails(j) \/ SubmitFails(j)
  <2>1. phase[j] \in Building
    BY <1>4 DEF ResetSlotFails, BuildFails, SubmitFails, Building
  <2> QED
    BY <1>4, <2>1, LockReturnError
    DEF ResetSlotFails, BuildFails, SubmitFails, Inside
<1>5. CASE submit_staged_program(j)
  <2>1. /\ phase[j] = "record" /\ UNCHANGED <<mode, clearing>>
        /\ Goto(j, IF IsSync(j) THEN "wait" ELSE "ticket")
        /\ lock' = LockAfterSubmit(j)
    BY <1>5 DEF submit_staged_program, restVars
  <2>2. Inside(j)
    BY <2>1 DEF Inside, Building
  <2>3. CASE IsSync(j)
    BY <2>1, <2>2, <2>3, LockGoto DEF LockAfterSubmit
  <2>4. CASE ~IsSync(j)
    <3>1. phase'[j] = "ticket" /\ \A i \in Job \ {j} : phase'[i] = phase[i]
      BY <2>1, <2>4, GotoLocal
    <3>2. ~Inside(j)'
      BY <3>1 DEF Inside, Building
    <3> QED
      BY <2>1, <2>2, <3>1, <3>2, LockMove
  <2> QED
    BY <2>3, <2>4
<1> QED
  BY <1>1, <1>2, <1>3, <1>4, <1>5 DEF Build

LEMMA LockComplete ==
    ASSUME TypeOK, HeldByPhase, LockInv, NEW j \in Job, Complete(j)
    PROVE  LockInv'
<1>1. phase[j] \in {"ticket", "dropWait", "dropIdle", "pipes", "recycleSlot"}
        => ~IsSync(j)
  BY DEF HeldByPhase, HoldsByPhase
<1>2. CASE \/ wait_for_completion(j) \/ WaitFails(j) \/ DropPending(j)
           \/ commit_program_luts(j) \/ recycle_program_transients(j)
           \/ recycle_async_pipelines(j)
  <2>1. /\ UNCHANGED <<mode, lock, clearing>>
        /\ phase[j] \in {"wait", "dropWait", "dropIdle", "commit",
                         "transients", "pipes"}
    BY <1>2
    DEF wait_for_completion, WaitFails, DropPending, commit_program_luts,
        recycle_program_transients, recycle_async_pipelines, restVars
  <2>2. PICK p \in {"commit", "dropIdle", "syncIdle", "dropWait", "transients",
                    "staging", "recycleSlot"} :
           Goto(j, p) /\ (p = "syncIdle" => IsSync(j))
    BY <1>2
    DEF wait_for_completion, WaitFails, AfterWaitFailure, DropPending,
        commit_program_luts, recycle_program_transients,
        recycle_async_pipelines
  <2>3. Inside(j) \/ ~IsSync(j)
    BY <1>1, <2>1 DEF Inside
  <2> QED
    BY <2>1, <2>2, <2>3, LockGoto DEF Building
<1>3. CASE SyncIdle(j)
  <2>1. Inside(j)
    BY <1>3 DEF SyncIdle, LockInv, Inside
  <2> QED
    BY <1>3, <2>1, LockReturnError DEF SyncIdle
<1>4. CASE ReadOutputFails(j)
  <2>1. CASE ~IsSync(j) /\ Goto(j, "dropWait")
             /\ UNCHANGED <<lock, mode, stage, count, resident, handleVars,
                            lutVars, pipeVars, restVars>>
    BY <2>1, LockGoto DEF restVars, Building
  <2>2. CASE phase[j] = "transients" /\ IsSync(j) /\ ReturnError(j, {}, {})
    BY <2>2, LockReturnError DEF Inside
  <2> QED
    BY <1>4, <2>1, <2>2 DEF ReadOutputFails
<1>5. CASE recycle_staging_buffers(j)
  <2>1. /\ phase[j] = "staging" /\ UNCHANGED clearing
        /\ IF IsSync(j) THEN lock' = None ELSE UNCHANGED lock
    BY <1>5 DEF recycle_staging_buffers, restVars
  <2>2. CASE ~IsSync(j)
    <3>1. Goto(j, "pipes") /\ UNCHANGED mode
      BY <1>5, <2>2 DEF recycle_staging_buffers
    <3> QED
      BY <2>1, <2>2, <3>1, LockGoto DEF Building
  <2>3. CASE IsSync(j)
    <3>1. \/ Goto(j, "locking") /\ UNCHANGED mode
          \/ Return(j)
      BY <1>5, <2>3 DEF recycle_staging_buffers
    <3>2. /\ phase'[j] \in {"locking", "idle"}
          /\ \A i \in Job \ {j} : phase'[i] = phase[i] /\ mode'[i] = mode[i]
      BY <3>1 DEF Return, Goto, TypeOK
    <3>3. Inside(j) /\ ~Inside(j)'
      BY <2>1, <2>3, <3>2 DEF Inside, Building
    <3> QED
      BY <2>1, <3>2, <3>3, LockMove
  <2> QED
    BY <2>2, <2>3
<1>6. CASE recycle_submission_slot(j)
  <2>1. /\ UNCHANGED <<lock, clearing>> /\ phase'[j] = "idle"
        /\ \A i \in Job \ {j} : phase'[i] = phase[i] /\ mode'[i] = mode[i]
    BY <1>6 DEF recycle_submission_slot, Return, Goto, TypeOK, restVars
  <2>2. ~Inside(j)'
    BY <2>1 DEF Inside, Building
  <2> QED
    BY <2>1, <2>2, LockMove
<1> QED
  BY <1>2, <1>3, <1>4, <1>5, <1>6 DEF Complete

LEMMA LockStep ==
    ASSUME TypeOK, HeldByPhase, LockInv, [Next]_vars
    PROVE  LockInv'
<1>1. ASSUME NEW j \in Job, NEW m, Begin(j, m) PROVE LockInv'
  <2>1. /\ UNCHANGED <<lock, clearing>> /\ phase'[j] = "locking"
        /\ \A i \in Job \ {j} : phase'[i] = phase[i] /\ mode'[i] = mode[i]
    BY <1>1 DEF Begin, Goto, TypeOK, restVars
  <2>2. ~Inside(j)'
    BY <2>1 DEF Inside, Building
  <2> QED
    BY <2>1, <2>2, LockMove
<1>2. ASSUME NEW j \in Job, TicketWait(j) \/ TicketDrop(j) PROVE LockInv'
  <2>1. /\ UNCHANGED <<lock, mode, clearing>> /\ phase[j] = "ticket"
        /\ \E p \in {"wait", "dropWait"} : Goto(j, p)
    BY <1>2 DEF TicketWait, TicketDrop, restVars
  <2>2. ~IsSync(j)
    BY <2>1 DEF HeldByPhase, HoldsByPhase
  <2> QED
    BY <2>1, <2>2, LockGoto DEF Building
<1>3. CASE GpuCompletes \/ DeviceLost \/ ContextDrop \/ UNCHANGED vars
  <2>1. UNCHANGED <<lock, phase, mode, clearing>>
    BY <1>3 DEF GpuCompletes, DeviceLost, ContextDrop, vars, callVars, restVars
  <2> QED
    BY <2>1 DEF LockInv, Inside, IsSync
<1>4. CASE ClearIdles \/ ClearPool \/ \E list \in Clears : BeginClear(list)
  <2>1. /\ UNCHANGED <<phase, mode>>
        /\ lock \in {None, Maint} /\ (clearing' # <<>> => lock' = Maint)
    <3>1. CASE \E list \in Clears : BeginClear(list)
      BY <3>1 DEF BeginClear
    <3>2. CASE ClearIdles
      BY <3>2 DEF ClearIdles, LockInv
    <3>3. CASE ClearPool
      <4>1. clearing # <<>> /\ clearing' = Tail(clearing)
            /\ lock' = IF Len(clearing) = 1 THEN None ELSE lock
        BY <3>3 DEF ClearPool
      <4>2. Len(clearing) = 1 => clearing' = <<>>
        <5>1. /\ Len(Tail(clearing)) = Len(clearing) - 1
              /\ Tail(clearing) \in Seq(Pools \cup {"idle"})
          BY <4>1 DEF TypeOK
        <5>2. \A t \in Seq(Pools \cup {"idle"}) : Len(t) = 0 => t = <<>>
          OBVIOUS
        <5>3. Len(clearing) = 1 => Len(Tail(clearing)) = 0
          BY <5>1
        <5> QED
          BY <4>1, <5>1, <5>2, <5>3
      <4> QED
        BY <3>3, <4>1, <4>2 DEF ClearPool, LockInv
    <3> QED
      BY <1>4, <3>1, <3>2, <3>3
  <2>2. \A j \in Job : ~Inside(j)
    BY <2>1, RuntimeAssumption DEF LockInv
  <2> QED
    BY <2>1, <2>2 DEF LockInv, Inside, IsSync
<1> QED
  BY <1>1, <1>2, <1>3, <1>4, LockBuild, LockComplete DEF Next

LEMMA LockInit == Init => LockInv
  BY DEF Init, LockInv, Inside, IsSync, Building

-----------------------------------------------------------------------------
(* Descriptor sets.  A pass owns its pipeline instance, or reads it from the *)
(* cache entry of its shader and occurrence.                                 *)

PassKey(j, m) == <<Shaders[j][m], occurrence(j, m)>>

PassesOwned(j) ==
    /\ phase[j] \in {"idle", "locking", "alloc", "recycleSlot"} => pipes[j] = <<>>
    /\ phase[j] = "bind" => Len(pipes[j]) = count[j]
    /\ ~IsSync(j) => \A m \in DOMAIN pipes[j] : pipes[j][m] \in held[j]
    /\ IsSync(j) /\ phase[j] = "bind"
          => \A m \in DOMAIN pipes[j] : pipes[j][m] = syncCache[PassKey(j, m)]

\* A submission reads the sets that its call has bound.
EntriesBound ==
    \A n \in 1 .. Len(queue) : queue[n].pipes = pipes[queue[n].job]

\* No two entries of the cache share a pipeline.
OneEntryPerPipe ==
    \A c, d \in DOMAIN syncCache :
       syncCache[c] = syncCache[d] /\ syncCache[c] # None => c = d

DescriptorInv ==
    /\ \A j \in Job : PassesOwned(j)
    /\ EntriesBound /\ OneEntryPerPipe

\* Two passes of one program that dispatch the same shader are different
\* occurrences of it.
LEMMA OccurrenceGrows ==
    ASSUME NEW j \in Job, NEW i \in 1 .. Len(Shaders[j]), NEW m \in 1 .. i - 1,
           Shaders[j][m] = Shaders[j][i]
    PROVE  occurrence(j, m) # occurrence(j, i)
<1> DEFINE S(n) == {l \in 1 .. n - 1 : Shaders[j][l] = Shaders[j][n]}
<1>1. Shaders[j] \in Seq(Shader) /\ Len(Shaders[j]) \in Nat
  BY RuntimeAssumption
<1>2. ASSUME NEW n \in 1 .. Len(Shaders[j])
      PROVE  IsFiniteSet(S(n)) /\ Cardinality(S(n)) \in Nat
  <2>1. IsFiniteSet(1 .. n - 1)
    <3>1. 1 \in Int /\ n - 1 \in Int
      BY <1>1
    <3> QED
      BY <3>1, FS_Interval
  <2>2. S(n) \subseteq 1 .. n - 1
    OBVIOUS
  <2>3. IsFiniteSet(S(n))
    BY <2>1, <2>2, FS_Subset
  <2> QED
    BY <2>3, FS_CardinalityType
<1>3. m \in 1 .. Len(Shaders[j])
  BY <1>1
<1>4. m \notin S(m) /\ S(m) \cup {m} \subseteq S(i)
  BY <1>1
<1> HIDE DEF S
<1>5. /\ IsFiniteSet(S(m) \cup {m})
      /\ Cardinality(S(m) \cup {m}) = Cardinality(S(m)) + 1
  BY <1>2, <1>3, <1>4, FS_AddElement
<1>6. Cardinality(S(m) \cup {m}) <= Cardinality(S(i))
  BY <1>2, <1>4, FS_Subset
<1>7. Cardinality(S(m)) # Cardinality(S(i))
  BY <1>2, <1>3, <1>5, <1>6
<1> QED
  BY <1>7 DEF occurrence, S

\* The calls other than j keep their passes.
OthersPasses(j) ==
    \A i \in Job \ {j} : /\ phase'[i] = phase[i] /\ held'[i] = held[i]
                         /\ mode'[i] = mode[i] /\ count'[i] = count[i]
                         /\ pipes'[i] = pipes[i]

\* Only the call inside the lock changes the cache, so the bindings that
\* another call has made stay what they are.
LEMMA PassesOfOthers ==
    ASSUME TypeOK, LockInv, DescriptorInv, NEW j \in Job, OthersPasses(j),
           syncCache' = syncCache \/ lock = j, PassesOwned(j)'
    PROVE  \A i \in Job : PassesOwned(i)'
<1> SUFFICES ASSUME NEW i \in Job, i # j PROVE PassesOwned(i)'
  OBVIOUS
<1>1. PassesOwned(i)
  BY DEF DescriptorInv
<1>2. phase[i] = "bind" => syncCache' = syncCache
  BY DEF LockInv, Inside, Building
<1> QED
  BY <1>1, <1>2 DEF PassesOwned, OthersPasses, IsSync

LEMMA PassesNone ==
    ASSUME NEW j \in Job, pipes'[j] = <<>>, phase'[j] = "bind" => count'[j] = 0
    PROVE  PassesOwned(j)'
  BY DEF PassesOwned

LEMMA PassesSame ==
    ASSUME TypeOK, NEW j \in Job, PassesOwned(j),
           pipes'[j] = pipes[j], mode'[j] = mode[j],
           phase'[j] \notin {"idle", "locking", "alloc", "recycleSlot", "bind"},
           held[j] \cap Pipe \subseteq held'[j]
    PROVE  PassesOwned(j)'
<1>1. \A m \in DOMAIN pipes[j] : pipes[j][m] \in Pipe
  BY DEF TypeOK
<1> QED
  BY <1>1 DEF PassesOwned, IsSync

LEMMA BoundOfOthers ==
    ASSUME TypeOK, EntriesBound, NEW j \in Job, OthersPasses(j),
           InFlight(j) => pipes'[j] = pipes[j], UNCHANGED queue
    PROVE  EntriesBound'
<1> SUFFICES ASSUME NEW n \in 1 .. Len(queue)
             PROVE  pipes'[queue[n].job] = pipes[queue[n].job]
  BY DEF EntriesBound
<1>1. queue[n].job \in Job
  BY EntryTypes DEF SubmissionRecord
<1>2. queue[n].job = j => InFlight(j)
  BY DEF InFlight
<1> QED
  BY <1>1, <1>2 DEF OthersPasses

LEMMA PassesMove ==
    ASSUME TypeOK, LockInv, DescriptorInv, NEW j \in Job, OthersPasses(j),
           UNCHANGED <<syncCache, queue>>, InFlight(j) => pipes'[j] = pipes[j],
           PassesOwned(j)'
    PROVE  DescriptorInv'
<1>1. OneEntryPerPipe'
  BY DEF DescriptorInv, OneEntryPerPipe
<1> QED
  BY <1>1, PassesOfOthers, BoundOfOthers DEF DescriptorInv

LEMMA PassesReturnError ==
    ASSUME TypeOK, LockInv, DescriptorInv, NEW j \in Job, NEW keep, NEW lose,
           ReturnError(j, keep, lose), UNCHANGED gpuVars, ~InFlight(j)
    PROVE  DescriptorInv'
<1>1. OthersPasses(j) /\ phase'[j] = "idle" /\ pipes'[j] = <<>>
  BY DEF ReturnError, Return, Goto, OthersPasses, TypeOK
<1>2. PassesOwned(j)'
  BY <1>1, PassesNone
<1> QED
  BY <1>1, <1>2, PassesMove DEF ReturnError, gpuVars

\* A call binding a pass is inside the lock, so what is in flight then was
\* submitted by async calls, which own the sets it reads.
LEMMA InFlightOwnsSets ==
    ASSUME TypeOK, HeldByPhase, FlightInv, LockInv, DescriptorInv,
           NEW j \in Job, phase[j] = "bind", NEW n \in 1 .. Len(queue)
    PROVE  \A m \in DOMAIN queue[n].pipes :
              \E i \in Job : queue[n].pipes[m] \in held[i]
<1> DEFINE i == queue[n].job
<1>1. i \in Job /\ phase[i] \in Waiting /\ queue[n].pipes = pipes[i]
  BY EntryTypes
  DEF FlightInv, EntriesOwned, EntryOwned, DescriptorInv, EntriesBound,
      SubmissionRecord
<1>2. i # j /\ lock = j
  BY <1>1 DEF LockInv, Inside, Building, Waiting
<1>3. ~Inside(i)
  BY <1>1, <1>2 DEF LockInv
<1>4. ~IsSync(i)
  BY <1>1, <1>3 DEF HeldByPhase, HoldsByPhase, Inside, Waiting
<1> HIDE DEF i
<1> QED
  BY <1>1, <1>4 DEF DescriptorInv, PassesOwned

\* What j has bound, and what is in flight, are other sets than one that is
\* pooled or not created.
LEMMA UnownedIsUnbound ==
    ASSUME TypeOK, HeldByPhase, ExclusiveOwnership, FlightInv, LockInv,
           DescriptorInv, NEW j \in Job, phase[j] = "bind",
           NEW p \in Handle, \A i \in Job : p \notin held[i]
    PROVE  /\ ~IsSync(j) => \A m \in DOMAIN pipes[j] : pipes[j][m] # p
           /\ \A e \in Entries : \A m \in DOMAIN e.pipes : e.pipes[m] # p
<1>1. ASSUME ~IsSync(j), NEW m \in DOMAIN pipes[j] PROVE pipes[j][m] # p
  BY <1>1 DEF DescriptorInv, PassesOwned
<1>2. ASSUME NEW n \in 1 .. Len(queue), NEW m \in DOMAIN queue[n].pipes
      PROVE  queue[n].pipes[m] # p
  BY <1>2, InFlightOwnsSets
<1> QED
  BY <1>1, <1>2 DEF Entries

\* The passes of j that are bound and the submissions in flight use other
\* sets than p.
Untouched(j, p) ==
    /\ \A m \in DOMAIN pipes[j] : pipes[j][m] # p
    /\ \A e \in Entries : \A m \in DOMAIN e.pipes : e.pipes[m] # p

Binding(j, p) ==
    /\ phase[j] = "bind" /\ lock = j
    /\ pipes' = [pipes EXCEPT ![j] = Append(@, p)]
    /\ Len(pipes[j]) = count[j] /\ count'[j] = count[j] + 1

\* An async pass takes an instance that nobody owns.
LEMMA AsyncBinding ==
    ASSUME TypeOK, HeldByPhase, ExclusiveOwnership, FlightInv, LockInv,
           DescriptorInv, NEW j \in Job, take_async_pipeline(j)
    PROVE  \E p \in Pipe : Take(j, {p}) /\ Binding(j, p) /\ Untouched(j, p)
<1>1. PICK p \in Obtainable(PipesFor(j, count[j] + 1)) :
         Take(j, {p}) /\ BindPass(j, count[j] + 1, p)
  BY DEF take_async_pipeline
<1>2. p \in Pipe /\ p \in Handle /\ (pool[p] > 0 \/ p \in fresh)
  <2>1. PipesFor(j, count[j] + 1) \subseteq Pipe /\ Pipe \subseteq Handle
    BY DEF PipesFor, Handle
  <2>2. PipesFor(j, count[j] + 1) \in SUBSET Handle
    BY <2>1
  <2>3. p \in PipesFor(j, count[j] + 1) /\ (pool[p] > 0 \/ p \in fresh)
    BY <2>2, ObtainableAvailable
  <2> QED
    BY <2>1, <2>3
<1>3. phase[j] = "bind" /\ lock = j /\ ~IsSync(j)
  BY DEF take_async_pipeline, LockInv, Inside, Building
<1>4. \A i \in Job : p \notin held[i]
  BY <1>2 DEF ExclusiveOwnership, OneOwner
<1>5. Untouched(j, p)
  BY <1>2, <1>3, <1>4, UnownedIsUnbound DEF Untouched
<1>6. Len(pipes[j]) = count[j]
  BY <1>3 DEF DescriptorInv, PassesOwned
<1>7. count'[j] = count[j] + 1 /\ pipes' = [pipes EXCEPT ![j] = Append(@, p)]
  BY <1>1 DEF BindPass, TypeOK
<1> QED
  BY <1>1, <1>2, <1>3, <1>5, <1>6, <1>7 DEF Binding

\* A synchronous pass reads or creates the cache entry of its own occurrence,
\* which no earlier pass of the program has read.
LEMMA SyncBinding ==
    ASSUME TypeOK, HeldByPhase, ExclusiveOwnership, FlightInv, LockInv,
           DescriptorInv, NEW j \in Job, pipeline_for_shader_occurrence(j)
    PROVE  \E p \in Pipe :
              /\ Binding(j, p) /\ Untouched(j, p)
              /\ LET c == PassKey(j, count[j] + 1) IN
                 /\ c \in DOMAIN syncCache /\ syncCache'[c] = p
                 /\ \A m \in 1 .. count[j] :
                       PassKey(j, m) \in DOMAIN syncCache \ {c}
                 /\ \A d \in DOMAIN syncCache \ {c} :
                       /\ syncCache'[d] = syncCache[d]
                       /\ syncCache[d] # p
                 /\ DOMAIN syncCache' = DOMAIN syncCache
<1> DEFINE i == count[j] + 1
           c == PassKey(j, i)
<1>1. phase[j] = "bind" /\ lock = j /\ IsSync(j)
  BY DEF pipeline_for_shader_occurrence, LockInv, Inside, Building
<1>2. /\ i \in 1 .. Len(Shaders[j]) /\ count[j] \in Nat
      /\ \A m \in 1 .. count[j] : m \in 1 .. i - 1 /\ m \in 1 .. Len(Shaders[j])
  BY RuntimeAssumption DEF pipeline_for_shader_occurrence, TypeOK
<1>3. \A m \in 1 .. Len(Shaders[j]) : PassKey(j, m) \in DOMAIN syncCache
  BY OccurrenceBound, RuntimeAssumption DEF PassKey, TypeOK
<1>4. \A m \in 1 .. count[j] : PassKey(j, m) # c
  <2> SUFFICES ASSUME NEW m \in 1 .. count[j], PassKey(j, m) = c PROVE FALSE
    OBVIOUS
  <2>1. Shaders[j][m] = Shaders[j][i] /\ occurrence(j, m) = occurrence(j, i)
    BY DEF PassKey
  <2> QED
    BY <1>2, <2>1, OccurrenceGrows
<1>5. \E p \in Pipe :
         /\ BindPass(j, i, p)
         /\ \A h \in Job : p \notin held[h]
         /\ syncCache'[c] = p /\ DOMAIN syncCache' = DOMAIN syncCache
         /\ \A d \in DOMAIN syncCache \ {c} : /\ syncCache'[d] = syncCache[d]
                                              /\ syncCache[d] # p
  <2>1. CASE /\ syncCache[c] # None /\ BindPass(j, i, syncCache[c])
             /\ UNCHANGED <<syncCache, fresh>>
    <3>1. c \in DOMAIN syncCache
      BY <1>2, <1>3
    <3> HIDE DEF c, i
    <3>2. syncCache[c] \in Pipe /\ syncCache[c] \in CachedPipes
      BY <2>1, <3>1 DEF TypeOK, CachedPipes
    <3>3. \A h \in Job : syncCache[c] \notin held[h]
      BY <3>2 DEF ExclusiveOwnership, OneOwner, Handle
    <3>4. \A d \in DOMAIN syncCache \ {c} : syncCache[d] # syncCache[c]
      BY <2>1, <3>1 DEF DescriptorInv, OneEntryPerPipe
    <3> QED
      BY <2>1, <3>2, <3>3, <3>4
  <2>2. CASE \E p \in Creatable(PipesFor(j, i)) :
                /\ BindPass(j, i, p)
                /\ syncCache' = [syncCache EXCEPT ![c] = p]
    <3>1. PICK p \in Creatable(PipesFor(j, i)) :
             BindPass(j, i, p) /\ syncCache' = [syncCache EXCEPT ![c] = p]
      BY <2>2
    <3>2. p \in Pipe /\ p \in Handle /\ p \in fresh
      BY CreatableSubset DEF PipesFor, Handle
    <3>3. p \notin CachedPipes /\ \A h \in Job : p \notin held[h]
      BY <3>2 DEF ExclusiveOwnership, OneOwner
    <3>4. p # None
      BY <3>2, RuntimeAssumption
    <3>5. \A d \in DOMAIN syncCache : syncCache[d] # p
      BY <3>3, <3>4 DEF CachedPipes
    <3>6. c \in DOMAIN syncCache
      BY <1>2, <1>3
    <3> HIDE DEF c, i
    <3> QED
      BY <3>1, <3>2, <3>3, <3>5, <3>6 DEF TypeOK
  <2> QED
    BY <2>1, <2>2 DEF pipeline_for_shader_occurrence, PassKey
<1> HIDE DEF c
<1>6. PICK p \in Pipe :
         /\ BindPass(j, i, p)
         /\ \A h \in Job : p \notin held[h]
         /\ syncCache'[c] = p /\ DOMAIN syncCache' = DOMAIN syncCache
         /\ \A d \in DOMAIN syncCache \ {c} : /\ syncCache'[d] = syncCache[d]
                                              /\ syncCache[d] # p
  BY <1>5
<1>7. Len(pipes[j]) = count[j]
  BY <1>1 DEF DescriptorInv, PassesOwned
<1>8. Binding(j, p)
  BY <1>1, <1>6, <1>7 DEF BindPass, Binding, TypeOK
<1>9. Untouched(j, p)
  <2>1. p \in Handle
    BY DEF Handle
  <2>2. ASSUME NEW m \in DOMAIN pipes[j] PROVE pipes[j][m] # p
    <3>1. m \in 1 .. count[j] /\ pipes[j][m] = syncCache[PassKey(j, m)]
      BY <1>1, <1>7 DEF DescriptorInv, PassesOwned, TypeOK
    <3>2. PassKey(j, m) \in DOMAIN syncCache \ {c}
      BY <1>2, <1>3, <1>4, <3>1
    <3> QED
      BY <1>6, <3>1, <3>2
  <2> QED
    BY <1>1, <1>6, <2>1, <2>2, UnownedIsUnbound DEF Untouched
<1>10. /\ c \in DOMAIN syncCache
       /\ \A m \in 1 .. count[j] : PassKey(j, m) \in DOMAIN syncCache \ {c}
  BY <1>2, <1>3, <1>4 DEF c
<1> QED
  BY <1>6, <1>8, <1>9, <1>10 DEF c

LEMMA BindingAppends ==
    ASSUME TypeOK, NEW j \in Job, NEW p \in Pipe, Binding(j, p)
    PROVE  /\ Len(pipes'[j]) = count'[j]
           /\ DOMAIN pipes[j] = 1 .. count[j]
           /\ DOMAIN pipes'[j] = 1 .. count[j] + 1
           /\ pipes'[j][count[j] + 1] = p
           /\ \A m \in 1 .. count[j] : pipes'[j][m] = pipes[j][m]
           /\ \A i \in Job \ {j} : pipes'[i] = pipes[i]
  BY DEF Binding, TypeOK

LEMMA DescriptorsBuild ==
    ASSUME TypeOK, HeldByPhase, ExclusiveOwnership, FlightInv, LockInv,
           DescriptorInv, NEW j \in Job, Build(j)
    PROVE  DescriptorInv'
<1>1. phase[j] \in {"locking", "alloc", "bind", "slot", "reset", "record"}
  BY DEF Build, execution_guard, allocate_program_storage,
     StorageReady, take_async_pipeline, pipeline_for_shader_occurrence,
     PassesBound, take_submission_slot, ResetSlot, ResetSlotFails,
     BuildFails, SubmitFails, submit_staged_program
<1>2. ~InFlight(j)
  BY <1>1, BuildingMeansFinished DEF FlightInv, Waiting
<1>3. PassesOwned(j)
  BY DEF DescriptorInv
<1>4. CASE execution_guard(j) \/ allocate_program_storage(j) \/ StorageReady(j)
  <2>1. pipes[j] = <<>>
    BY <1>3, <1>4
    DEF execution_guard, allocate_program_storage, StorageReady, PassesOwned
  <2>2. /\ UNCHANGED <<mode, pipes, syncCache, queue>>
        /\ \A i \in Job \ {j} : phase'[i] = phase[i] /\ count'[i] = count[i]
        /\ phase'[j] = "bind" => count'[j] = 0
    BY <1>4
    DEF execution_guard, allocate_program_storage, StorageReady, Goto,
        pipeVars, gpuVars, TypeOK
  <2>3. \A i \in Job \ {j} : held'[i] = held[i]
    <3>1. \/ UNCHANGED held \/ \E hs : Take(j, hs) \/ Recycle(j, hs)
      BY <1>4
      DEF execution_guard, allocate_program_storage, StorageReady, handleVars
    <3> QED
      BY <3>1, TakeLocal, RecycleLocal
  <2>4. OthersPasses(j)
    BY <2>2, <2>3 DEF OthersPasses
  <2>5. PassesOwned(j)'
    BY <2>1, <2>2, PassesNone
  <2> QED
    BY <1>2, <2>2, <2>4, <2>5, PassesMove
<1>5. CASE take_async_pipeline(j)
  <2>1. PICK p \in Pipe : Take(j, {p}) /\ Binding(j, p)
    BY <1>5, AsyncBinding
  <2>2. /\ ~IsSync(j) /\ phase[j] = "bind"
        /\ UNCHANGED <<phase, mode, syncCache, queue>>
        /\ \A i \in Job \ {j} : count'[i] = count[i]
    BY <1>5 DEF take_async_pipeline, BindPass, gpuVars, TypeOK
  <2>3. /\ held'[j] = held[j] \cup {p}
        /\ \A i \in Job \ {j} : held'[i] = held[i]
    BY <2>1, TakeLocal
  <2>4. OthersPasses(j)
    BY <2>1, <2>2, <2>3, BindingAppends DEF OthersPasses
  <2>5. PassesOwned(j)'
    <3>1. \A m \in DOMAIN pipes'[j] : pipes'[j][m] \in held'[j]
      <4> SUFFICES ASSUME NEW m \in DOMAIN pipes'[j]
                   PROVE  pipes'[j][m] \in held'[j]
        OBVIOUS
      <4>1. count[j] \in Nat
        BY DEF TypeOK
      <4>2. CASE m = count[j] + 1
        BY <2>1, <2>3, <4>2, BindingAppends
      <4>3. CASE m # count[j] + 1
        <5>1. m \in 1 .. count[j]
          BY <2>1, <4>1, <4>3, BindingAppends
        <5>2. m \in DOMAIN pipes[j] /\ pipes'[j][m] = pipes[j][m]
          BY <2>1, <5>1, BindingAppends
        <5> QED
          BY <1>3, <2>2, <2>3, <5>2 DEF PassesOwned
      <4> QED
        BY <4>2, <4>3
    <3>2. Len(pipes'[j]) = count'[j]
      BY <2>1, BindingAppends
    <3> QED
      BY <2>2, <3>1, <3>2 DEF PassesOwned, IsSync
  <2> QED
    BY <1>2, <2>2, <2>4, <2>5, PassesMove
<1>6. CASE pipeline_for_shader_occurrence(j)
  <2> DEFINE c == PassKey(j, count[j] + 1)
  <2>1. PICK p \in Pipe :
           /\ Binding(j, p)
           /\ c \in DOMAIN syncCache /\ syncCache'[c] = p
           /\ \A m \in 1 .. count[j] : PassKey(j, m) \in DOMAIN syncCache \ {c}
           /\ \A d \in DOMAIN syncCache \ {c} : /\ syncCache'[d] = syncCache[d]
                                                /\ syncCache[d] # p
           /\ DOMAIN syncCache' = DOMAIN syncCache
    BY <1>6, SyncBinding
  <2>2. /\ IsSync(j) /\ phase[j] = "bind" /\ lock = j
        /\ UNCHANGED <<phase, mode, held, queue>>
        /\ \A i \in Job \ {j} : count'[i] = count[i]
    BY <1>6, <2>1
    DEF pipeline_for_shader_occurrence, BindPass, Binding, gpuVars, TypeOK
  <2>3. OthersPasses(j)
    BY <2>1, <2>2, BindingAppends DEF OthersPasses
  <2>4. PassesOwned(j)'
    <3>1. \A m \in DOMAIN pipes'[j] : pipes'[j][m] = syncCache'[PassKey(j, m)]
      <4> SUFFICES ASSUME NEW m \in DOMAIN pipes'[j]
                   PROVE  pipes'[j][m] = syncCache'[PassKey(j, m)]
        OBVIOUS
      <4>1. count[j] \in Nat
        BY DEF TypeOK
      <4>2. CASE m = count[j] + 1
        BY <2>1, <4>2, BindingAppends
      <4>3. CASE m # count[j] + 1
        <5>1. m \in 1 .. count[j]
          BY <2>1, <4>1, <4>3, BindingAppends
        <5>2. m \in DOMAIN pipes[j] /\ pipes'[j][m] = pipes[j][m]
          BY <2>1, <5>1, BindingAppends
        <5>3. pipes[j][m] = syncCache[PassKey(j, m)]
          BY <1>3, <2>2, <5>2 DEF PassesOwned
        <5>4. syncCache'[PassKey(j, m)] = syncCache[PassKey(j, m)]
          BY <2>1, <5>1
        <5> QED
          BY <5>2, <5>3, <5>4
      <4> QED
        BY <4>2, <4>3
    <3>2. Len(pipes'[j]) = count'[j]
      BY <2>1, BindingAppends
    <3>3. \A m : PassKey(j, m)' = PassKey(j, m)
      BY DEF PassKey
    <3> QED
      BY <2>2, <3>1, <3>2, <3>3 DEF PassesOwned, IsSync
  <2> HIDE DEF c
  <2>5. OneEntryPerPipe'
    <3> SUFFICES ASSUME NEW d \in DOMAIN syncCache, NEW f \in DOMAIN syncCache,
                        syncCache'[d] = syncCache'[f], syncCache'[d] # None
                 PROVE  d = f
      BY <2>1 DEF OneEntryPerPipe
    <3>1. CASE d = c \/ f = c
      BY <2>1, <3>1
    <3>2. CASE d # c /\ f # c
      <4>1. syncCache'[d] = syncCache[d] /\ syncCache'[f] = syncCache[f]
        BY <2>1, <3>2
      <4> QED
        BY <4>1 DEF DescriptorInv, OneEntryPerPipe
    <3> QED
      BY <3>1, <3>2
  <2>6. \A i \in Job : PassesOwned(i)'
    BY <2>2, <2>3, <2>4, PassesOfOthers
  <2> QED
    BY <1>2, <2>2, <2>3, <2>5, <2>6, BoundOfOthers DEF DescriptorInv
<1>7. CASE PassesBound(j) \/ take_submission_slot(j) \/ ResetSlot(j)
  <2>1. /\ UNCHANGED <<mode, count, pipes, syncCache, queue>>
        /\ \E p \in {"slot", "reset", "record"} : Goto(j, p)
    BY <1>7
    DEF PassesBound, take_submission_slot, ResetSlot, pipeVars, gpuVars
  <2>2. /\ held[j] \subseteq held'[j]
        /\ \A i \in Job \ {j} : held'[i] = held[i]
    BY <1>7, TakeLocal
    DEF PassesBound, take_submission_slot, ResetSlot, handleVars
  <2>3. OthersPasses(j)
    BY <2>1, <2>2, GotoLocal DEF OthersPasses
  <2>4. PassesOwned(j)'
    BY <1>3, <2>1, <2>2, GotoLocal, PassesSame
  <2> QED
    BY <2>1, <2>3, <2>4, PassesMove
<1>8. CASE ResetSlotFails(j) \/ BuildFails(j) \/ SubmitFails(j)
  BY <1>2, <1>8, PassesReturnError DEF ResetSlotFails, BuildFails, SubmitFails
<1>9. CASE submit_staged_program(j)
  <2>1. /\ queue' = Append(queue, Submission(j))
        /\ UNCHANGED <<held, mode, count, pipes, syncCache>>
        /\ \E p \in {"wait", "ticket"} : Goto(j, p)
    BY <1>9 DEF submit_staged_program, handleVars, pipeVars
  <2>2. OthersPasses(j)
    BY <2>1, GotoLocal DEF OthersPasses
  <2>3. PassesOwned(j)'
    BY <1>3, <2>1, GotoLocal, PassesSame
  <2>4. OneEntryPerPipe'
    BY <2>1 DEF DescriptorInv, OneEntryPerPipe
  <2>5. EntriesBound'
    <3>1. /\ Len(queue') = Len(queue) + 1 /\ Len(queue) \in Nat
          /\ queue'[Len(queue) + 1] = Submission(j)
          /\ \A n \in 1 .. Len(queue) : queue'[n] = queue[n]
      BY <2>1 DEF TypeOK
    <3>2. Submission(j).pipes = pipes[j] /\ Submission(j).job = j
      BY DEF Submission
    <3> SUFFICES ASSUME NEW n \in 1 .. Len(queue')
                 PROVE  queue'[n].pipes = pipes[queue'[n].job]
      BY <2>1 DEF EntriesBound
    <3>3. CASE n = Len(queue) + 1
      BY <3>1, <3>2, <3>3
    <3>4. CASE n # Len(queue) + 1
      <4>1. n \in 1 .. Len(queue)
        BY <3>1, <3>4
      <4> QED
        BY <3>1, <4>1 DEF DescriptorInv, EntriesBound
    <3> QED
      BY <3>3, <3>4
  <2> QED
    BY <2>1, <2>2, <2>3, <2>4, <2>5, PassesOfOthers DEF DescriptorInv
<1> QED
  BY <1>4, <1>5, <1>6, <1>7, <1>8, <1>9 DEF Build

LEMMA DescriptorsComplete ==
    ASSUME TypeOK, HeldByPhase, FlightInv, LockInv, DescriptorInv, ~IdleCanFail,
           NEW j \in Job, Complete(j)
    PROVE  DescriptorInv'
<1> USE RuntimeAssumption
<1>1. PassesOwned(j)
  BY DEF DescriptorInv
<1>2. ASSUME phase[j] \in {"commit", "transients", "staging", "pipes", "recycleSlot"}
      PROVE  ~InFlight(j)
  BY <1>2, BuildingMeansFinished DEF FlightInv, Waiting
<1>3. CASE \/ wait_for_completion(j) \/ WaitFails(j) \/ DropPending(j)
           \/ commit_program_luts(j) \/ recycle_program_transients(j)
  <2>1. /\ UNCHANGED <<mode, count, pipes, syncCache, queue>>
        /\ \E p \in {"commit", "dropIdle", "syncIdle", "dropWait", "transients",
                     "staging"} : Goto(j, p)
    BY <1>3
    DEF wait_for_completion, WaitFails, AfterWaitFailure, DropPending,
        commit_program_luts, recycle_program_transients, pipeVars, gpuVars
  <2>2. UNCHANGED held \/ \E hs : hs \cap Pipe = {} /\ Recycle(j, hs)
    BY <1>3
    DEF wait_for_completion, WaitFails, DropPending, commit_program_luts,
        recycle_program_transients, handleVars, SlotOf
  <2>3. /\ held[j] \cap Pipe \subseteq held'[j]
        /\ \A i \in Job \ {j} : held'[i] = held[i]
    BY <2>2, RecycleLocal
  <2>4. OthersPasses(j)
    BY <2>1, <2>3, GotoLocal DEF OthersPasses
  <2>5. PassesOwned(j)'
    BY <1>1, <2>1, <2>3, GotoLocal, PassesSame
  <2> QED
    BY <2>1, <2>4, <2>5, PassesMove
<1>4. CASE SyncIdle(j)
  BY <1>4, IdleMeansFinished, PassesReturnError DEF SyncIdle
<1>5. CASE ReadOutputFails(j)
  <2>1. CASE /\ Goto(j, "dropWait")
             /\ UNCHANGED <<lock, mode, stage, count, resident, handleVars,
                            lutVars, pipeVars, restVars>>
    <3>1. UNCHANGED <<mode, count, pipes, syncCache, queue, held>>
      BY <1>5, <2>1 DEF ReadOutputFails, handleVars, pipeVars, gpuVars
    <3>2. OthersPasses(j)
      BY <2>1, <3>1, GotoLocal DEF OthersPasses
    <3>3. phase'[j] = "dropWait"
      BY <2>1, GotoLocal
    <3>4. PassesOwned(j)'
      BY <1>1, <3>1, <3>3, PassesSame
    <3> QED
      BY <3>1, <3>2, <3>4, PassesMove
  <2>2. CASE ReturnError(j, {}, {})
    BY <1>2, <1>5, <2>2, PassesReturnError DEF ReadOutputFails
  <2> QED
    BY <1>5, <2>1, <2>2 DEF ReadOutputFails
<1>6. CASE recycle_staging_buffers(j)
  <2>1. /\ phase[j] = "staging" /\ Recycle(j, held[j] \cap Staging)
        /\ UNCHANGED <<syncCache, queue>>
        /\ \A i \in Job \ {j} : /\ phase'[i] = phase[i] /\ mode'[i] = mode[i]
                                /\ count'[i] = count[i] /\ pipes'[i] = pipes[i]
    BY <1>6 DEF recycle_staging_buffers, Goto, Return, gpuVars, TypeOK
  <2>2. OthersPasses(j)
    BY <2>1, RecycleLocal DEF OthersPasses
  <2>3. PassesOwned(j)'
    <3>1. CASE IsSync(j)
      <4>1. pipes'[j] = <<>> /\ phase'[j] # "bind"
        BY <1>6, <3>1 DEF recycle_staging_buffers, Goto, Return, TypeOK
      <4> QED
        BY <4>1, PassesNone
    <3>2. CASE ~IsSync(j)
      <4>1. pipes'[j] = pipes[j] /\ Goto(j, "pipes") /\ UNCHANGED mode
        BY <1>6, <3>2 DEF recycle_staging_buffers
      <4>2. held[j] \cap Pipe \subseteq held'[j]
        BY <2>1, RecycleLocal
      <4> QED
        BY <1>1, <4>1, <4>2, GotoLocal, PassesSame
    <3> QED
      BY <3>1, <3>2
  <2> QED
    BY <1>2, <2>1, <2>2, <2>3, PassesMove
<1>7. CASE recycle_async_pipelines(j) \/ recycle_submission_slot(j)
  <2>1. /\ phase[j] \in {"pipes", "recycleSlot"} /\ \E hs : Recycle(j, hs)
        /\ UNCHANGED <<syncCache, queue>>
        /\ \A i \in Job \ {j} : /\ phase'[i] = phase[i] /\ mode'[i] = mode[i]
                                /\ count'[i] = count[i] /\ pipes'[i] = pipes[i]
    BY <1>7
    DEF recycle_async_pipelines, recycle_submission_slot, Goto, Return,
        pipeVars, gpuVars, TypeOK
  <2>2. OthersPasses(j)
    BY <2>1, RecycleLocal DEF OthersPasses
  <2>3. pipes'[j] = <<>> /\ phase'[j] # "bind"
    BY <1>1, <1>7
    DEF recycle_async_pipelines, recycle_submission_slot, Goto, Return,
        pipeVars, PassesOwned, TypeOK
  <2> QED
    BY <1>2, <2>1, <2>2, <2>3, PassesNone, PassesMove
<1> QED
  BY <1>3, <1>4, <1>5, <1>6, <1>7 DEF Complete

\* The device, the clears and the drop of the context: the calls keep their
\* passes, and the cache is only emptied when no call is inside the lock.
LEMMA DescriptorsIdle ==
    ASSUME TypeOK, DescriptorInv,
           UNCHANGED <<phase, held, mode, count, pipes>>,
           \/ queue' = queue
           \/ queue # <<>> /\ queue' = Tail(queue)
           \/ queue' = <<>>,
           \/ syncCache' = syncCache
           \/ /\ \A j \in Job : phase[j] # "bind"
              /\ syncCache' = [c \in DOMAIN syncCache |-> None]
    PROVE  DescriptorInv'
<1>1. \A j \in Job : PassesOwned(j)'
  BY DEF DescriptorInv, PassesOwned, IsSync, PassKey
<1>2. OneEntryPerPipe'
  BY DEF DescriptorInv, OneEntryPerPipe
<1>3. EntriesBound'
  <2>1. CASE queue' = queue
    BY <2>1 DEF DescriptorInv, EntriesBound
  <2>2. CASE queue # <<>> /\ queue' = Tail(queue)
    <3>1. \A n \in 1 .. Len(queue') : /\ n + 1 \in 1 .. Len(queue)
                                      /\ queue'[n] = queue[n + 1]
      BY <2>2 DEF TypeOK
    <3> QED
      BY <3>1 DEF DescriptorInv, EntriesBound
  <2>3. CASE queue' = <<>>
    BY <2>3 DEF EntriesBound
  <2> QED
    BY <2>1, <2>2, <2>3
<1> QED
  BY <1>1, <1>2, <1>3 DEF DescriptorInv

LEMMA DescriptorsStep ==
    ASSUME ~IdleCanFail, TypeOK, HeldByPhase, ExclusiveOwnership, FlightInv,
           LockInv, DescriptorInv, [Next]_vars
    PROVE  DescriptorInv'
<1>1. ASSUME NEW j \in Job, NEW m, Begin(j, m) PROVE DescriptorInv'
  <2>1. /\ phase[j] = "idle" /\ phase'[j] = "locking"
        /\ UNCHANGED <<held, count, pipes, syncCache, queue>>
        /\ \A i \in Job \ {j} : phase'[i] = phase[i] /\ mode'[i] = mode[i]
    BY <1>1 DEF Begin, Goto, handleVars, pipeVars, gpuVars, TypeOK
  <2>2. OthersPasses(j)
    BY <2>1 DEF OthersPasses
  <2>3. PassesOwned(j)'
    BY <2>1, PassesNone DEF DescriptorInv, PassesOwned
  <2> QED
    BY <2>1, <2>2, <2>3, PassesMove
<1>2. ASSUME NEW j \in Job, TicketWait(j) \/ TicketDrop(j) PROVE DescriptorInv'
  <2>1. /\ UNCHANGED <<held, mode, count, pipes, syncCache, queue>>
        /\ \E p \in {"wait", "dropWait"} : Goto(j, p)
    BY <1>2 DEF TicketWait, TicketDrop, handleVars, pipeVars, gpuVars
  <2>2. OthersPasses(j)
    BY <2>1, GotoLocal DEF OthersPasses
  <2>3. PassesOwned(j)'
    BY <2>1, GotoLocal, PassesSame DEF DescriptorInv
  <2> QED
    BY <2>1, <2>2, <2>3, PassesMove
<1>3. CASE GpuCompletes \/ DeviceLost
  BY <1>3, DescriptorsIdle
  DEF GpuCompletes, DeviceLost, callVars, handleVars, pipeVars
<1>4. CASE ContextDrop
  BY <1>4, DescriptorsIdle DEF ContextDrop, callVars
<1>5. CASE ClearIdles \/ (\E list \in Clears : BeginClear(list)) \/ UNCHANGED vars
  BY <1>5, DescriptorsIdle
  DEF ClearIdles, BeginClear, vars, callVars, handleVars, pipeVars, gpuVars
<1>6. CASE ClearPool
  <2>1. lock = Maint
    BY <1>6 DEF ClearPool, LockInv
  <2>2. \A j \in Job : phase[j] # "bind"
    BY <2>1, RuntimeAssumption DEF LockInv, Inside, Building
  <2>3. /\ UNCHANGED <<phase, held, mode, count, pipes, queue>>
        /\ \/ syncCache' = syncCache
           \/ syncCache' = [c \in DOMAIN syncCache |-> None]
    BY <1>6 DEF ClearPool, gpuVars
  <2> QED
    BY <2>2, <2>3, DescriptorsIdle
<1> QED
  BY <1>1, <1>2, <1>3, <1>4, <1>5, <1>6, DescriptorsBuild, DescriptorsComplete
  DEF Next

LEMMA DescriptorsInit == Init => DescriptorInv
  BY DEF Init, DescriptorInv, PassesOwned, EntriesBound, OneEntryPerPipe

\* The sets of j, as far as DescriptorsStable speaks of them.
SetsStable(j) ==
    \A i \in DOMAIN pipes'[j] \ DOMAIN pipes[j] :
       /\ \A m \in DOMAIN pipes[j] : pipes[j][m] # pipes'[j][i]
       /\ \A e \in Entries : \A m \in DOMAIN e.pipes : e.pipes[m] # pipes'[j][i]

\* Every other step keeps or empties the list of bound passes.
LEMMA PipesShrink ==
    ASSUME TypeOK, [Next]_vars, NEW j \in Job,
           ~take_async_pipeline(j), ~pipeline_for_shader_occurrence(j)
    PROVE  pipes'[j] \in {pipes[j], <<>>}
             \/ \E i \in Job \ {j} : \/ take_async_pipeline(i)
                                     \/ pipeline_for_shader_occurrence(i)
<1>1. ASSUME NEW i \in Job, Build(i), ~take_async_pipeline(i),
             ~pipeline_for_shader_occurrence(i)
      PROVE  pipes' = pipes \/ pipes' = [pipes EXCEPT ![i] = <<>>]
  BY <1>1
  DEF Build, execution_guard, allocate_program_storage, StorageReady,
      PassesBound, take_submission_slot, ResetSlot, ResetSlotFails,
      BuildFails, SubmitFails, submit_staged_program, ReturnError, pipeVars
<1>2. ASSUME NEW i \in Job, Complete(i)
      PROVE  pipes' = pipes \/ pipes' = [pipes EXCEPT ![i] = <<>>]
  BY <1>2
  DEF Complete, wait_for_completion, WaitFails, SyncIdle, DropPending,
      ReadOutputFails, commit_program_luts, recycle_program_transients,
      recycle_staging_buffers, recycle_async_pipelines,
      recycle_submission_slot, ReturnError, pipeVars
<1>3. ASSUME \E i \in Job : pipes' = [pipes EXCEPT ![i] = <<>>]
      PROVE  pipes'[j] \in {pipes[j], <<>>}
  BY <1>3 DEF TypeOK
<1>4. CASE \E i \in Job : Build(i) \/ Complete(i)
  BY <1>1, <1>2, <1>3, <1>4
<1>5. CASE ~\E i \in Job : Build(i) \/ Complete(i)
  BY <1>5
  DEF Next, Begin, TicketWait, TicketDrop, GpuCompletes, DeviceLost,
      BeginClear, ClearIdles, ClearPool, ContextDrop, vars, pipeVars
<1> QED
  BY <1>4, <1>5

LEMMA StableStep ==
    ASSUME TypeOK, HeldByPhase, ExclusiveOwnership, FlightInv, LockInv,
           DescriptorInv, [Next]_vars, NEW j \in Job
    PROVE  SetsStable(j)
<1>1. ASSUME NEW i \in Job, NEW p \in Pipe, Binding(i, p), Untouched(i, p)
      PROVE  SetsStable(j)
  <2>1. CASE i = j
    <3>1. /\ count[j] \in Nat
          /\ \A n \in DOMAIN pipes'[j] \ DOMAIN pipes[j] : n = count[j] + 1
          /\ pipes'[j][count[j] + 1] = p
      BY <1>1, <2>1, BindingAppends DEF TypeOK
    <3> QED
      BY <1>1, <2>1, <3>1 DEF SetsStable, Untouched
  <2>2. CASE i # j
    BY <1>1, <2>2, BindingAppends DEF SetsStable
  <2> QED
    BY <2>1, <2>2
<1>2. CASE \E i \in Job : take_async_pipeline(i)
  BY <1>1, <1>2, AsyncBinding
<1>3. CASE \E i \in Job : pipeline_for_shader_occurrence(i)
  BY <1>1, <1>3, SyncBinding
<1>4. CASE pipes'[j] \in {pipes[j], <<>>}
  BY <1>4 DEF SetsStable
<1> QED
  BY <1>2, <1>3, <1>4, PipesShrink

\* While queue_wait_idle works on a device that is not lost, writing the set of
\* a pass touches no earlier pass of its program and nothing in flight.
THEOREM Descriptors_Stable == ASSUME ~IdleCanFail PROVE Spec => DescriptorsStable
<1> DEFINE Known == TypeOK /\ HeldByPhase /\ ExclusiveOwnership /\ FlightInv
<1>1. TypeOK /\ ExclusiveOwnership /\ FlightInv /\ [Next]_vars => FlightInv'
  BY FlightStep
<1>2. TypeOK /\ ExclusiveOwnership /\ HeldByPhase /\ [Next]_vars => HeldByPhase'
  BY HoldsStep
<1>3. TypeOK /\ HeldByPhase /\ LockInv /\ [Next]_vars => LockInv'
  BY LockStep
<1>4. Known /\ LockInv /\ DescriptorInv /\ [Next]_vars => DescriptorInv'
  BY DescriptorsStep
<1>5. Known /\ LockInv /\ DescriptorInv /\ [Next]_vars
        => [\A j \in Job : SetsStable(j)]_pipes
  BY StableStep
<1>6. Init => HeldByPhase
  BY OwnershipInit
<1> QED
  BY <1>1, <1>2, <1>3, <1>4, <1>5, <1>6, FlightInit, LockInit, DescriptorsInit,
     TypeCorrect, Exclusive, PTL
  DEF Spec, DescriptorsStable, SetsStable

-----------------------------------------------------------------------------
(* VulkanRuntime implements ExclusiveTickets, provided queue_wait_idle does  *)
(* not fail on a device that is not lost.  Every operation is a step of the  *)
(* abstract specification on what it moves, or a stutter.                    *)

Owner == [h \in Handle |-> OwnerOf(h)]
Busy  == UNION {e.uses : e \in Entries}

Inv == TypeOK /\ ExclusiveOwnership /\ FlightInv

-----------------------------------------------------------------------------
(* Who owns a handle.                                                      *)

LEMMA OwnerHeld ==
    ASSUME TypeOK, ExclusiveOwnership, NEW j \in Job, NEW h \in held[j]
    PROVE  h \in Handle /\ OwnerOf(h) = j
<1>1. h \in Handle
  BY DEF TypeOK
<1>2. \A i \in Job : h \in held[i] => i = j
  BY <1>1 DEF ExclusiveOwnership, OneOwner
<1> QED
  BY <1>1, <1>2 DEF OwnerOf

LEMMA OwnerFree ==
    ASSUME NEW h, \A j \in Job : h \notin held[j],
           h \notin CachedPipes \cup leaked
    PROVE  OwnerOf(h) = None
  BY DEF OwnerOf

LEMMA OwnerShared ==
    ASSUME NEW h, \A j \in Job : h \notin held[j], h \in CachedPipes \cup leaked
    PROVE  OwnerOf(h) = Maint
  BY DEF OwnerOf

LEMMA OwnerAvailable ==
    ASSUME TypeOK, ExclusiveOwnership, NEW h \in Handle,
           pool[h] > 0 \/ h \in fresh
    PROVE  OwnerOf(h) = None
<1>1. (\A j \in Job : h \notin held[j]) /\ h \notin CachedPipes \cup leaked
  BY DEF ExclusiveOwnership, OneOwner, TypeOK
<1> QED
  BY <1>1, OwnerFree

LEMMA OwnerType ==
    ASSUME NEW h PROVE OwnerOf(h) \in Job \cup {None, Maint}
  BY DEF OwnerOf

\* The owner of a handle depends on where it is.
LEMMA OwnerSame ==
    ASSUME NEW h, \A j \in Job : h \in held'[j] <=> h \in held[j],
           h \in CachedPipes' \cup leaked' <=> h \in CachedPipes \cup leaked
    PROVE  OwnerOf(h)' = OwnerOf(h)
<1>1. \A j \in Job : (h \in held'[j]) = (h \in held[j])
  OBVIOUS
<1>2. (CHOOSE j \in Job : h \in held'[j]) = (CHOOSE j \in Job : h \in held[j])
  BY <1>1
<1> QED
  BY <1>2 DEF OwnerOf

LEMMA OwnerHeldNext ==
    ASSUME TypeOK', ExclusiveOwnership', NEW j \in Job, NEW h \in held'[j]
    PROVE  OwnerOf(h)' = j
<1>1. h \in Handle
  BY DEF TypeOK
<1>2. \A i \in Job : h \in held'[i] => i = j
  BY <1>1 DEF ExclusiveOwnership, OneOwner
<1> QED
  BY <1>1, <1>2 DEF OwnerOf

LEMMA OwnerFreeNext ==
    ASSUME TypeOK', ExclusiveOwnership', NEW h \in Handle,
           pool'[h] > 0 \/ h \in fresh'
    PROVE  OwnerOf(h)' = None
<1>1. (\A j \in Job : h \notin held'[j]) /\ h \notin CachedPipes' \cup leaked'
  BY DEF ExclusiveOwnership, OneOwner, TypeOK
<1> QED
  BY <1>1 DEF OwnerOf

LEMMA OwnerSharedNext ==
    ASSUME NEW h, \A j \in Job : h \notin held'[j],
           h \in CachedPipes' \cup leaked'
    PROVE  OwnerOf(h)' = Maint
  BY DEF OwnerOf

LEMMA OwnerFunctions ==
    /\ Owner' \in [Handle -> Tickets!Owners]
    /\ DOMAIN Owner = Handle
  BY DEF Owner, OwnerOf, Tickets!Owners

\* What the device may use is held by a call with work in flight.
LEMMA BusyHeld ==
    ASSUME Inv, NEW h \in Busy
    PROVE  \E i \in Job : InFlight(i) /\ h \in held[i]
<1>1. PICK n \in 1 .. Len(queue) : h \in queue[n].uses
  BY DEF Busy, Entries
<1>2. queue[n].job \in Job
  BY EntryTypes DEF Inv, SubmissionRecord
<1>3. h \in held[queue[n].job]
  BY <1>1 DEF Inv, FlightInv, EntriesOwned, EntryOwned
<1> QED
  BY <1>1, <1>2, <1>3 DEF InFlight

-----------------------------------------------------------------------------
(* The abstract step of each kind of move.                                 *)

AbstractStep == [Tickets!Next]_(Tickets!ticketVars)

LEMMA StutterStep ==
    ASSUME UNCHANGED <<held, leaked, syncCache, queue>>
    PROVE  AbstractStep
<1>1. CachedPipes' = CachedPipes
  BY DEF CachedPipes
<1>2. Owner' = Owner
  BY <1>1 DEF Owner, OwnerOf
<1>3. Busy' = Busy
  BY DEF Busy, Entries
<1> QED
  BY <1>2, <1>3 DEF AbstractStep, Tickets!ticketVars, Owner, Busy

LEMMA TakeStep ==
    ASSUME Inv, Inv', NEW j \in Job, NEW hs \in SUBSET Handle,
           \A h \in hs : pool[h] > 0 \/ h \in fresh,
           Take(j, hs), UNCHANGED <<syncCache, queue>>
    PROVE  AbstractStep
<1>1. CachedPipes' = CachedPipes /\ Busy' = Busy
  BY DEF CachedPipes, Busy, Entries
<1>2. ASSUME NEW h \in Handle, h \notin hs PROVE OwnerOf(h)' = OwnerOf(h)
  BY <1>1, <1>2, OwnerSame DEF Take, Inv, TypeOK
<1>3. ASSUME NEW h \in hs PROVE OwnerOf(h) = None /\ OwnerOf(h)' = j
  <2>1. OwnerOf(h) = None
    BY <1>3, OwnerAvailable DEF Inv
  <2>2. h \in held'[j]
    BY <1>3 DEF Take, Inv, TypeOK
  <2>3. OwnerOf(h)' = j
    BY <2>2, OwnerHeldNext DEF Inv
  <2> QED
    BY <2>1, <2>3
<1>4. Tickets!Acquire(j)
  <2>1. \A r \in Tickets!Moved : Owner[r] = None /\ Owner'[r] = j
    BY <1>2, <1>3 DEF Tickets!Moved, Owner
  <2> QED
    BY <1>1, <2>1, OwnerFunctions DEF Tickets!Acquire, Owner, Busy
<1> QED
  BY <1>4 DEF AbstractStep, Tickets!Next

\* A call with nothing in flight gives handles back, to a pool, to the device
\* that destroys them, or to oblivion.
LEMMA GiveBackStep ==
    ASSUME Inv, Inv', NEW j \in Job, ~InFlight(j),
           NEW hs \in SUBSET held[j],
           \A h \in Handle \ hs : OwnerOf(h)' = OwnerOf(h),
           \A h \in hs : OwnerOf(h)' \in {None, Maint},
           UNCHANGED queue
    PROVE  AbstractStep
<1>1. Busy' = Busy
  BY DEF Busy, Entries
<1>2. \A h \in hs : h \in Handle /\ OwnerOf(h) = j
  BY OwnerHeld DEF Inv
<1>3. \A r \in Tickets!Moved : r \in hs
  BY DEF Tickets!Moved
<1>4. hs \cap Busy = {}
  BY BusyHeld, OwnerHeld DEF Inv
<1>5. Tickets!Release(j)
  <2>1. \A r \in Tickets!Moved : Owner[r] = j /\ Owner'[r] \in {None, Maint}
    BY <1>2, <1>3 DEF Owner
  <2> QED
    BY <1>1, <1>3, <1>4, <2>1, OwnerFunctions DEF Tickets!Release, Owner, Busy
<1> QED
  BY <1>5 DEF AbstractStep, Tickets!Next

LEMMA RecycleStep ==
    ASSUME Inv, Inv', NEW j \in Job, ~InFlight(j),
           NEW hs \in SUBSET held[j], Recycle(j, hs),
           UNCHANGED <<syncCache, queue>>
    PROVE  AbstractStep
<1>1. CachedPipes' = CachedPipes
  BY DEF CachedPipes
<1>2. ASSUME NEW h \in Handle \ hs PROVE OwnerOf(h)' = OwnerOf(h)
  BY <1>1, <1>2, OwnerSame DEF Recycle, Inv, TypeOK
<1>3. ASSUME NEW h \in hs PROVE OwnerOf(h)' = None
  <2>1. h \in Handle /\ pool'[h] > 0
    BY <1>3 DEF Recycle, Inv, TypeOK
  <2> QED
    BY <2>1, OwnerFreeNext DEF Inv
<1> QED
  BY <1>2, <1>3, GiveBackStep

LEMMA ReturnErrorStep ==
    ASSUME Inv, Inv', NEW j \in Job, ~InFlight(j), NEW keep \in SUBSET held[j],
           NEW lose \in SUBSET held[j], ReturnError(j, keep, lose),
           UNCHANGED gpuVars
    PROVE  AbstractStep
<1>1. CachedPipes' = CachedPipes /\ UNCHANGED queue
  BY DEF CachedPipes, ReturnError, gpuVars
<1>2. ASSUME NEW h \in Handle \ held[j] PROVE OwnerOf(h)' = OwnerOf(h)
  BY <1>1, <1>2, OwnerSame DEF ReturnError, Inv, TypeOK
<1>3. ASSUME NEW h \in held[j] PROVE OwnerOf(h)' \in {None, Maint}
  <2>1. h \in Handle
    BY <1>3 DEF Inv, TypeOK
  <2>2. CASE h \in lose
    <3>1. h \in leaked'
      BY <2>2 DEF ReturnError
    <3>2. \A i \in Job : h \notin held'[i]
      BY <2>1, <3>1 DEF Inv, ExclusiveOwnership, OneOwner
    <3> QED
      BY <3>1, <3>2, OwnerSharedNext
  <2>3. CASE h \in keep
    BY <2>1, <2>3, OwnerFreeNext DEF ReturnError, Inv, TypeOK
  <2>4. CASE h \notin keep \cup lose
    BY <1>3, <2>1, <2>4, OwnerFreeNext DEF ReturnError, Destroyed, Inv
  <2> QED
    BY <2>2, <2>3, <2>4
<1> QED
  BY <1>1, <1>2, <1>3, GiveBackStep

\* The context keeps a handle in its cache or gives cached ones up.
LEMMA KeepStep ==
    ASSUME Inv, Inv', UNCHANGED <<held, leaked>>, Busy' = Busy
    PROVE  AbstractStep
<1>1. ASSUME NEW j \in Job, NEW h \in held[j]
      PROVE  OwnerOf(h) = j /\ OwnerOf(h)' = j
  BY <1>1, OwnerHeld, OwnerHeldNext DEF Inv
<1>2. ASSUME NEW h, \A j \in Job : h \notin held[j]
      PROVE  OwnerOf(h) \in {None, Maint} /\ OwnerOf(h)' \in {None, Maint}
  BY <1>2 DEF OwnerOf
<1>3. ASSUME NEW r \in Tickets!Moved
      PROVE  /\ r \in Handle /\ \A j \in Job : r \notin held[j]
             /\ {Owner[r], Owner'[r]} = {None, Maint}
  <2>1. r \in Handle /\ OwnerOf(r)' # OwnerOf(r)
    BY <1>3 DEF Tickets!Moved
  <2>2. \A j \in Job : r \notin held[j]
    BY <1>1, <2>1
  <2> QED
    BY <1>2, <2>1, <2>2 DEF Owner
<1>4. Tickets!Moved \cap Busy = {}
  BY <1>3, BusyHeld
<1>5. Tickets!Keep
  BY <1>3, <1>4, OwnerFunctions DEF Tickets!Keep, Owner, Busy
<1> QED
  BY <1>5 DEF AbstractStep, Tickets!Next

LEMMA FinishStep ==
    ASSUME UNCHANGED <<held, leaked, syncCache>>, Busy' \subseteq Busy
    PROVE  AbstractStep
<1>1. CachedPipes' = CachedPipes
  BY DEF CachedPipes
<1>2. Owner' = Owner
  BY <1>1 DEF Owner, OwnerOf
<1>3. Tickets!Finish
  BY <1>2 DEF Tickets!Finish, Owner, Busy
<1> QED
  BY <1>3 DEF AbstractStep, Tickets!Next

LEMMA SubmitStep ==
    ASSUME Inv, NEW j \in Job, submit_staged_program(j)
    PROVE  AbstractStep
<1>1. /\ queue' = Append(queue, Submission(j))
      /\ UNCHANGED <<held, leaked, syncCache>>
  BY DEF submit_staged_program, handleVars, pipeVars
<1>2. CachedPipes' = CachedPipes
  BY <1>1 DEF CachedPipes
<1>3. Owner' = Owner
  BY <1>1, <1>2 DEF Owner, OwnerOf
<1>4. Busy' = Busy \cup held[j]
  <2>1. /\ Len(queue') = Len(queue) + 1 /\ Len(queue) \in Nat
        /\ queue'[Len(queue) + 1] = Submission(j)
        /\ \A n \in 1 .. Len(queue) : queue'[n] = queue[n]
    BY <1>1 DEF Inv, TypeOK
  <2>2. Entries' = Entries \cup {Submission(j)}
    BY <2>1 DEF Entries
  <2>3. Busy' = UNION {e.uses : e \in Entries'}
    BY DEF Busy
  <2>4. Submission(j).uses = held[j]
    BY DEF Submission
  <2> QED
    BY <2>2, <2>3, <2>4 DEF Busy
<1>5. held[j] \subseteq {r \in Handle : Owner[r] = j}
  BY OwnerHeld DEF Inv, Owner
<1>6. Tickets!Submit(j)
  BY <1>3, <1>4, <1>5 DEF Tickets!Submit, Owner, Busy
<1> QED
  BY <1>6 DEF AbstractStep, Tickets!Next

-----------------------------------------------------------------------------
LEMMA RefineBuild ==
    ASSUME Inv, Inv', NEW j \in Job, Build(j)
    PROVE  AbstractStep
<1>1. ~InFlight(j)
  <2>1. phase[j] \notin Waiting
    BY DEF Build, Waiting, execution_guard, allocate_program_storage,
       StorageReady, take_async_pipeline, pipeline_for_shader_occurrence,
       PassesBound, take_submission_slot, ResetSlot, ResetSlotFails,
       BuildFails, SubmitFails, submit_staged_program
  <2> QED
    BY <2>1, BuildingMeansFinished DEF Inv, FlightInv
<1>2. CASE execution_guard(j) \/ PassesBound(j) \/ ResetSlot(j)
  BY <1>2, StutterStep
  DEF execution_guard, PassesBound, ResetSlot, handleVars, pipeVars, gpuVars
<1>3. CASE allocate_program_storage(j)
  <2>1. UNCHANGED <<syncCache, queue>>
    BY <1>3 DEF allocate_program_storage, pipeVars, gpuVars
  <2>2. PICK s \in Obtainable(Staging) :
          \/ \E t \in Obtainable(Transient) : Take(j, {s, t})
          \/ Take(j, {s})
    BY <1>3 DEF allocate_program_storage
  <2>3. \A s1 \in Obtainable(Staging) \cup Obtainable(Transient) :
           s1 \in Handle /\ (pool[s1] > 0 \/ s1 \in fresh)
    BY ObtainableAvailable DEF Inv, Handle
  <2>4. \E hs \in SUBSET Handle : /\ Take(j, hs)
                                  /\ \A h \in hs : pool[h] > 0 \/ h \in fresh
    BY <2>2, <2>3
  <2> QED
    BY <2>1, <2>4, TakeStep
<1>4. CASE StorageReady(j)
  <2>1. UNCHANGED <<syncCache, queue>>
    BY <1>4 DEF StorageReady, pipeVars, gpuVars
  <2>2. CASE UNCHANGED handleVars
    BY <2>1, <2>2, StutterStep DEF handleVars
  <2>3. CASE \E t \in (held[j] \cap Transient) \ {resident[j]} :
                Recycle(j, {t})
    BY <1>1, <2>1, <2>3, RecycleStep
  <2> QED
    BY <1>4, <2>2, <2>3 DEF StorageReady
<1>5. CASE take_async_pipeline(j)
  <2>1. PICK p \in Obtainable(PipesFor(j, count[j] + 1)) : Take(j, {p})
    BY <1>5 DEF take_async_pipeline
  <2>2. p \in Handle /\ (pool[p] > 0 \/ p \in fresh)
    BY <2>1, ObtainableAvailable DEF PipesFor, Handle, Inv
  <2>3. UNCHANGED <<syncCache, queue>>
    BY <1>5 DEF take_async_pipeline, gpuVars
  <2> QED
    BY <2>1, <2>2, <2>3, TakeStep
<1>6. CASE pipeline_for_shader_occurrence(j)
  <2>1. UNCHANGED <<held, leaked, queue>>
    BY <1>6 DEF pipeline_for_shader_occurrence, gpuVars
  <2>2. Busy' = Busy
    BY <2>1 DEF Busy, Entries
  <2> QED
    BY <2>1, <2>2, KeepStep
<1>7. CASE take_submission_slot(j)
  <2>1. PICK s \in Obtainable(Slot) : Take(j, {s})
    BY <1>7 DEF take_submission_slot
  <2>2. s \in Handle /\ (pool[s] > 0 \/ s \in fresh)
    BY ObtainableAvailable DEF Handle, Inv
  <2>3. UNCHANGED <<syncCache, queue>>
    BY <1>7 DEF take_submission_slot, pipeVars
  <2> QED
    BY <2>1, <2>2, <2>3, TakeStep
<1>8. CASE ResetSlotFails(j) \/ BuildFails(j) \/ SubmitFails(j)
  BY <1>1, <1>8, ReturnErrorStep
  DEF ResetSlotFails, BuildFails, SubmitFails, SlotOf
<1>9. CASE submit_staged_program(j)
  BY <1>9, SubmitStep
<1> QED
  BY <1>2, <1>3, <1>4, <1>5, <1>6, <1>7, <1>8, <1>9 DEF Build

LEMMA RefineComplete ==
    ASSUME ~IdleCanFail, Inv, Inv', NEW j \in Job, Complete(j)
    PROVE  AbstractStep
<1>1. CASE WaitFails(j) \/ DropPending(j) \/ commit_program_luts(j)
  BY <1>1, StutterStep
  DEF WaitFails, DropPending, commit_program_luts, handleVars, pipeVars, gpuVars
<1>2. CASE wait_for_completion(j)
  <2>1. ~InFlight(j)
    BY <1>2, DoneMeansFinished DEF wait_for_completion, Inv, FlightInv
  <2>2. UNCHANGED <<syncCache, queue>>
    BY <1>2 DEF wait_for_completion, pipeVars, gpuVars
  <2> QED
    BY <1>2, <2>1, <2>2, StutterStep, RecycleStep
    DEF wait_for_completion, SlotOf, handleVars
<1>3. CASE SyncIdle(j)
  BY <1>3, IdleMeansFinished, ReturnErrorStep DEF SyncIdle, SlotOf
<1>4. ASSUME phase[j] \in {"commit", "transients", "staging", "pipes", "recycleSlot"}
      PROVE  ~InFlight(j)
  BY <1>4, BuildingMeansFinished DEF Inv, FlightInv, Waiting
<1>5. CASE ReadOutputFails(j)
  BY <1>4, <1>5, StutterStep, ReturnErrorStep
  DEF ReadOutputFails, handleVars, pipeVars, gpuVars
<1>6. CASE recycle_program_transients(j)
  <2>1. \E hs \in SUBSET held[j] : Recycle(j, hs)
    BY <1>6 DEF recycle_program_transients
  <2>2. phase[j] = "transients" /\ UNCHANGED <<syncCache, queue>>
    BY <1>6 DEF recycle_program_transients, pipeVars, gpuVars
  <2> QED
    BY <1>4, <2>1, <2>2, RecycleStep
<1>7. CASE recycle_staging_buffers(j)
  BY <1>4, <1>7, RecycleStep DEF recycle_staging_buffers, gpuVars
<1>8. CASE recycle_async_pipelines(j)
  BY <1>4, <1>8, RecycleStep DEF recycle_async_pipelines, gpuVars
<1>9. CASE recycle_submission_slot(j)
  BY <1>4, <1>9, RecycleStep
  DEF recycle_submission_slot, SlotOf, pipeVars, gpuVars
<1> QED
  BY <1>1, <1>2, <1>3, <1>5, <1>6, <1>7, <1>8, <1>9 DEF Complete

LEMMA RefineStep ==
    ASSUME ~IdleCanFail, Inv, Inv', [Next]_vars
    PROVE  AbstractStep
<1>1. ASSUME NEW j \in Job,
             (\E m \in Modes[j] : Begin(j, m)) \/ TicketWait(j) \/ TicketDrop(j)
      PROVE  AbstractStep
  BY <1>1, StutterStep
  DEF Begin, TicketWait, TicketDrop, handleVars, pipeVars, gpuVars
<1>2. CASE GpuCompletes
  <2>1. queue # <<>> /\ queue' = Tail(queue)
    BY <1>2 DEF GpuCompletes
  <2>2. Entries' \subseteq Entries
    BY <2>1 DEF Entries, Inv, TypeOK
  <2>3. Busy' \subseteq Busy
    BY <2>2 DEF Busy
  <2> QED
    BY <1>2, <2>3, FinishStep DEF GpuCompletes, handleVars, pipeVars
<1>3. CASE DeviceLost
  <2>1. queue' = <<>>
    BY <1>3 DEF DeviceLost
  <2>2. Busy' \subseteq Busy
    BY <2>1 DEF Busy, Entries
  <2> QED
    BY <1>3, <2>2, FinishStep DEF DeviceLost, handleVars, pipeVars
<1>4. CASE ClearIdles \/ \E list \in Clears : BeginClear(list)
  BY <1>4, StutterStep
  DEF ClearIdles, BeginClear, handleVars, pipeVars, gpuVars
<1>5. CASE ClearPool
  <2>1. UNCHANGED <<held, leaked, queue>>
    BY <1>5 DEF ClearPool, gpuVars
  <2>2. Busy' = Busy
    BY <2>1 DEF Busy, Entries
  <2> QED
    BY <2>1, <2>2, KeepStep
<1>6. CASE ContextDrop
  <2>1. Entries = {}
    <3>1. ASSUME NEW n \in 1 .. Len(queue) PROVE FALSE
      <4>1. queue[n].job \in Job /\ phase[queue[n].job] \in Waiting
        BY EntryTypes
        DEF Inv, FlightInv, EntriesOwned, EntryOwned, SubmissionRecord
      <4> QED
        BY <1>6, <4>1 DEF ContextDrop, Waiting
    <3> QED
      BY <3>1 DEF Entries
  <2>2. Entries' = {}
    BY <1>6 DEF ContextDrop, Entries
  <2>3. Busy' = Busy
    BY <2>1, <2>2 DEF Busy
  <2> QED
    BY <1>6, <2>3, KeepStep DEF ContextDrop
<1>7. CASE UNCHANGED vars
  BY <1>7, StutterStep DEF vars, handleVars, pipeVars, gpuVars
<1> QED
  BY <1>1, <1>2, <1>3, <1>4, <1>5, <1>6, <1>7, RefineBuild, RefineComplete
  DEF Next

LEMMA RefineInit == Init => Tickets!Init
  BY DEF Init, Tickets!Init, OwnerOf, CachedPipes, Entries

\* The runtime gives every live ticket exclusive use of its resources, for any
\* number of threads, programs and injected failures.
THEOREM Refinement == ASSUME ~IdleCanFail PROVE Spec => ImplementsExclusiveTickets
<1>1. Inv /\ Inv' /\ [Next]_vars => [Tickets!Next]_(Tickets!ticketVars)
  BY RefineStep DEF AbstractStep
<1>2. Spec => []FlightInv
  <2>1. TypeOK /\ ExclusiveOwnership /\ FlightInv /\ [Next]_vars => FlightInv'
    BY FlightStep
  <2> QED
    BY <2>1, FlightInit, TypeCorrect, Exclusive, PTL DEF Spec
<1> QED
  BY <1>1, <1>2, RefineInit, TypeCorrect, Exclusive, PTL
  DEF Spec, ImplementsExclusiveTickets, Tickets!Spec, Inv
=============================================================================
