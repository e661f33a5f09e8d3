---------------------------- MODULE CudaRuntime ----------------------------
(***************************************************************************)
(* CudaExecutionContext of src/backend/cuda/runtime.rs.  New tables get    *)
(* memory of their own; every module is cached, and never by a ticket; the *)
(* caches may be cleared while tickets are in flight, after a wait for the *)
(* device.  A chain of programs hands each output to the next program.     *)
(***************************************************************************)
EXTENDS NativeTickets

CudaClearOrder == <<"module", "lut", "transient", "queue">>

CudaSubmit(j) == \E c \in Chains[j] : Submit(j, c, "queue")

cuda_take_stream(j) == take_queue(j) /\ UNCHANGED active

cuda_allocate(j) ==
    \/ cached_table(j) \/ upload_table(j, OneOf(Fresh(Device)))
    \/ take_resident(j) \/ take_transient(j) \/ allocated(j)

\* A module is made from compiled code and cached.
CacheModule(s) ==
    /\ codeCache' = InsertIfVacant(codeCache, s, "compiled")
    /\ \E m \in OneOf(Fresh(Module)) :
          /\ refs' = [refs EXCEPT ![m] = 1]
          /\ made' = [made EXCEPT ![m] = s]
          /\ moduleCache' = InsertIfVacant(moduleCache, s, m)

compile_and_load(j) ==
    /\ Loading(j)
    /\ IF NextSource(j) \in Keys(moduleCache)
       THEN UNCHANGED <<codeCache, refs, made, moduleCache>>
       ELSE CacheModule(NextSource(j))
    /\ Loaded(j, moduleCache'.entries[NextSource(j)])
    /\ UNCHANGED <<pool, held, leaked, dataVars, gpuVars, active, restVars>>

\* Compiled, but the module cannot be loaded.
CudaLoadFails(j) ==
    /\ Loading(j) /\ NextSource(j) \notin Keys(moduleCache) /\ InjectFault
    /\ codeCache' = InsertIfVacant(codeCache, NextSource(j), "compiled")
    /\ Continue(j, "unwind")
    /\ UNCHANGED <<count, handleVars, dataVars, loaded, made, moduleCache,
                   gpuVars, active, restVars>>

cuda_launch(j) == launch(j) \/ (all_launched(j) /\ UNCHANGED active)

cuda_DropEnds(j) == DropEnds(j) /\ UNCHANGED active

CudaReport(s) ==
    /\ alive /\ call = None /\ s \notin Keys(moduleCache)
    /\ CacheModule(s)
    /\ UNCHANGED <<flowVars, pool, held, leaked, dataVars, loaded, gpuVars,
                   active, restVars>>

\* One entry of an archive; one that conflicts ends the call with an error.
restore_ptx_cache_archive(s, code) ==
    /\ alive /\ call = None /\ s \notin Keys(codeCache)
    /\ codeCache' = InsertIfVacant(codeCache, s, code)
    /\ UNCHANGED <<flowVars, handleVars, dataVars, loaded, made, moduleCache,
                   gpuVars, active, restVars>>

\* Variant: the context is not synchronised.
CudaClearUnsynchronized == BeginClear(CudaClearOrder)

CudaClear == DeviceIdle /\ BeginClear(CudaClearOrder)

CudaStep ==
    \/ \E j \in Job :
          \/ CudaSubmit(j)
          \/ cuda_take_stream(j) \/ cuda_allocate(j) \/ compile_and_load(j)
          \/ all_loaded(j) \/ cuda_launch(j)
          \/ Wait(j) \/ DropTicket(j) \/ synchronize(j) \/ read_output(j)
          \/ \E i \in pending[j] : insert_lut(j, i)
          \/ recycle(j, {}) /\ UNCHANGED active
          \/ DropWaits(j) \/ cuda_DropEnds(j)
          \/ Unwinds(j) /\ UNCHANGED active
    \/ \E s \in Source : CudaReport(s)
    \/ \E e \in Archive : restore_ptx_cache_archive(e[1], e[2])
    \/ CudaClear \/ ClearPool \/ DropContext
=============================================================================
