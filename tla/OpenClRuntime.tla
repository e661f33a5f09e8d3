--------------------------- MODULE OpenClRuntime ---------------------------
(***************************************************************************)
(* OpenClExecutionContext of src/backend/opencl/runtime.rs.  A submission  *)
(* is counted from its start; programs are cached and kernels, which a     *)
(* submission sets the arguments of, are pooled by source.  Objects that   *)
(* are released live on until the commands that use them have ended.       *)
(***************************************************************************)
EXTENDS NativeTickets

OpenClClearOrder == <<"kernel", "module", "lut", "transient", "queue">>

OpenClSubmit(j) == \E c \in Chains[j] : Submit(j, c, "queue")

begin_submission(j) == take_queue(j) /\ active' = active + 1

opencl_allocate(j) ==
    \/ cached_table(j) \/ upload_table(j, OneOf(Fresh(Device)))
    \/ take_resident(j) \/ take_transient(j) \/ allocated(j)

PooledKernels(s) == {k \in Pooled(Kernel) : made[k] = s}

\* Programs for the sources S that have none.
BuildPrograms(S) ==
    LET missing == S \ Keys(moduleCache) IN
    \E new \in [missing -> Fresh(Module)] :
       /\ \A s, t \in missing : new[s] = new[t] => s = t
       /\ refs' = Referenced(refs, {new[s] : s \in missing}, {})
       /\ made' = [h \in Module \cup Kernel |->
                     IF \E s \in missing : new[s] = h
                     THEN CHOOSE s \in missing : new[s] = h ELSE made[h]]
       /\ moduleCache' = [moduleCache EXCEPT !.entries =
                           [s \in Keys(moduleCache) \cup missing |->
                              IF s \in missing THEN new[s]
                              ELSE moduleCache.entries[s]]]

get_or_build_program(j) ==
    /\ Loading(j) /\ PooledKernels(NextSource(j)) = {}
    /\ NextSource(j) \notin Keys(moduleCache)
    /\ BuildPrograms({NextSource(j)})
    /\ UNCHANGED <<flowVars, pool, held, leaked, dataVars, loaded, codeCache,
                   gpuVars, active, restVars>>

\* Variant: kernels of any source are taken from the pool.
AnyPooledKernel(s) ==
    IF Pooled(Kernel) # {} THEN OneOf(Pooled(Kernel)) ELSE OneOf(Fresh(Kernel))

\* A pooled kernel of this source, or a new one of the cached program.
ObtainableKernel(s) ==
    IF PooledKernels(s) # {} THEN OneOf(PooledKernels(s))
    ELSE OneOf(Fresh(Kernel))

take_kernel(j) ==
    /\ Loading(j)
    /\ PooledKernels(NextSource(j)) = {} => NextSource(j) \in Keys(moduleCache)
    /\ \E k \in ObtainableKernel(NextSource(j)) :
          /\ Take(j, k)
          /\ made' = IF pool[k] > 0 THEN made
                     ELSE [made EXCEPT ![k] = NextSource(j)]
          /\ Loaded(j, k)
    /\ UNCHANGED <<dataVars, moduleCache, codeCache, gpuVars, active, restVars>>

opencl_launch(j) == launch(j) \/ (all_launched(j) /\ UNCHANGED active)

\* finalize_resources; the submission is no longer counted.
opencl_recycle(j) == recycle(j, held[j] \cap Kernel) /\ UNCHANGED active

opencl_DropEnds(j) == DropEnds(j) /\ active' = active - 1

\* Variant: a submission that fails stays counted.
opencl_UnwindsCounted(j) == Unwinds(j) /\ UNCHANGED active

\* The submission was counted once it had its queue.
opencl_Unwinds(j) ==
    /\ Unwinds(j)
    /\ active' = IF held[j] \cap Queue = {} THEN active ELSE active - 1

\* What a report of compiled resources does for one pass: the kernel goes to
\* the pool.
OpenClReport(s) ==
    /\ alive /\ call = None /\ PooledKernels(s) = {}
    /\ IF s \in Keys(moduleCache)
       THEN \E k \in OneOf(Fresh(Kernel)) :
               /\ refs' = [refs EXCEPT ![k] = 1]
               /\ pool' = [pool EXCEPT ![k] = 1]
               /\ made' = [made EXCEPT ![k] = s]
               /\ UNCHANGED moduleCache
       ELSE BuildPrograms({s}) /\ UNCHANGED pool
    /\ UNCHANGED <<flowVars, held, leaked, dataVars, loaded, codeCache,
                   gpuVars, active, restVars>>

\* All of the missing programs are created, or none is.
restore_program_binary_archive(S) ==
    /\ alive /\ call = None /\ S \ Keys(moduleCache) # {}
    /\ BuildPrograms(S)
    /\ UNCHANGED <<flowVars, pool, held, leaked, dataVars, loaded, codeCache,
                   gpuVars, active, restVars>>

OpenClClear == active = 0 /\ BeginClear(OpenClClearOrder)

OpenClStep ==
    \/ \E j \in Job :
          \/ OpenClSubmit(j) \/ begin_submission(j) \/ opencl_allocate(j)
          \/ get_or_build_program(j) \/ take_kernel(j)
          \/ all_loaded(j) \/ opencl_launch(j)
          \/ Wait(j) \/ DropTicket(j) \/ synchronize(j) \/ read_output(j)
          \/ \E i \in pending[j] : insert_lut(j, i)
          \/ opencl_recycle(j)
          \/ DropWaits(j) \/ opencl_DropEnds(j) \/ opencl_Unwinds(j)
    \/ \E s \in Source : OpenClReport(s)
    \/ \E S \in SUBSET Source : restore_program_binary_archive(S)
    \/ OpenClClear \/ ClearPool \/ DropContext
=============================================================================
