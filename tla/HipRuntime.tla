----------------------------- MODULE HipRuntime -----------------------------
(***************************************************************************)
(* HipExecutionContext of src/backend/hip/runtime.rs.  Memory of new       *)
(* tables comes from the transient pool; the cache of modules refuses what *)
(* exceeds its capacity, and the ticket then owns the module; compiled     *)
(* code is kept in a cache bounded in entries and bytes.                   *)
(***************************************************************************)
EXTENDS NativeTickets

CONSTANTS
    MaxModules,    \* HIP_MODULE_CACHE_MAX_ENTRIES
    MaxCodes,      \* HIPRTC_CODE_CACHE_MAX_ENTRIES
    MaxCodeBytes,  \* HIPRTC_CODE_CACHE_MAX_BYTES
    CodeBytes      \* CodeBytes[<<s, c>>]: source s and code c together

ASSUME HipAssumption ==
    /\ MaxModules \in Nat /\ MaxCodes \in Nat /\ MaxCodeBytes \in Nat
    /\ CodeBytes \in [Source \X {"compiled", "restored"} -> Nat]

HipClearOrder == <<"transient", "module", "lut", "queue">>

InsertCode(c, s, code) ==
    FifoInsert(c, s, code, CodeBytes, MaxCodes, MaxCodeBytes)

HipSubmit(j) ==
    \E c \in Chains[j] : Len(c) = 1 /\ Submit(j, c, "queue")

hip_take_stream(j) == take_queue(j) /\ UNCHANGED active

hip_allocate(j) ==
    \/ cached_table(j) \/ upload_table(j, Obtainable(Device))
    \/ take_transient(j) \/ allocated(j)

hip_cached_module(j) ==
    /\ Loading(j) /\ NextSource(j) \in Keys(moduleCache)
    /\ Loaded(j, moduleCache.entries[NextSource(j)])
    /\ UNCHANGED <<handleVars, dataVars, made, moduleCache, codeCache, gpuVars,
                   active, restVars>>

compile_shader_source(j) ==
    /\ Loading(j) /\ NextSource(j) \notin Keys(moduleCache)
    /\ codeCache' = IF NextSource(j) \in Keys(codeCache) THEN codeCache
                    ELSE InsertCode(codeCache, NextSource(j), "compiled")
    /\ Continue(j, "compiled")
    /\ UNCHANGED <<count, handleVars, dataVars, loaded, made, moduleCache,
                   gpuVars, active, restVars>>

\* A loaded module is cached while there is room; otherwise its guard stays
\* with the ticket.
load_module_function(j) ==
    /\ At(j, "compiled")
    /\ \E m \in OneOf(Fresh(Module)) :
          /\ refs' = [refs EXCEPT ![m] = 1]
          /\ made' = [made EXCEPT ![m] = NextSource(j)]
          /\ Loaded(j, m)
          /\ IF HasCapacity(moduleCache, MaxModules)
             THEN /\ moduleCache' = InsertIfVacant(moduleCache, NextSource(j), m)
                  /\ UNCHANGED held
             ELSE /\ held' = [held EXCEPT ![j] = @ \cup {m}]
                  /\ UNCHANGED moduleCache
    /\ UNCHANGED <<pool, leaked, dataVars, codeCache, gpuVars, active, restVars>>

\* Only a submission whose launches all succeeded is counted.
hip_launch(j) ==
    \/ launch(j)
    \/ all_launched(j) /\ active' = active + 1

hip_DropEnds(j) == DropEnds(j) /\ active' = active - 1

\* A submission that failed drops its modules first: those it owns are unloaded,
\* and nothing has waited for what it launched.
hip_unload(j) ==
    /\ At(j, "unwind") /\ loaded[j] # << >>
    /\ Destroy(held[j] \cap Module)
    /\ held' = [held EXCEPT ![j] = @ \ Module]
    /\ loaded' = [loaded EXCEPT ![j] = << >>]
    /\ UNCHANGED <<flowVars, pool, leaked, memory, pending, resident, lutCache,
                   moduleCache, codeCache, gpuVars, active, restVars>>

\* Its memory and its stream go next; both wait.
hip_Unwinds(j) == loaded[j] = << >> /\ Unwinds(j) /\ UNCHANGED active

\* What a report of compiled resources does for one pass: a module that does
\* not fit into the cache is unloaded again.
HipReport(s) ==
    /\ alive /\ call = None /\ s \notin Keys(moduleCache)
    /\ codeCache' = IF s \in Keys(codeCache) THEN codeCache
                    ELSE InsertCode(codeCache, s, "compiled")
    /\ IF HasCapacity(moduleCache, MaxModules)
       THEN \E m \in OneOf(Fresh(Module)) :
               /\ refs' = [refs EXCEPT ![m] = 1]
               /\ made' = [made EXCEPT ![m] = s]
               /\ moduleCache' = InsertIfVacant(moduleCache, s, m)
       ELSE UNCHANGED <<refs, made, moduleCache>>
    /\ UNCHANGED <<flowVars, pool, held, leaked, dataVars, loaded, gpuVars,
                   active, restVars>>

\* One entry of an archive.  One that conflicts ends the call with an error;
\* the entries before it stay.
restore_hiprtc_code_archive(s, code) ==
    /\ alive /\ call = None
    /\ s \notin Keys(codeCache)
    /\ codeCache' = InsertCode(codeCache, s, code)
    /\ UNCHANGED <<flowVars, handleVars, dataVars, loaded, made, moduleCache,
                   gpuVars, active, restVars>>

\* Variant: tickets in flight do not keep the caches from being cleared.
HipClearUnchecked == BeginClear(HipClearOrder)

HipClear == active = 0 /\ DeviceIdle /\ BeginClear(HipClearOrder)

HipStep ==
    \/ \E j \in Job :
          \/ HipSubmit(j) \/ hip_take_stream(j) \/ hip_allocate(j) \/ hip_cached_module(j)
          \/ compile_shader_source(j) \/ load_module_function(j)
          \/ all_loaded(j) \/ hip_launch(j)
          \/ Wait(j) \/ DropTicket(j) \/ synchronize(j) \/ read_output(j)
          \/ \E i \in pending[j] : insert_lut(j, i)
          \/ recycle(j, {}) /\ UNCHANGED active
          \/ DropWaits(j) \/ hip_DropEnds(j)
          \/ hip_unload(j) \/ hip_Unwinds(j)
    \/ \E s \in Source : HipReport(s)
    \/ \E e \in Archive : restore_hiprtc_code_archive(e[1], e[2])
    \/ HipClear \/ ClearPool
    \/ DeviceIdle /\ DropContext
=============================================================================
