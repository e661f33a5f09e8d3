---------------------------- MODULE MetalRuntime ----------------------------
(***************************************************************************)
(* MetalExecutionContext of src/backend/metal/runtime.rs.  Buffers and     *)
(* pipelines are reference-counted objects; a ticket and a cache each keep *)
(* a reference of their own.  There is one queue and nothing to clear, but *)
(* the caches of pipelines and tables, and the pool of buffers, are        *)
(* bounded and evict the oldest entries.  A table is cached as soon as it  *)
(* is uploaded.                                                            *)
(***************************************************************************)
EXTENDS NativeTickets

CONSTANTS
    MaxPipelines,  \* METAL_PIPELINE_CACHE_MAX_ENTRIES
    MaxBuffers,    \* METAL_BUFFER_POOL_MAX_BUFFERS
    MaxTables,     \* METAL_LUT_CACHE_MAX_ENTRIES
    MaxTableBytes, \* METAL_LUT_CACHE_MAX_BYTES
    TableBytes     \* TableBytes[<<k, d>>]: three times the bytes of table k

ASSUME MetalAssumption ==
    /\ MaxPipelines \in Nat /\ MaxBuffers \in Nat /\ MaxTables \in Nat
    /\ MaxTableBytes \in Nat /\ TableBytes \in [Key \X Device -> Nat]

NoBytes == [e \in Source \X Module |-> 0]

MetalSubmit(j) ==
    \E c \in Chains[j] : Len(c) = 1 /\ Submit(j, c, "alloc")

\* One reference less to each handle of hs; what has none left is gone.
ReleaseAll(r, hs) ==
    /\ refs' = Referenced(r, {}, hs)
    /\ Scrub(refs', {})

\* A cached table is retained.
metal_cached_table(j) ==
    /\ Allocating(j) /\ TheEntry(j) \in Keys(lutCache)
    /\ LET d == lutCache.entries[TheEntry(j)] IN
       /\ refs' = [refs EXCEPT ![d] = @ + 1]
       /\ Place(j, d)
    /\ UNCHANGED <<call, phase, chain, stage, pool, held, leaked, pending,
                   resident, content, lutCache, codeVars, gpuVars, active,
                   restVars>>

\* The reference that a pooled buffer had, or that of a new buffer.
TakeBuffer(d) == [refs EXCEPT ![d] = IF pool[d] > 0 THEN @ ELSE 1]

\* A new table is retained for the cache, which gives up older ones.
take_lookup_buffer(j) ==
    /\ Allocating(j) /\ TheEntry(j) \in Key \ Keys(lutCache)
    /\ \E d \in Obtainable(Device) :
          LET k     == TheEntry(j)
              cache == FifoInsert(lutCache, k, d, TableBytes, MaxTables,
                                  MaxTableBytes)
              kept  == IF k \in Keys(cache) THEN {d} ELSE {}
          IN /\ Place(j, d) /\ Unpool({d})
             /\ lutCache' = cache
             /\ refs' = Referenced(TakeBuffer(d), kept, Dropped(lutCache, cache))
             /\ content' = Scrubbed([content EXCEPT ![d] = k], refs', {})
    /\ UNCHANGED <<call, phase, chain, stage, held, leaked, pending, resident,
                   codeVars, gpuVars, active, restVars>>

take_shared_buffer(j) ==
    /\ Allocating(j) /\ TheEntry(j) \notin Key
    /\ \E d \in Obtainable(Device) :
          /\ refs' = TakeBuffer(d) /\ Place(j, d) /\ Unpool({d})
          /\ content' = IF TheEntry(j) = "input"
                        THEN [content EXCEPT ![d] = <<j, stage[j] - 1>>]
                        ELSE content
    /\ UNCHANGED <<call, phase, chain, stage, held, leaked, pending, resident,
                   lutCache, codeVars, gpuVars, active, restVars>>

metal_cached_pipeline(j) ==
    /\ Loading(j) /\ NextSource(j) \in Keys(moduleCache)
    /\ LET m == moduleCache.entries[NextSource(j)] IN
       /\ refs' = [refs EXCEPT ![m] = @ + 1]
       /\ Loaded(j, m)
    /\ UNCHANGED <<pool, held, leaked, dataVars, made, moduleCache, codeCache,
                   gpuVars, active, restVars>>

\* Variant: the cache shares the reference of the caller.
CachedReferenceShared(m, cache) == {}

\* The cache retains the pipeline once more.
CachedReference(m, cache) == IF m \in Values(cache) THEN {m} ELSE {}

\* The pipeline of source s is compiled and cached, `own` references besides.
CompilePipeline(s, own) ==
    \E m \in OneOf(Fresh(Module)) :
       LET cache == FifoInsert(moduleCache, s, m, NoBytes, MaxPipelines, 0) IN
       /\ moduleCache' = cache
       /\ refs' = Referenced([refs EXCEPT ![m] = own], CachedReference(m, cache),
                             Dropped(moduleCache, cache))
       /\ made' = Scrubbed([made EXCEPT ![m] = s], refs', {})
       /\ loaded' = IF own = 0 THEN loaded
                    ELSE [loaded EXCEPT ![call] = Append(@, m)]

compile_pipeline(j) ==
    /\ Loading(j) /\ NextSource(j) \notin Keys(moduleCache)
    /\ CompilePipeline(NextSource(j), 1)
    /\ count' = [count EXCEPT ![j] = @ + 1]
    /\ UNCHANGED <<call, phase, chain, stage, pool, held, leaked, dataVars,
                   codeCache, gpuVars, active, restVars>>

\* All passes are committed at once.
commit(j) ==
    /\ At(j, "module") /\ count[j] = Len(Passes(j))
    /\ running' = running \cup {j}
    /\ uses' = [uses EXCEPT ![j] = Used(j)]
    /\ Goto(j, "pending") /\ call' = None
    /\ UNCHANGED <<chain, stage, count, handleVars, dataVars, codeVars, active,
                   restVars>>

\* waitUntilCompleted; a command buffer that ended with an error is dropped.
MetalCommandFails(j) ==
    /\ At(j, "sync") /\ DeviceDone(j) /\ InjectFault
    /\ Continue(j, "drop")
    /\ UNCHANGED <<count, handleVars, dataVars, codeVars, gpuVars, active,
                   restVars>>

\* Variant: every buffer of the ticket goes to the pool.
AllRecyclable(j) == DOMAIN memory[j]

Recyclable(j) == DOMAIN memory[j] \ Tables(j)

\* The buffers that are no tables go to the pool, which gives up its oldest:
\* `gone` are released and `back` stay.
recycle_buffers(j) ==
    /\ call = j /\ phase[j] \in {"tables", "drop"} /\ DeviceDone(j)
    /\ LET offered == {memory[j][i] : i \in Recyclable(j)}
           room    == MaxBuffers - Cardinality(Pooled(Device) \cup offered)
           gone    == IF room >= 0 THEN {}
                      ELSE CHOOSE S \in SUBSET (Pooled(Device) \cup offered) :
                              Cardinality(S) = 0 - room
           back    == offered \ gone
       IN /\ pool' = [h \in Handle |-> IF h \in gone THEN 0
                                       ELSE pool[h] + (IF h \in back THEN 1 ELSE 0)]
          /\ refs' = Referenced(refs, {}, gone)
          /\ content' = [d \in Device |-> IF d \in offered \cup gone THEN None
                                          ELSE content[d]]
    /\ memory' = [memory EXCEPT ![j] =
                     [i \in DOMAIN memory[j] |->
                        IF i \in Recyclable(j) THEN None ELSE memory[j][i]]]
    /\ Continue(j, "free")
    /\ UNCHANGED <<count, held, leaked, pending, resident, lutCache, codeVars,
                   gpuVars, active, restVars>>

\* A submission that failed releases its buffers.
metal_unwinds(j) ==
    /\ At(j, "unwind")
    /\ ReleaseAll(refs, {memory[j][i] : i \in Recyclable(j)})
    /\ memory' = [memory EXCEPT ![j] =
                     [i \in DOMAIN memory[j] |->
                        IF i \in Recyclable(j) THEN None ELSE memory[j][i]]]
    /\ Continue(j, "free")
    /\ UNCHANGED <<count, pool, held, leaked, pending, resident, lutCache,
                   loaded, moduleCache, codeCache, gpuVars, active, restVars>>

\* How many references to h a ticket has.
HeldReferences(j, h) ==
    Cardinality({i \in DOMAIN memory[j] : memory[j][i] = h})
    + Cardinality({i \in DOMAIN loaded[j] : loaded[j][i] = h})

\* Tables and pipelines are released.
MetalReleases(j) ==
    /\ At(j, "free")
    /\ refs' = [h \in Handle |-> Minus(refs[h], HeldReferences(j, h))]
    /\ Scrub(refs', {})
    /\ Returns(j) /\ Forgets(j)
    /\ UNCHANGED <<pool, held, leaked, resident, lutCache, moduleCache,
                   codeCache, gpuVars, active, clearing, alive>>

\* What a report of compiled resources does for one pass.
MetalReport(s) ==
    /\ alive /\ call = None /\ s \notin Keys(moduleCache)
    /\ CompilePipeline(s, 0)
    /\ UNCHANGED <<flowVars, pool, held, leaked, dataVars, codeCache, gpuVars,
                   active, restVars>>

\* The pools and caches of the context release what they retain.
MetalDropContext ==
    /\ alive /\ call = None /\ \A j \in Job : phase[j] = "idle"
    /\ alive' = FALSE
    /\ refs' = Referenced(Referenced(refs, {}, Pooled(Device)), {},
                          Values(lutCache) \cup Values(moduleCache))
    /\ Scrub(refs', {})
    /\ pool' = [h \in Handle |-> 0]
    /\ lutCache' = EmptyCache /\ moduleCache' = EmptyCache
    /\ UNCHANGED <<flowVars, held, leaked, memory, pending, resident, codeCache,
                   loaded, gpuVars, active, clearing, results>>

MetalStep ==
    \/ \E j \in Job :
          \/ MetalSubmit(j) \/ metal_cached_table(j) \/ take_lookup_buffer(j)
          \/ take_shared_buffer(j) \/ allocated(j)
          \/ metal_cached_pipeline(j) \/ compile_pipeline(j) \/ commit(j)
          \/ Wait(j) \/ DropTicket(j) \/ synchronize(j) \/ read_output(j)
          \/ recycle_buffers(j) \/ metal_unwinds(j) \/ MetalReleases(j)
    \/ \E s \in Source : MetalReport(s)
    \/ MetalDropContext
=============================================================================
