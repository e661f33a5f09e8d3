--------------------------- MODULE NativeRuntimes ---------------------------
(***************************************************************************)
(* The four runtimes side by side: a behaviour is one of any of them.      *)
(***************************************************************************)
EXTENDS HipRuntime, CudaRuntime, OpenClRuntime, MetalRuntime

VARIABLE backend

vars == <<backend, nativeVars>>

Backend == {"Hip", "Cuda", "OpenCl", "Metal"}

NativeInit == Init /\ backend \in Backend

Step ==
    \/ backend = "Hip" /\ HipStep
    \/ backend = "Cuda" /\ CudaStep
    \/ backend = "OpenCl" /\ OpenClStep
    \/ backend = "Metal" /\ MetalStep
    \/ \E j \in Job : DeviceEnds(j)

\* Calls of the driver that fail.
Failure ==
    \/ \E j \in Job : SubmitFails(j)
    \/ /\ backend = "Cuda"
       /\ \E j \in Job : CudaLoadFails(j)
    \/ /\ backend = "Metal"
       /\ \E j \in Job : MetalCommandFails(j)
    \/ /\ backend # "Metal"
       /\ \/ ClearPoolFails
          \/ \E j \in Job :
                \/ FinishFails(j) \/ DropWaitFails(j)
                \/ \E i \in pending[j] : FreeDuplicateFails(j, i)

Next == ((Step /\ UNCHANGED faults) \/ Failure) /\ UNCHANGED backend

Spec == NativeInit /\ [][Next]_vars

-----------------------------------------------------------------------------
Phases == SubmitPhases \cup {"idle", "unwind", "pending", "sync", "read",
                             "tables", "drop", "dropQueue", "free"}

Contents == Key \cup {None} \cup (Job \X Nat)

\* The type invariant.
TypeOK ==
    /\ backend \in Backend
    /\ call \in Job \cup {Maint, None}
    /\ phase \in [Job -> Phases] /\ chain \in [Job -> Seq(Program)]
    /\ stage \in [Job -> Nat] /\ count \in [Job -> Nat]
    /\ refs \in [Handle -> Nat] /\ pool \in [Handle -> 0 .. 1]
    /\ held \in [Job -> SUBSET Handle] /\ leaked \subseteq Handle
    /\ memory \in [Job -> Seq(Device \cup {None})]
    /\ pending \in [Job -> SUBSET Nat]
    /\ resident \in [Job -> Device \cup {None}]
    /\ content \in [Device -> Contents]
    /\ Keys(lutCache) \subseteq Key /\ Values(lutCache) \subseteq Device
    /\ Keys(moduleCache) \subseteq Source /\ Values(moduleCache) \subseteq Module
    /\ Keys(codeCache) \subseteq Source /\ Values(codeCache) \subseteq {"compiled", "restored"}
    /\ loaded \in [Job -> Seq(Module \cup Kernel)]
    /\ made \in [Module \cup Kernel -> Source \cup {None}]
    /\ running \subseteq Job /\ uses \in [Job -> SUBSET Handle]
    /\ active \in Nat /\ results \in [Job -> Contents]
    /\ faults \in 0 .. MaxFaults
    /\ alive \in BOOLEAN

\* Where the sequences f of the tickets have h.
Occurrences(f, h) ==
    {p \in UNION {{j} \X DOMAIN f[j] : j \in Job} : f[p[1]][p[2]] = h}

\* Where references to h are kept.  The guards of the explicit APIs own the
\* handles in `held`; a Metal ticket keeps one for each use.
Keepers(h) ==
    pool[h] + Cardinality({k \in Keys(lutCache) : lutCache.entries[k] = h})
    + Cardinality({s \in Keys(moduleCache) : moduleCache.entries[s] = h})
    + (IF h \in leaked THEN 1 ELSE 0)
    + (IF backend = "Metal"
       THEN Cardinality(Occurrences(memory, h)) + Cardinality(Occurrences(loaded, h))
       ELSE Cardinality({j \in Job : h \in held[j]}))

\* Every reference is kept in exactly one place and every handle that exists
\* has one: nothing is released twice, and nothing is lost, in any order of
\* submissions, waits, drops, evictions and errors.
ReferencesKept == \A h \in Handle : Keepers(h) = refs[h]

\* The modules that a failed submission of HIP has unloaded; it may have launched
\* some of them (submit_prepared of src/src/backend/hip/runtime.rs).
Unloaded(j) ==
    IF backend = "Hip" /\ phase[j] = "unwind" /\ loaded[j] = << >>
    THEN Module \ Values(moduleCache) ELSE {}

\* What the device works with exists and is not up for reuse, whatever is
\* evicted, cleared or dropped meanwhile.  The one exception are the modules that
\* a failed submission of HIP owned: their guards are dropped before anything
\* waits for the launches that succeeded.
UsedHandlesLive ==
    \A j \in running : \A h \in uses[j] :
       pool[h] = 0 /\ (refs[h] > 0 \/ h \in Unloaded(j))

\* A wait returns what its own programs computed from its own input, with the
\* tables they asked for: no reused buffer, recycled table, pooled kernel or
\* resident output of another ticket gets in between.
ReturnsOwnResult ==
    \A j \in Job : phase[j] = "tables" /\ LastStage(j)
                      => results[j] = <<j, Len(chain[j])>>

\* The counter that keeps the caches from being cleared counts the tickets
\* that exist, so that they can be cleared again when none is left.
ActiveCounts ==
    call = None => active = CASE backend \in {"Hip", "OpenCl"} ->
                                 Cardinality({j \in Job : phase[j] = "pending"})
                            [] OTHER -> 0

\* The bounded caches keep within their capacity and account for what they
\* hold.
CachesAccounted ==
    /\ backend = "Metal" =>
          /\ Accounted(lutCache, TableBytes, MaxTables, MaxTableBytes)
          /\ Accounted(moduleCache, NoBytes, MaxPipelines, 0)
          /\ Cardinality(Pooled(Device)) <= MaxBuffers
    /\ backend = "Hip" =>
          /\ Accounted(codeCache, CodeBytes, MaxCodes, MaxCodeBytes)
          /\ Size(moduleCache) <= MaxModules

\* What a ticket has for itself; tables, modules and Metal pipelines are shared
\* once they are cached or used from a cache.
OwnedBy(j) == IF backend = "Metal" THEN Transients(j) ELSE held[j]

OwnerOf(h) ==
    IF \E j \in Job : h \in OwnedBy(j) THEN CHOOSE j \in Job : h \in OwnedBy(j)
    ELSE IF refs[h] > pool[h] THEN Maint
    ELSE None

Owner == [h \in Handle |-> OwnerOf(h)]
Busy == {h \in UNION {uses[j] : j \in running} : OwnerOf(h) # Maint}

Tickets == INSTANCE ExclusiveTickets WITH
    Resource <- Handle, Ticket <- Job, Free <- None, Shared <- Maint,
    owner <- Owner, busy <- Busy

\* What no ticket of ExclusiveTickets may do: a failed submission of HIP gives
\* up modules that the device may still use.
UnloadsInUse ==
    /\ backend = "Hip"
    /\ \E j \in Job :
          /\ phase[j] = "unwind" /\ loaded[j] # << >> /\ loaded'[j] = << >>
          /\ Owner' = [h \in Handle |-> IF h \in Module /\ Owner[h] = j THEN None
                                       ELSE Owner[h]]
    /\ UNCHANGED Busy

\* The tickets of each of these runtimes own what the device works on, until it is
\* done: every step is one of ExclusiveTickets, whatever fails and in whatever order
\* tickets, clears and the device take their turns, except the step in which HIP
\* unloads the modules of a failed submission.
ImplementsExclusiveTickets ==
    Tickets!Init /\ [][Tickets!Next \/ UnloadsInUse]_<<Owner, Busy>>
=============================================================================
