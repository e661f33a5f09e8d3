------------------------ MODULE NativeTicketProofs ------------------------
(* What the tickets of NativeRuntimes rely on while they are in flight: the *)
(* handles the device works with, the contents of what they need and of     *)
(* their results, and that they implement ExclusiveTickets.                 *)
EXTENDS NativeProofs

-----------------------------------------------------------------------------
(* What the device works with.                                             *)

\* Where a call may be while the device works for its ticket.
Flying == IF Explicit THEN {"launch", "unwind", "pending", "sync", "drop", "dropQueue"}
          ELSE {"pending", "sync", "drop"}

\* A failed submission of HIP has dropped its modules.
ModulesDropped(j) == backend = "Hip" /\ phase[j] = "unwind" /\ loaded[j] = << >>

\* What it may have launched: modules it has unloaded, and cached ones.
Gone(j) ==
    IF ModulesDropped(j) THEN {h \in Module : refs[h] = 0 \/ h \in Values(moduleCache)} ELSE {}

InFlight(j) ==
    j \in running =>
       /\ phase[j] \in Flying
       /\ phase[j] = "dropQueue" => faults = 1
       /\ Len(memory[j]) = Len(Plan(j))
       /\ Used(j) \subseteq uses[j] /\ uses[j] \subseteq Used(j) \cup Gone(j)
       /\ Explicit => Output(j) \in held[j] /\ Used(j) \subseteq held[j] \cup Shared

FlightInv ==
    /\ \A j \in Job : InFlight(j)
    /\ call = Maint => running = {}


-----------------------------------------------------------------------------
(* What the device works with: the explicit APIs.                          *)

LEMMA OneFault ==
    ASSUME MaxFaults <= 1, Inv, Next
    PROVE  (faults = 1 => faults' = 1) /\ (InjectFault => faults' = 1)
<1>1. faults \in 0 .. MaxFaults /\ MaxFaults \in Nat
  BY NativeAssumption DEF Inv, Types, FreeTypes
<1>2. UNCHANGED faults \/ InjectFault
  BY DEF Next, Failure, SubmitFails, CudaLoadFails, MetalCommandFails, ClearPoolFails,
     FinishFails, DropWaitFails, FreeDuplicateFails
<1> QED
  BY <1>1, <1>2 DEF InjectFault

\* A ticket's move takes nothing out of the caches.
LEMMA MovesKeepShared ==
    ASSUME Inv, Explicit, NEW j \in Job, TicketMove(j)
    PROVE  Shared \subseteq Shared'
<1>1. Types /\ TicketOwns(j)
  BY DEF Inv, ExplicitOwned
<1>2. ASSUME UNCHANGED <<lutCache, moduleCache>> PROVE Shared \subseteq Shared'
  BY <1>2 DEF Shared
<1>3. CASE LoadsCached(j)
  <2>1. PICK new \in [{NextSource(j)} -> Module] :
           Caches({NextSource(j)}, new) /\ UNCHANGED <<pool, held, leaked, dataVars>>
    BY <1>3 DEF LoadsCached
  <2>2. UNCHANGED <<pool, held, leaked, lutCache>>
    BY <2>1 DEF dataVars
  <2>3. Values(moduleCache) \subseteq Values(moduleCache')
    BY <2>1, <2>2, CachesOwnership
  <2> QED
    BY <2>2, <2>3 DEF Shared, Values, Keys
<1>4. ASSUME NEW i \in pending[j], insert_lut(j, i) PROVE Shared \subseteq Shared'
  <2>1. moduleCache' = moduleCache
    BY <1>4 DEF insert_lut
  <2>2. CASE lutCache' = lutCache
    BY <1>2, <2>1, <2>2
  <2>3. CASE lutCache' # lutCache
    <3>1. /\ Plan(j)[i] \notin Keys(lutCache)
          /\ lutCache' = InsertIfVacant(lutCache, Plan(j)[i], memory[j][i])
      BY <1>4, <2>3 DEF insert_lut
    <3>2. Plan(j)[i] \in Key /\ memory[j][i] \in Device
      BY <1>1 DEF TicketOwns
    <3>3. Extends(lutCache', lutCache, Plan(j)[i], memory[j][i])
      BY <1>1, <3>1, <3>2, InsertExtends DEF Types, DataTypes
    <3>4. Values(lutCache) \subseteq Values(lutCache')
      BY <3>1, <3>3 DEF Extends, Values
    <3> QED
      BY <2>1, <3>4 DEF Shared, Values, Keys
  <2> QED
    BY <2>2, <2>3
<1>5. CASE \/ \E c \in Chains[j] : Submit(j, c, "queue")
           \/ TakesQueue(j) \/ launch(j) \/ DeviceEnds(j)
  BY <1>2, <1>5 DEF Submit, TakesQueue, launch, DeviceEnds, dataVars, codeVars
<1>6. CASE cached_table(j) \/ Uploads(j) \/ TakesTransient(j) \/ take_resident(j)
  BY <1>2, <1>6 DEF cached_table, Uploads, TakesTransient, take_resident, codeVars
<1>7. CASE MovesOn(j) \/ LoadsShared(j) \/ LoadsOwn(j)
  BY <1>2, <1>7 DEF MovesOn, LoadsShared, LoadsOwn, dataVars
<1>8. CASE Recycles(j) \/ Ends(j) \/ \E i \in pending[j] : FreeDuplicateFails(j, i)
  BY <1>2, <1>8 DEF Recycles, recycle, Ends, DropEnds, Unwinds, FreeDuplicateFails, codeVars
<1>9. CASE Unloads(j)
  BY <1>2, <1>9 DEF Unloads, hip_unload
<1> QED
  BY <1>3, <1>4, <1>5, <1>6, <1>7, <1>8, <1>9 DEF TicketMove

\* Once a submission has dropped its modules, nothing else happens until the
\* device has done what it was given.
LEMMA OnlyDevice ==
    ASSUME Inv, Next, NEW j \in Job, ModulesDropped(j), j \in running
    PROVE  \E k \in Job : DeviceEnds(k)
<1>1. call = j /\ phase[j] = "unwind" /\ loaded[j] = << >> /\ backend = "Hip"
  BY DEF Inv, Control, Flow, ModulesDropped
<1>2. j # None /\ j # Maint
  BY NativeAssumption
<1>3. ~Failure
  BY <1>1, <1>2 DEF Failure, SubmitFails, ClearPoolFails, FinishFails, DropWaitFails,
     DropGoesOn, FreeDuplicateFails, At, SubmitPhases
<1>4. ASSUME NEW i \in Job, CommonStep(i) PROVE FALSE
  BY <1>1, <1>2, <1>4 DEF CommonStep, cached_table, take_resident, take_transient, allocated,
     all_loaded, launch, Wait, DropTicket, synchronize, read_output, DropWaits, DropGoesOn,
     insert_lut, Allocating, At
<1>5. ASSUME NEW i \in Job, HipTicketStep(i) PROVE FALSE
  <2>1. ~HipSubmit(i) /\ ~hip_take_stream(i) /\ ~hip_allocate(i)
    BY <1>1, <1>2 DEF HipSubmit, Submit, hip_take_stream, take_queue, hip_allocate, cached_table,
       upload_table, take_transient, allocated, Allocating, At
  <2>2. ~hip_cached_module(i) /\ ~compile_shader_source(i) /\ ~load_module_function(i)
    BY <1>1 DEF hip_cached_module, compile_shader_source, load_module_function, Loading, At
  <2>3. ~hip_launch(i) /\ ~recycle(i, {}) /\ ~hip_DropEnds(i)
    BY <1>1 DEF hip_launch, launch, all_launched, recycle, hip_DropEnds, DropEnds, At
  <2>4. ~hip_unload(i) /\ ~hip_Unwinds(i)
    BY <1>1 DEF hip_unload, hip_Unwinds, Unwinds, DeviceDone, At
  <2> QED
    BY <1>5, <2>1, <2>2, <2>3, <2>4 DEF HipTicketStep
<1>6. (\A s \in Source : ~HipReport(s))
      /\ (\A e \in Archive : ~restore_hiprtc_code_archive(e[1], e[2]))
  BY <1>1, <1>2 DEF HipReport, restore_hiprtc_code_archive
<1>7. ~HipClear /\ ~ClearPool /\ ~DropContext
  BY <1>1, <1>2 DEF HipClear, BeginClear, ClearPool, DropContext
<1>8. ~HipStep
  BY <1>4, <1>5, <1>6, <1>7 DEF HipStep, HipTicketStep, CommonStep
<1> QED
  BY <1>1, <1>3, <1>8 DEF Next, Step

LEMMA GoneKept ==
    ASSUME Inv, Next, NEW i \in Job, i \in running, phase'[i] = phase[i], loaded'[i] = loaded[i]
    PROVE  Gone(i)' = Gone(i)
<1>1. ModulesDropped(i)' = ModulesDropped(i)
  BY DEF ModulesDropped, Next
<1>2. CASE ModulesDropped(i)
  <2>1. UNCHANGED <<refs, moduleCache>>
    BY <1>2, OnlyDevice DEF DeviceEnds, handleVars, codeVars
  <2> QED
    BY <1>1, <2>1 DEF Gone, Values, Keys
<1>3. CASE ~ModulesDropped(i)
  BY <1>1, <1>3 DEF Gone
<1> QED
  BY <1>2, <1>3

\* The other moves are made while the device does not work for the ticket.
LEMMA GroundMoves ==
    ASSUME Inv, Explicit, FlightInv, NEW j \in Job, TicketMove(j)
    PROVE  \/ launch(j) \/ MovesOn(j) \/ Unloads(j)
           \/ j \notin running'
<1>1. Types /\ Flow(j) /\ InFlight(j)
  BY DEF Inv, Control, FlightInv
<1>2. ASSUME UNCHANGED running, phase[j] \notin Flying \/ j \notin running
      PROVE  j \notin running'
  BY <1>1, <1>2 DEF InFlight
<1>3. CASE (\E c \in Chains[j] : Submit(j, c, "queue")) \/ TakesQueue(j)
  BY <1>2, <1>3 DEF Submit, TakesQueue, At, gpuVars, Flying
<1>4. CASE cached_table(j) \/ Uploads(j) \/ TakesTransient(j) \/ take_resident(j)
  BY <1>2, <1>4 DEF cached_table, Uploads, TakesTransient, take_resident, Allocating, At,
     gpuVars, Flying
<1>5. CASE LoadsShared(j) \/ LoadsCached(j) \/ LoadsOwn(j)
  BY <1>2, <1>5 DEF LoadsShared, LoadsCached, LoadsOwn, LoadsPass, gpuVars, Flying
<1>6. CASE DeviceEnds(j)
  BY <1>6 DEF DeviceEnds
<1>7. CASE \E i \in pending[j] : insert_lut(j, i) \/ FreeDuplicateFails(j, i)
  BY <1>2, <1>7 DEF insert_lut, FreeDuplicateFails, At, gpuVars, Flying
<1>8. CASE Recycles(j) \/ Ends(j)
  BY <1>2, <1>8 DEF Recycles, recycle, Ends, DropEnds, Unwinds, DeviceDone, At, gpuVars, Flying
<1> QED
  BY <1>3, <1>4, <1>5, <1>6, <1>7, <1>8 DEF TicketMove

LEMMA LaunchFlight ==
    ASSUME Inv, Explicit, FlightInv, NEW j \in Job, launch(j), UNCHANGED backend
    PROVE  InFlight(j)' /\ UNCHANGED call
<1>1. Types /\ TicketOwns(j) /\ Backed(j) /\ call = j /\ phase[j] = "launch"
  BY DEF Inv, ExplicitOwned, launch, At
<1>2. /\ UNCHANGED <<call, phase, chain, stage, held, memory, loaded, lutCache, moduleCache>>
      /\ uses'[j] = Used(j)
  BY <1>1 DEF launch, handleVars, dataVars, codeVars, Types, GpuTypes
<1>3. Used(j) \subseteq held[j] \cup Shared
  BY <1>1 DEF Backed, Loads, Used, Shared
<1>4. Output(j) \in held[j] /\ Len(memory[j]) = Len(Plan(j))
  BY <1>1, OutputPlaced DEF Allocated, Inv, Control, Flow
<1>5. /\ Shared' = Shared /\ Plan(j)' = Plan(j) /\ Output(j)' = Output(j)
      /\ Used(j)' = Used(j) /\ Explicit' /\ phase'[j] = "launch"
  BY <1>1, <1>2 DEF Shared, Plan, TheProgram, Output, Used, Explicit
<1>6. phase'[j] \in Flying'
  BY <1>5 DEF Flying
<1> QED
  BY <1>2, <1>3, <1>4, <1>5, <1>6 DEF InFlight

\* A passage keeps what is in flight; it lands only once the device is done.
LEMMA PassageFlight ==
    ASSUME MaxFaults <= 1, Inv, NEW j \in Job, InFlight(j), MovesOn(j), j \in running,
           InjectFault => faults' = 1, UNCHANGED backend
    PROVE  InFlight(j)'
<1>1. Types /\ phase[j] \in Flying /\ (phase[j] = "dropQueue" => faults = 1)
  BY DEF Inv, InFlight
<1>2. PICK q \in Phases, n \in Nat :
         /\ Passage(j, q, n) /\ phase' = [phase EXCEPT ![j] = q]
         /\ UNCHANGED <<chain, stage, handleVars, dataVars, loaded, moduleCache, gpuVars>>
  BY DEF MovesOn
<1>3. phase'[j] = q
  BY <1>1, <1>2 DEF Types, CallTypes
<1>4. phase[j] = "dropQueue" => ~InjectFault
  BY <1>1, NativeAssumption DEF InjectFault, Inv, Types, FreeTypes
<1>5. q \in Flying /\ (q = "dropQueue" => InjectFault)
  <2>1. CASE Explicit
    BY <1>1, <1>2, <1>4, <2>1 DEF Passage, Flying, SubmitPhases
  <2>2. CASE ~Explicit
    BY <1>1, <1>2, <2>2 DEF Passage, Flying, SubmitPhases
  <2> QED
    BY <2>1, <2>2
<1>6. /\ Explicit' = Explicit /\ Shared' = Shared /\ Plan(j)' = Plan(j)
      /\ Output(j)' = Output(j) /\ Used(j)' = Used(j)
  BY <1>2 DEF Explicit, Shared, Plan, TheProgram, Output, Used, handleVars, dataVars, Values, Keys
<1>7. phase'[j] \in Flying' /\ (phase'[j] = "dropQueue" => faults' = 1)
  BY <1>3, <1>5, <1>6 DEF Flying
<1>8. UNCHANGED <<uses, held, memory, loaded>>
  BY <1>2 DEF gpuVars, handleVars, dataVars
<1>9. Gone(j) = {}
  BY <1>2 DEF Gone, ModulesDropped, Passage, SubmitPhases
<1> QED
  BY <1>6, <1>7, <1>8, <1>9 DEF InFlight

\* The modules that the device may work with are gone, or cached.
LEMMA UnloadFlight ==
    ASSUME Inv, Explicit, NEW j \in Job, InFlight(j), Unloads(j), j \in running,
           UNCHANGED backend
    PROVE  InFlight(j)'
<1>1. /\ Types /\ TicketOwns(j) /\ held \in [Job -> SUBSET Handle]
      /\ uses \in [Job -> SUBSET Handle] /\ Explicit'
      /\ ToSet(loaded[j]) \subseteq Module \cup Kernel
  <2>1. ToSet(loaded[j]) \subseteq Module \cup Kernel
    BY TicketSequences DEF Inv, ToSet
  <2> QED
    BY <2>1 DEF Inv, ExplicitOwned, Types, HandleTypes, GpuTypes, Explicit
<1>2. /\ phase[j] = "unwind" /\ loaded[j] # << >> /\ loaded'[j] = << >> /\ backend = "Hip"
      /\ refs' = [h \in Handle |-> IF h \in held[j] \cap Module THEN 0 ELSE refs[h]]
      /\ held'[j] = held[j] \ Module
      /\ UNCHANGED <<phase, chain, stage, memory, lutCache, moduleCache, running, uses>>
  BY <1>1 DEF Unloads, hip_unload, At, Destroy, flowVars, gpuVars, Types, CodeTypes
<1>3. Plan(j)' = Plan(j) /\ Output(j)' = Output(j) /\ Shared' = Shared /\ Flying' = Flying
  BY <1>1, <1>2 DEF Plan, TheProgram, Output, Shared, Values, Keys, Flying
<1>4. /\ phase[j] \in Flying /\ Len(memory[j]) = Len(Plan(j))
      /\ Output(j) \in held[j] /\ Used(j) \subseteq held[j] \cup Shared
      /\ uses[j] = Used(j)
  BY <1>2 DEF InFlight, Gone, ModulesDropped
<1>5. /\ ToSet(<< >>) = {}
      /\ Used(j)' = (held[j] \ Module) \cup ToSet(memory[j])
  <2>1. ToSet(<< >>) = {}
    BY DEF ToSet
  <2> QED
    BY <1>2, <2>1 DEF Used
<1>6. ToSet(memory[j]) \subseteq Device
  BY <1>1 DEF TicketOwns, ToSet
<1>7. /\ Device \cap Module = {} /\ Device \cap Kernel = {} /\ Module \subseteq Handle
      /\ Values(lutCache) \subseteq Device /\ Values(moduleCache) \subseteq Module
      /\ Module \cap Kernel = {}
  BY <1>1, NativeAssumption, CacheEntries DEF Handle, Types, DataTypes, CodeTypes
<1>8. Output(j) \in held[j] \ Module
  <2>1. phase[j] # "idle" /\ Len(memory[j]) = Len(Plan(j))
    BY <1>2, <1>4
  <2>2. Len(Plan(j)) \in DOMAIN memory[j]
    BY <2>1, CurrentProgram, TicketSequences DEF Inv
  <2>3. Output(j) \in Device
    BY <1>1, <2>2 DEF TicketOwns, Output
  <2> QED
    BY <1>4, <1>7, <2>3
<1>9. Used(j)' \subseteq uses[j] /\ Used(j)' \subseteq held'[j] \cup Shared
  <2>1. ToSet(memory[j]) \subseteq Used(j) /\ held[j] \subseteq Used(j)
    BY DEF Used
  <2> QED
    BY <1>2, <1>4, <1>5, <1>6, <1>7, <2>1
<1>10. Gone(j)' = {h \in Module : refs'[h] = 0 \/ h \in Values(moduleCache)}
  <2>1. ModulesDropped(j)' /\ Values(moduleCache)' = Values(moduleCache)
    BY <1>2 DEF ModulesDropped, Values, Keys
  <2> QED
    BY <2>1 DEF Gone
<1>11. ASSUME NEW h \in uses[j] PROVE h \in Used(j)' \cup Gone(j)'
  <2>1. h \in held[j] \cup ToSet(memory[j]) \cup ToSet(loaded[j]) /\ h \in held[j] \cup Shared
    BY <1>4 DEF Used
  <2>2. CASE h \in held[j] \cap Module
    BY <1>2, <1>7, <1>10, <2>2
  <2>3. CASE h \in held[j] \ Module \/ h \in ToSet(memory[j])
    BY <1>5, <2>3
  <2>4. CASE h \notin held[j] /\ h \in ToSet(loaded[j])
    BY <1>1, <1>7, <1>10, <2>1, <2>4 DEF Shared
  <2> QED
    BY <2>1, <2>2, <2>3, <2>4
<1>12. /\ phase'[j] \in Flying' /\ phase'[j] # "dropQueue"
       /\ Len(memory'[j]) = Len(Plan(j)')
       /\ Output(j)' \in held'[j] /\ Used(j)' \subseteq held'[j] \cup Shared'
       /\ Used(j)' \subseteq uses'[j] /\ uses'[j] \subseteq Used(j)' \cup Gone(j)'
  BY <1>2, <1>3, <1>4, <1>8, <1>9, <1>11
<1> QED
  BY <1>12 DEF InFlight

LEMMA TicketFlight ==
    ASSUME MaxFaults <= 1, Inv, Explicit, FlightInv, Next, NEW j \in Job, TicketMove(j)
    PROVE  FlightInv'
<1>1. Types /\ InFlight(j) /\ UNCHANGED backend /\ Others(j) /\ Explicit'
  BY MovesAlone, FreeTypesKept DEF Inv, FlightInv, Explicit
<1>2. (faults = 1 => faults' = 1) /\ (InjectFault => faults' = 1)
  BY OneFault
<1>3. InFlight(j)'
  <2>1. CASE j \notin running'
    BY <2>1 DEF InFlight
  <2>2. CASE j \in running' /\ MovesOn(j)
    <3>1. j \in running
      BY <2>2 DEF MovesOn, gpuVars
    <3> QED
      BY <1>1, <1>2, <2>2, <3>1, PassageFlight
  <2>3. CASE j \in running' /\ Unloads(j)
    <3>1. j \in running /\ phase[j] = "unwind"
      BY <2>3 DEF Unloads, hip_unload, At, gpuVars
    <3> QED
      BY <1>1, <2>3, <3>1, UnloadFlight
  <2> QED
    BY <1>1, <2>1, <2>2, <2>3, LaunchFlight, GroundMoves
<1>4. ASSUME NEW i \in Job, i # j PROVE InFlight(i)'
  <2>1. InFlight(i) /\ Shared \subseteq Shared'
    BY MovesKeepShared DEF FlightInv
  <2>2. /\ phase'[i] = phase[i] /\ chain'[i] = chain[i] /\ stage'[i] = stage[i]
        /\ held'[i] = held[i] /\ memory'[i] = memory[i] /\ uses'[i] = uses[i]
        /\ loaded'[i] = loaded[i]
        /\ i \in running' => i \in running
    BY <1>1, <1>4 DEF Others
  <2>3. /\ Plan(i)' = Plan(i) /\ Output(i)' = Output(i) /\ Used(i)' = Used(i)
        /\ Flying' = Flying
    BY <1>1, <2>2 DEF Plan, TheProgram, Output, Used, Flying
  <2>4. i \in running => Gone(i)' = Gone(i)
    BY <2>2, GoneKept
  <2> QED
    BY <1>1, <1>2, <2>1, <2>2, <2>3, <2>4 DEF InFlight
<1>5. ASSUME call' = Maint PROVE running' = {}
  <2>1. call' = call
    BY <1>5, TicketFlow, NativeAssumption DEF Turn
  <2>2. running = {} /\ call # j
    BY <1>5, <2>1, NativeAssumption DEF FlightInv
  <2>3. j \notin running'
    <3>1. CASE launch(j)
      BY <2>2, <3>1 DEF launch, At
    <3>2. CASE MovesOn(j)
      BY <2>2, <3>2 DEF MovesOn, gpuVars
    <3>3. CASE Unloads(j)
      BY <2>2, <3>3 DEF Unloads, hip_unload, At
    <3> QED
      BY <3>1, <3>2, <3>3, GroundMoves
  <2>4. running' \subseteq Job
    BY TicketTypes DEF MoveTypes, GpuTypes, Inv
  <2> QED
    BY <1>1, <2>2, <2>3, <2>4 DEF Others
<1> QED
  BY <1>3, <1>4, <1>5 DEF FlightInv

\* The context changes only what no ticket in flight uses.
LEMMA ContextFlight ==
    ASSUME MaxFaults <= 1, Inv, ActiveInv, Explicit, FlightInv, Next,
           Builds \/ PoolsKernel \/ KeepsStill \/ BeginsClear \/ Clears \/ DropsContext
    PROVE  FlightInv'
<1>1. Types /\ Control /\ UNCHANGED backend /\ (faults = 1 => faults' = 1)
  BY FreeTypesKept, OneFault DEF Inv
<1>2. UNCHANGED <<phase, chain, stage, held, memory, loaded, running, uses>>
  <2>1. CASE Builds \/ PoolsKernel \/ KeepsStill
    BY <2>1 DEF Builds, PoolsKernel, KeepsStill, flowVars, handleVars, dataVars, gpuVars
  <2>2. CASE BeginsClear \/ DropsContext
    BY <2>2 DEF BeginsClear, BeginClear, DropsContext, DropContext, flowVars, handleVars,
       dataVars, codeVars, gpuVars
  <2>3. CASE Clears
    BY <2>3 DEF Clears, Drain, gpuVars
  <2> QED
    BY <2>1, <2>2, <2>3
<1>3. CASE running = {}
  BY <1>2, <1>3 DEF FlightInv, InFlight
<1>4. CASE Builds \/ PoolsKernel \/ KeepsStill
  <2>1. UNCHANGED <<call, lutCache>>
    BY <1>4 DEF Builds, PoolsKernel, KeepsStill, flowVars, dataVars
  <2>2. Values(moduleCache) \subseteq Values(moduleCache')
    <3>1. CASE Builds
      <4>1. PICK M \in SUBSET Source : \E new \in [M -> Module] : Caches(M, new)
        BY <3>1 DEF Builds
      <4>2. PICK new \in [M -> Module] : Caches(M, new)
        BY <4>1
      <4>3. UNCHANGED <<pool, held, leaked, lutCache>>
        BY <3>1, <2>1 DEF Builds
      <4> QED
        BY <4>2, <4>3, CachesOwnership
    <3>2. CASE PoolsKernel \/ KeepsStill
      BY <3>2 DEF PoolsKernel, KeepsStill, Values, Keys
    <3> QED
      BY <1>4, <3>1, <3>2
  <2>3. Shared \subseteq Shared'
    BY <2>1, <2>2 DEF Shared, Values, Keys
  <2>4. ASSUME NEW i \in Job PROVE InFlight(i)'
    <3>1. InFlight(i)
      BY DEF FlightInv
    <3>2. /\ Plan(i)' = Plan(i) /\ Output(i)' = Output(i) /\ Used(i)' = Used(i)
          /\ Flying' = Flying /\ Explicit'
      BY <1>1, <1>2 DEF Plan, TheProgram, Output, Used, Flying, Explicit
    <3>3. i \in running => Gone(i)' = Gone(i)
      BY <1>2, GoneKept
    <3> QED
      BY <1>1, <1>2, <2>3, <3>1, <3>2, <3>3 DEF InFlight
  <2> QED
    BY <1>2, <2>1, <2>4 DEF FlightInv
<1>5. CASE BeginsClear
  <2>1. call = None /\ (DeviceIdle \/ (backend = "OpenCl" /\ active = 0))
    BY <1>5 DEF BeginsClear, BeginClear
  <2>2. CASE backend = "OpenCl" /\ active = 0
    <3>1. ActiveTickets = {}
      <4>1. ActiveTickets \in SUBSET Job
        BY DEF ActiveTickets
      <4>2. IsFiniteSet(ActiveTickets)
        BY <4>1, NativeAssumption, FS_Subset
      <4> QED
        BY <2>2, <4>2, FS_EmptySet DEF ActiveInv
    <3>2. ASSUME NEW i \in running PROVE FALSE
      <4>1. i \in Job /\ i # None /\ Flow(i) /\ phase[i] \in Flying
        BY <1>1, NativeAssumption DEF Types, GpuTypes, Control, FlightInv, InFlight
      <4>2. phase[i] = "pending"
        BY <2>1, <4>1 DEF Flow, Flying
      <4>3. i \in ActiveTickets
        BY <2>2, <4>1, <4>2 DEF ActiveTickets, IsActive, Accepted
      <4> QED
        BY <3>1, <4>3
    <3> QED
      BY <1>3, <3>2
  <2> QED
    BY <1>3, <2>1, <2>2 DEF DeviceIdle
<1>6. CASE Clears
  BY <1>3, <1>6 DEF Clears, FlightInv
<1>7. CASE DropsContext
  <2>1. \A j \in Job : phase[j] = "idle"
    BY <1>7 DEF DropsContext, DropContext
  <2>2. running = {}
    BY <1>1, <2>1 DEF FlightInv, InFlight, Flying, Types, GpuTypes
  <2> QED
    BY <1>3, <2>2
<1> QED
  BY <1>4, <1>5, <1>6, <1>7

-----------------------------------------------------------------------------
(* What the device works with: Metal.                                      *)

LEMMA MetalGround ==
    ASSUME Inv, ~Explicit, FlightInv, NEW j \in Job, MetalMove(j)
    PROVE  \/ commit(j) \/ MovesOn(j)
           \/ j \notin running'
<1>1. Types /\ InFlight(j)
  BY DEF Inv, FlightInv
<1>2. ASSUME UNCHANGED running, phase[j] \notin Flying \/ j \notin running
      PROVE  j \notin running'
  BY <1>1, <1>2 DEF InFlight
<1>3. CASE DeviceEnds(j)
  BY <1>3 DEF DeviceEnds
<1>4. CASE \E c \in Chains[j] : Submit(j, c, "alloc")
  BY <1>2, <1>4 DEF Submit, gpuVars, Flying
<1>5. CASE metal_cached_table(j) \/ take_lookup_buffer(j) \/ take_shared_buffer(j)
  BY <1>2, <1>5 DEF metal_cached_table, take_lookup_buffer, take_shared_buffer, Allocating,
     At, gpuVars, Flying
<1>6. CASE metal_cached_pipeline(j) \/ compile_pipeline(j)
  BY <1>2, <1>6 DEF metal_cached_pipeline, compile_pipeline, Loading, At, gpuVars, Flying
<1>7. CASE recycle_buffers(j)
  BY <1>2, <1>7 DEF recycle_buffers, DeviceDone, gpuVars
<1>8. CASE metal_unwinds(j) \/ MetalReleases(j)
  BY <1>2, <1>8 DEF metal_unwinds, MetalReleases, At, gpuVars, Flying
<1> QED
  BY <1>3, <1>4, <1>5, <1>6, <1>7, <1>8 DEF MetalMove

LEMMA CommitFlight ==
    ASSUME Inv, ~Explicit, NEW j \in Job, commit(j), UNCHANGED backend
    PROVE  InFlight(j)'
<1>1. Types /\ Flow(j) /\ MetalTicket(j) /\ phase[j] = "module"
  BY DEF Inv, Control, MetalCounted, commit, At
<1>2. /\ UNCHANGED <<chain, stage, held, memory, loaded>> /\ phase'[j] = "pending"
      /\ uses'[j] = Used(j)
  BY <1>1 DEF commit, Goto, handleVars, dataVars, codeVars, Types, CallTypes, GpuTypes
<1>3. Len(memory[j]) = Len(Plan(j)) /\ Plan(j)' = Plan(j)
  BY <1>1, <1>2 DEF Flow, Allocated, Plan, TheProgram
<1>4. Used(j)' = Used(j)
  BY <1>2 DEF Used
<1>5. ~Explicit' /\ phase'[j] \in Flying'
  BY <1>2 DEF Flying, Explicit
<1> QED
  BY <1>2, <1>3, <1>4, <1>5 DEF InFlight

LEMMA MetalFlight ==
    ASSUME MaxFaults <= 1, Inv, ~Explicit, FlightInv, Next
    PROVE  FlightInv'
<1>1. Types /\ UNCHANGED backend /\ Inv' /\ (InjectFault => faults' = 1)
  BY FreeTypesKept, OneFault, MetalKeeps DEF Inv
<1>2. call' # Maint
  BY <1>1 DEF Inv, Control, MetalCounted, Explicit
<1>3. ~Explicit' /\ Flying' = Flying /\ \A i \in Job : Gone(i) = {} /\ Gone(i)' = {}
  BY <1>1 DEF Flying, Explicit, Gone, ModulesDropped
<1>4. ASSUME NEW j \in Job, MetalMove(j), NEW i \in Job PROVE InFlight(i)'
  <2>1. InFlight(i) /\ Others(j)
    BY <1>1, <1>4, MetalAlone DEF FlightInv
  <2>2. CASE i = j /\ i \notin running'
    BY <2>2 DEF InFlight
  <2>3. CASE i = j /\ commit(j)
    BY <1>1, <2>3, CommitFlight
  <2>4. CASE i = j /\ MovesOn(j) /\ i \in running'
    <3>1. j \in running
      BY <2>4 DEF MovesOn, gpuVars
    <3> QED
      BY <1>1, <2>1, <2>4, <3>1, PassageFlight
  <2>5. CASE i # j
    <3>1. /\ phase'[i] = phase[i] /\ chain'[i] = chain[i] /\ stage'[i] = stage[i]
          /\ loaded'[i] = loaded[i] /\ memory'[i] = memory[i] /\ uses'[i] = uses[i]
          /\ held'[i] = held[i]
          /\ i \in running' => i \in running
      BY <2>1, <2>5 DEF Others
    <3>2. Plan(i)' = Plan(i) /\ Used(i)' = Used(i)
      BY <3>1 DEF Plan, TheProgram, Used
    <3>3. phase[i] \in Flying => phase[i] # "dropQueue"
      BY DEF Flying
    <3> QED
      BY <1>3, <2>1, <3>1, <3>2, <3>3 DEF InFlight
  <2> QED
    BY <1>4, <2>2, <2>3, <2>4, <2>5, MetalGround
<1>5. ASSUME NEW i \in Job, MetalDropContext \/ \E s \in Source : MetalReport(s)
      PROVE  InFlight(i)'
  <2>1. UNCHANGED <<phase, chain, stage, held, memory, running, uses>>
    BY <1>5 DEF MetalDropContext, MetalReport, flowVars, dataVars, gpuVars
  <2>2. loaded' = loaded
    BY <1>5 DEF MetalDropContext, MetalReport, CompilePipeline
  <2>3. /\ InFlight(i) /\ Plan(i)' = Plan(i) /\ Used(i)' = Used(i)
        /\ phase[i] \in Flying => phase[i] # "dropQueue"
    BY <2>1, <2>2 DEF FlightInv, Plan, TheProgram, Used, Flying
  <2> QED
    BY <1>3, <2>1, <2>2, <2>3 DEF InFlight
<1> QED
  BY <1>2, <1>4, <1>5, MetalMoves DEF FlightInv

-----------------------------------------------------------------------------
(* Handles at work.                                                        *)

LEMMA SpecFlight ==
    ASSUME MaxFaults <= 1
    PROVE  Spec => [](Inv /\ ActiveInv /\ FlightInv)
<1>1. NativeInit => Inv /\ ActiveInv /\ FlightInv
  <2>1. NativeInit => FlightInv
    BY NativeAssumption DEF NativeInit, Init, FlightInv, InFlight
  <2> QED
    BY <2>1, InitInv, InitActive
<1>2. Inv /\ ActiveInv /\ FlightInv /\ [Next]_vars => (Inv /\ ActiveInv /\ FlightInv)'
  <2>1. Inv /\ ActiveInv /\ [Next]_vars => (Inv /\ ActiveInv)'
    BY InvActiveStep
  <2>2. ASSUME Inv, ActiveInv, FlightInv, Next PROVE FlightInv'
    BY <2>2, ExplicitMoves, TicketFlight, ContextFlight, MetalFlight DEF ExplicitMove
  <2>3. ASSUME FlightInv, UNCHANGED vars PROVE FlightInv'
    <3>1. UNCHANGED <<backend, call, phase, chain, stage, held, memory, loaded, running,
                      uses, faults, refs, lutCache, moduleCache>>
      BY <2>3 DEF vars, nativeVars, flowVars, handleVars, dataVars, codeVars, gpuVars
    <3>2. ASSUME NEW i \in Job PROVE InFlight(i)'
      <4>1. /\ InFlight(i) /\ Plan(i)' = Plan(i) /\ Output(i)' = Output(i)
            /\ Used(i)' = Used(i)
        BY <2>3, <3>1 DEF FlightInv, Plan, TheProgram, Output, Used
      <4>2. Flying' = Flying /\ Shared' = Shared /\ Explicit' = Explicit /\ Gone(i)' = Gone(i)
        BY <3>1 DEF Flying, Shared, Explicit, Gone, ModulesDropped, Values, Keys
      <4> QED
        BY <3>1, <4>1, <4>2 DEF InFlight
    <3> QED
      BY <2>3, <3>1, <3>2 DEF FlightInv
  <2> QED
    BY <2>1, <2>2, <2>3
<1> QED
  BY <1>1, <1>2, PTL DEF Spec

LEMMA FlightLive == Inv /\ FlightInv => UsedHandlesLive
<1> SUFFICES ASSUME Inv, FlightInv, NEW j \in Job, j \in running, NEW h \in uses[j]
             PROVE  pool[h] = 0 /\ (refs[h] > 0 \/ h \in Unloaded(j))
  BY DEF UsedHandlesLive, Inv, Types, GpuTypes
<1>1. InFlight(j) /\ h \in Handle /\ refs[h] \in Nat /\ pool[h] \in Nat
  BY DEF FlightInv, Inv, Types, GpuTypes, HandleTypes
<1>2. CASE Explicit
  <2>1. h \in held[j] \cup Shared \cup Gone(j) /\ OnePlace(h)
    BY <1>1, <1>2 DEF InFlight, Inv, ExplicitOwned, Ownership
  <2>2. CASE h \in held[j] \cup Shared
    BY <1>1, <2>1, <2>2 DEF OnePlace
  <2>3. CASE h \in Gone(j) /\ h \notin Shared
    <3>1. ModulesDropped(j) /\ h \in Module \ Values(moduleCache) /\ refs[h] = 0
      BY <2>3 DEF Gone, Shared
    <3> QED
      BY <1>1, <2>1, <3>1 DEF OnePlace, Unloaded, ModulesDropped
  <2> QED
    BY <2>1, <2>2, <2>3
<1>3. CASE ~Explicit
  <2>1. h \in ToSet(memory[j]) \cup ToSet(loaded[j])
    BY <1>1, <1>3 DEF InFlight, Gone, ModulesDropped, Explicit, Used, Inv, MetalCounted, MetalTicket
  <2>2. Kept(memory, loaded, h) >= 1
    <3>1. \A f : h \in ToSet(f[j]) => \E p : p \in Occurrences(f, h)
      BY OccurrenceIn DEF ToSet
    <3>2. /\ IsFiniteSet(Occurrences(memory, h)) /\ Cardinality(Occurrences(memory, h)) \in Nat
          /\ IsFiniteSet(Occurrences(loaded, h)) /\ Cardinality(Occurrences(loaded, h)) \in Nat
      BY OccurrencesCount DEF Inv, Types, DataTypes, CodeTypes
    <3>3. \/ Cardinality(Occurrences(memory, h)) # 0
          \/ Cardinality(Occurrences(loaded, h)) # 0
      BY <2>1, <3>1, <3>2, FS_EmptySet
    <3> QED
      BY <3>2, <3>3 DEF Kept
  <2>3. /\ Cached(h) \in {0, 1} /\ Kept(memory, loaded, h) \in Nat
        /\ refs[h] = pool[h] + Cached(h) + Kept(memory, loaded, h)
        /\ pool[h] > 0 => pool[h] = 1 /\ refs[h] = 1
    BY <1>3, <1>1, CountsOf
  <2> QED
    BY <1>1, <2>2, <2>3
<1> QED
  BY <1>2, <1>3

\* While at most one call of the driver fails, what the device works with is in
\* no pool, whatever is evicted, cleared or dropped meanwhile, and it exists, but
\* for the modules that a failed submission of HIP has unloaded by itself.
\* The waits of a drop ignore their errors: after two that fail in a row the
\* buffers are freed under the device, and no more than this can be said.
THEOREM NativeUsedHandlesLive ==
    ASSUME MaxFaults <= 1
    PROVE  Spec => []UsedHandlesLive
  BY SpecFlight, FlightLive, PTL

-----------------------------------------------------------------------------
(* What is computed.                                                       *)

CachesRight ==
    /\ \A k \in Keys(lutCache) : content[lutCache.entries[k]] = k
    /\ \A s \in Keys(moduleCache) : made[moduleCache.entries[s]] = s

\* The input is the data of j after the programs before this one.
Prepared(j) ==
    /\ \A i \in DOMAIN memory[j] :
          /\ Plan(j)[i] \in Key => content[memory[j][i]] = Plan(j)[i]
          /\ Plan(j)[i] = "input" => content[memory[j][i]] = <<j, stage[j] - 1>>
    /\ \A i \in DOMAIN loaded[j] : made[loaded[j][i]] = Passes(j)[i]

HasOutput(j) == content[Output(j)] = <<j, stage[j]>>

\* Until the device has computed the output, what it needs is there.
Computed(j) ==
    \/ phase[j] \in {"pending", "sync"}
    \/ phase[j] = "launch" /\ count[j] = Len(Passes(j))

HandsOn(j) ==
    \/ phase[j] = "free" /\ content[resident[j]] = <<j, stage[j]>>
    \/ phase[j] \in {"queue", "alloc"} /\ content[resident[j]] = <<j, stage[j] - 1>>
    \/ phase[j] = "unwind"

ResultInv(j) ==
    /\ \A i \in pending[j] : content[memory[j][i]] = Plan(j)[i]
    /\ phase[j] \in Loads \/ j \in running => Prepared(j)
    /\ j \notin running /\ Computed(j) => HasOutput(j)
    /\ phase[j] \in {"read", "tables"} => HasOutput(j)
    /\ phase[j] = "tables" /\ LastStage(j) => results[j] = <<j, stage[j]>>
    /\ resident[j] # None => HandsOn(j)

ResultsInv == CachesRight /\ \A j \in Job : ResultInv(j)

\* Nobody relies on what such a handle holds.
Loose(h) == refs[h] = 0 \/ pool[h] > 0 \/ h \in leaked

\* What ticket j relies on.
Needs(j) ==
    held[j] \cup (IF ~Explicit \/ phase[j] \in Loads \/ j \in running
                  THEN ToSet(memory[j]) \cup ToSet(loaded[j]) ELSE {})

Touched(h) ==
    \/ h \in Device /\ content'[h] # content[h]
    \/ h \in Module \cup Kernel /\ made'[h] # made[h]

SharedTight == \A h \in Shared : h \in Handle /\ ~Loose(h)
NeedsTight == \A j \in Job : \A h \in Needs(j) \cap Handle : ~Loose(h)

LEMMA InvShared == Inv => SharedTight
<1> SUFFICES ASSUME Inv, NEW h \in Shared PROVE h \in Handle /\ ~Loose(h)
  BY DEF SharedTight
<1>1. /\ IsCache(lutCache, Key, Device) /\ IsCache(moduleCache, Source, Module)
  BY DEF Inv, Types, DataTypes, CodeTypes
<1>2. Values(lutCache) \subseteq Device /\ Values(moduleCache) \subseteq Module
  BY <1>1, CacheEntries
<1>3. h \in Handle
  BY <1>2 DEF Shared, Handle
<1>4. refs[h] \in Nat /\ pool[h] \in Nat
  BY <1>3 DEF Inv, Types, HandleTypes
<1>5. CASE Explicit
  <2>1. OnePlace(h)
    BY <1>3, <1>5 DEF Inv, ExplicitOwned, Ownership
  <2> QED
    BY <1>3, <1>4, <2>1 DEF OnePlace, Loose
<1>6. CASE ~Explicit
  <2>1. Counted(h) /\ leaked = {} /\ Cached(h) = 1
    BY <1>3, <1>6 DEF Inv, MetalCounted, Cached
  <2>2. /\ Kept(memory, loaded, h) \in Nat
        /\ refs[h] = pool[h] + Cached(h) + Kept(memory, loaded, h)
        /\ pool[h] > 0 => pool[h] = 1 /\ refs[h] = 1
    BY <1>3, <1>6, CountsOf
  <2> QED
    BY <1>3, <1>4, <2>1, <2>2 DEF Loose
<1> QED
  BY <1>5, <1>6

\* The handles that a ticket needs are its own or shared.
LEMMA NeedsOwned ==
    ASSUME Inv, FlightInv, Explicit, NEW j \in Job
    PROVE  Needs(j) \subseteq held[j] \cup Shared
<1>1. Backed(j) /\ InFlight(j)
  BY DEF Inv, ExplicitOwned, FlightInv
<1>2. CASE phase[j] \in Loads
  BY <1>1, <1>2 DEF Backed, Needs, Shared
<1>3. CASE j \in running
  BY <1>1, <1>3 DEF InFlight, Used, Needs
<1> QED
  BY <1>2, <1>3 DEF Needs

LEMMA InvNeeds == Inv /\ FlightInv => NeedsTight
<1> SUFFICES ASSUME Inv, FlightInv, NEW j \in Job, NEW h \in Needs(j), h \in Handle
             PROVE  ~Loose(h)
  BY DEF NeedsTight
<1>1. refs[h] \in Nat /\ pool[h] \in Nat
  BY DEF Inv, Types, HandleTypes
<1>2. CASE Explicit
  <2>1. h \in held[j] \cup Shared /\ OnePlace(h)
    BY <1>2, NeedsOwned DEF Inv, ExplicitOwned, Ownership
  <2> QED
    BY <1>1, <2>1 DEF OnePlace, Loose
<1>3. CASE ~Explicit
  <2>1. h \in ToSet(memory[j]) \cup ToSet(loaded[j]) /\ leaked = {}
    BY <1>3 DEF Needs, Inv, MetalCounted, MetalTicket
  <2>2. Kept(memory, loaded, h) >= 1
    <3>1. \A f : h \in ToSet(f[j]) => \E p : p \in Occurrences(f, h)
      BY OccurrenceIn DEF ToSet
    <3>2. /\ IsFiniteSet(Occurrences(memory, h)) /\ Cardinality(Occurrences(memory, h)) \in Nat
          /\ IsFiniteSet(Occurrences(loaded, h)) /\ Cardinality(Occurrences(loaded, h)) \in Nat
      BY OccurrencesCount DEF Inv, Types, DataTypes, CodeTypes
    <3>3. \/ Cardinality(Occurrences(memory, h)) # 0
          \/ Cardinality(Occurrences(loaded, h)) # 0
      BY <2>1, <3>1, <3>2, FS_EmptySet
    <3> QED
      BY <3>2, <3>3 DEF Kept
  <2>3. /\ Cached(h) \in {0, 1} /\ Kept(memory, loaded, h) \in Nat
        /\ refs[h] = pool[h] + Cached(h) + Kept(memory, loaded, h)
        /\ pool[h] > 0 => pool[h] = 1 /\ refs[h] = 1
    BY <1>3, <1>1, CountsOf
  <2> QED
    BY <1>1, <2>1, <2>2, <2>3 DEF Loose
<1> QED
  BY <1>2, <1>3

LEMMA InvTight == (Inv => SharedTight) /\ (Inv /\ FlightInv => NeedsTight)
  BY InvShared, InvNeeds

LEMMA InvTightNext == (Inv' => SharedTight') /\ (Inv' /\ FlightInv' => NeedsTight')
  BY InvTight, PTL

\* A step that destroys handles touches what has no reference left.
LEMMA ScrubTouches ==
    ASSUME Types, NEW lost, lost \subseteq leaked', Scrub(refs', lost), NEW h \in Handle,
           Touched(h)
    PROVE  Loose(h)'
<1>1. DOMAIN content = Device /\ DOMAIN made = Module \cup Kernel
  BY DEF Types, DataTypes, CodeTypes
<1>2. refs'[h] = 0 \/ h \in lost
  BY <1>1 DEF Scrub, Scrubbed, Touched
<1> QED
  BY <1>2 DEF Loose

LEMMA CachesTouch ==
    ASSUME NEW M, NEW new, Caches(M, new), UNCHANGED content, NEW h \in Handle, Touched(h)
    PROVE  Loose(h)
<1>1. h \in Module \cup Kernel /\ made'[h] # made[h]
  BY DEF Touched
<1>2. PICK s \in M : new[s] = h
  BY <1>1 DEF Caches
<1> QED
  BY <1>2 DEF Caches, New, Loose

LEMMA UntouchedContent ==
    ASSUME UNCHANGED <<content, made>>, NEW h
    PROVE  ~Touched(h)
  BY DEF Touched

LEMMA TicketTouches ==
    ASSUME Inv, Explicit, NEW j \in Job, TicketMove(j), ~DeviceEnds(j), NEW h \in Handle,
           Touched(h)
    PROVE  Loose(h) \/ Loose(h)'
<1>1. /\ Types /\ content \in [Device -> Contents]
      /\ made \in [Module \cup Kernel -> Source \cup {None}]
      /\ pool \in [Handle -> Nat]
  BY DEF Inv, Types, DataTypes, CodeTypes, HandleTypes
<1>2. ~UNCHANGED <<content, made>>
  BY UntouchedContent
<1>3. CASE (\E c \in Chains[j] : Submit(j, c, "queue")) \/ TakesQueue(j) \/ launch(j)
           \/ MovesOn(j)
  BY <1>2, <1>3 DEF Submit, TakesQueue, launch, MovesOn, dataVars, codeVars
<1>4. CASE cached_table(j) \/ take_resident(j) \/ LoadsShared(j)
           \/ \E i \in pending[j] : FreeDuplicateFails(j, i)
  BY <1>2, <1>4 DEF cached_table, take_resident, LoadsShared, FreeDuplicateFails, dataVars,
     codeVars
<1>5. CASE Uploads(j) \/ TakesTransient(j)
  <2>1. PICK d \in Device : /\ Available(d) /\ made' = made
                            /\ \E x : content' = content \/ content' = [content EXCEPT ![d] = x]
    BY <1>5 DEF Uploads, TakesTransient, Obtains
  <2>2. h = d
    BY <1>1, <2>1 DEF Touched
  <2> QED
    BY <2>1, <2>2 DEF Available, New, Loose
<1>6. CASE LoadsCached(j)
  BY <1>6, CachesTouch DEF LoadsCached, dataVars
<1>7. CASE LoadsOwn(j)
  <2>1. PICK k \in Module \cup Kernel : /\ Available(k) /\ content' = content
                                        /\ made' = [made EXCEPT ![k] = NextSource(j)]
    BY <1>7 DEF LoadsOwn, Obtains, dataVars
  <2>2. h = k
    BY <1>1, <2>1 DEF Touched
  <2> QED
    BY <2>1, <2>2 DEF Available, New, Loose
<1>8. ASSUME NEW i \in pending[j], insert_lut(j, i) PROVE Loose(h) \/ Loose(h)'
  <2>1. Scrub(refs', {})
    BY <1>2, <1>8 DEF insert_lut, Destroy
  <2> QED
    BY <1>1, <2>1, ScrubTouches
<1>9. CASE Recycles(j)
  <2>1. PICK others : recycle(j, others)
    BY <1>9 DEF Recycles
  <2> DEFINE kept == IF LastStage(j) THEN {} ELSE {Output(j)}
             back == (Transients(j) \ kept) \cup (held[j] \cap Queue) \cup others
  <2>2. /\ pool' = [x \in Handle |-> pool[x] + (IF x \in back THEN 1 ELSE 0)]
        /\ content' = [d \in Device |-> IF d \in back THEN None ELSE content[d]]
        /\ made' = made
    BY <2>1 DEF recycle, codeVars
  <2> HIDE DEF back
  <2>3. h \in back
    BY <2>2 DEF Touched
  <2>4. pool'[h] > 0
    BY <1>1, <2>2, <2>3
  <2> QED
    BY <2>4 DEF Loose
<1>10. CASE Ends(j)
  <2>1. Scrub(refs', {})
    BY <1>10 DEF Ends, DropEnds, Unwinds, Destroy
  <2> QED
    BY <1>1, <2>1, ScrubTouches
<1>11. CASE Unloads(j)
  <2>1. Scrub(refs', {})
    BY <1>11 DEF Unloads, hip_unload, Destroy
  <2> QED
    BY <1>1, <2>1, ScrubTouches
<1> QED
  BY <1>3, <1>4, <1>5, <1>6, <1>7, <1>8, <1>9, <1>10, <1>11 DEF TicketMove

LEMMA ContextTouches ==
    ASSUME Inv, Explicit, NEW h \in Handle, Touched(h),
           Builds \/ PoolsKernel \/ KeepsStill \/ BeginsClear \/ Clears \/ DropsContext
    PROVE  Loose(h) \/ Loose(h)'
<1>1. Types /\ made \in [Module \cup Kernel -> Source \cup {None}]
  BY DEF Inv, Types, CodeTypes
<1>2. ~UNCHANGED <<content, made>>
  BY UntouchedContent
<1>3. CASE KeepsStill \/ BeginsClear
  BY <1>2, <1>3 DEF KeepsStill, BeginsClear, BeginClear, dataVars, codeVars
<1>4. CASE Builds
  <2>1. PICK M \in SUBSET Source : \E new \in [M -> Module] : Caches(M, new)
    BY <1>4 DEF Builds
  <2>2. PICK new \in [M -> Module] : Caches(M, new)
    BY <2>1
  <2>3. content' = content
    BY <1>4 DEF Builds, dataVars
  <2> QED
    BY <2>2, <2>3, CachesTouch
<1>5. CASE PoolsKernel
  <2>1. PICK k \in Kernel : /\ New(k) /\ content' = content
                            /\ \E s \in Source : made' = [made EXCEPT ![k] = s]
    BY <1>5 DEF PoolsKernel, dataVars
  <2>2. h = k
    BY <1>1, <2>1 DEF Touched
  <2> QED
    BY <2>1, <2>2 DEF New, Loose
<1>6. CASE Clears
  <2>1. PICK S \in SUBSET InPool(Head(clearing)) : Drain(Head(clearing), S)
    BY <1>6 DEF Clears
  <2>2. Scrub(refs', S) /\ S \subseteq leaked'
    BY <2>1 DEF Drain
  <2> QED
    BY <1>1, <2>2, ScrubTouches
<1>7. CASE DropsContext
  <2>1. Scrub(refs', {})
    BY <1>7 DEF DropsContext, DropContext, Destroy
  <2> QED
    BY <1>1, <2>1, ScrubTouches
<1> QED
  BY <1>3, <1>4, <1>5, <1>6, <1>7

LEMMA MetalTouches ==
    ASSUME Inv, ~Explicit, NEW h \in Handle, Touched(h),
           \/ \E j \in Job : MetalMove(j) /\ ~DeviceEnds(j)
           \/ MetalDropContext \/ \E s \in Source : MetalReport(s)
    PROVE  Loose(h) \/ Loose(h)'
<1>1. /\ Types /\ content \in [Device -> Contents]
      /\ made \in [Module \cup Kernel -> Source \cup {None}]
      /\ refs \in [Handle -> Nat] /\ pool \in [Handle -> Nat]
  BY DEF Inv, Types, DataTypes, CodeTypes, HandleTypes
<1>2. ~UNCHANGED <<content, made>>
  BY UntouchedContent
<1>3. ASSUME NEW s \in Source \ Keys(moduleCache), NEW own \in {0, 1}, CompilePipeline(s, own),
             content' = content
      PROVE  Loose(h) \/ Loose(h)'
  <2>1. PICK m \in Module : Pipeline(s, m, own)
    BY <1>3, PipelineCompiled
  <2>2. New(m) /\ \A x \in Module \cup Kernel :
          made'[x] = IF refs'[x] = 0 THEN None ELSE IF x = m THEN s ELSE made[x]
    BY <2>1 DEF Pipeline
  <2>3. h \in Module \cup Kernel /\ (refs'[h] = 0 \/ h = m)
    BY <1>3, <2>2 DEF Touched
  <2> QED
    BY <2>2, <2>3 DEF New, Loose
<1>4. CASE MetalDropContext
  <2>1. Scrub(refs', {})
    BY <1>4 DEF MetalDropContext
  <2> QED
    BY <1>1, <2>1, ScrubTouches
<1>5. ASSUME NEW s \in Source, MetalReport(s) PROVE Loose(h) \/ Loose(h)'
  <2>1. CompilePipeline(s, 0) /\ content' = content /\ s \notin Keys(moduleCache)
    BY <1>5 DEF MetalReport, dataVars
  <2> QED
    BY <1>3, <2>1
<1>6. ASSUME NEW j \in Job, MetalMove(j), ~DeviceEnds(j)
      PROVE  Loose(h) \/ Loose(h)'
  <2>1. CASE (\E c \in Chains[j] : Submit(j, c, "alloc")) \/ MovesOn(j) \/ commit(j)
             \/ metal_cached_table(j) \/ metal_cached_pipeline(j)
    BY <1>2, <2>1 DEF Submit, MovesOn, commit, metal_cached_table, metal_cached_pipeline,
       dataVars, codeVars
  <2>2. CASE take_lookup_buffer(j)
    <3>1. PICK d \in Obtainable(Device) :
             content' = Scrubbed([content EXCEPT ![d] = TheEntry(j)], refs', {})
      BY <2>2 DEF take_lookup_buffer
    <3>2. made' = made /\ Available(d)
      BY <2>2, <3>1, Obtained DEF take_lookup_buffer, codeVars
    <3>3. refs'[h] = 0 \/ h = d
      BY <1>1, <3>1, <3>2 DEF Scrubbed, Touched
    <3> QED
      BY <3>2, <3>3 DEF Available, New, Loose
  <2>3. CASE take_shared_buffer(j)
    <3>1. PICK d \in Obtainable(Device) :
             content' = content \/ content' = [content EXCEPT ![d] = <<j, stage[j] - 1>>]
      BY <2>3 DEF take_shared_buffer
    <3>2. made' = made /\ Available(d)
      BY <2>3, <3>1, Obtained DEF take_shared_buffer, codeVars
    <3>3. h = d
      BY <1>1, <3>1, <3>2 DEF Touched
    <3> QED
      BY <3>2, <3>3 DEF Available, New, Loose
  <2>4. CASE compile_pipeline(j)
    <3>1. /\ CompilePipeline(NextSource(j), 1) /\ content' = content
          /\ NextSource(j) \notin Keys(moduleCache)
      BY <2>4 DEF compile_pipeline, dataVars
    <3>2. NextSource(j) \in Source
      <4>1. PICK m \in Module : Pipeline(NextSource(j), m, 1) /\ LoadsPass(j, m)
        BY <2>4, CompiledLoaded
      <4> QED
        BY <4>1, NextSourceTyped DEF LoadsPass, Inv
    <3> QED
      BY <1>3, <3>1, <3>2
  <2>5. CASE recycle_buffers(j)
    <3>1. PICK gone : Recycled(j, gone)
      BY <2>5, BuffersRecycled
    <3>2. made' = made /\ (phase[j] = "tables" \/ phase[j] = "drop")
      BY <2>5 DEF recycle_buffers, codeVars
    <3>3. h \in Offered(j) \cup gone
      BY <3>1, <3>2 DEF Recycled, Touched
    <3>4. CASE h \notin gone
      <4>1. pool'[h] = pool[h] + 1
        BY <3>1, <3>3, <3>4 DEF Recycled
      <4> QED
        BY <1>1, <4>1 DEF Loose
    <3>5. CASE h \in gone /\ h \in Offered(j) /\ pool[h] = 0
      <4>1. PICK i \in Recyclable(j) : h = memory[j][i]
        BY <3>5 DEF Offered
      <4>2. Transient(j, i)
        BY <4>1 DEF Recyclable, Tables, Transient
      <4>3. refs[h] = 1
        BY <3>2, <4>1, <4>2, SoleUse
      <4>4. refs'[h] = 0
        BY <3>1, <3>5, <4>3 DEF Recycled, Referenced, Minus
      <4> QED
        BY <4>4 DEF Loose
    <3>6. CASE pool[h] > 0
      BY <3>6 DEF Loose
    <3>7. h \in Offered(j) \/ pool[h] > 0
      BY <3>1, <3>3 DEF Recycled, Pooled
    <3> QED
      BY <1>1, <3>4, <3>5, <3>6, <3>7
  <2>6. CASE metal_unwinds(j) \/ MetalReleases(j)
    <3>1. Scrub(refs', {})
      BY <2>6 DEF metal_unwinds, MetalReleases, ReleaseAll
    <3> QED
      BY <1>1, <3>1, ScrubTouches
  <2> QED
    BY <1>6, <2>1, <2>2, <2>3, <2>4, <2>5, <2>6 DEF MetalMove
<1> QED
  BY <1>4, <1>5, <1>6

LEMMA DeviceTouches ==
    ASSUME Types, NEW k \in Job, DeviceEnds(k), NEW h, Touched(h)
    PROVE  h = Output(k)
  BY DEF DeviceEnds, Touched, codeVars, Types, DataTypes

\* Nobody else needs the output that the device is computing.
LEMMA OutputApart ==
    ASSUME Inv, FlightInv, NEW k \in Job, k \in running
    PROVE  /\ Output(k) \notin Shared /\ Output(k) \in Device
           /\ \A j \in Job \ {k} : Output(k) \notin Needs(j)
<1>1. InFlight(k) /\ phase[k] \in Flying
  BY DEF FlightInv, InFlight
<1>2. CASE Explicit
  <2>1. Output(k) \in held[k] /\ held[k] \subseteq Handle /\ TicketOwns(k)
        /\ Len(memory[k]) = Len(Plan(k)) /\ phase[k] # "idle"
    BY <1>1, <1>2 DEF InFlight, Inv, Types, HandleTypes, ExplicitOwned, Flying
  <2>2. OnePlace(Output(k))
    BY <1>2, <2>1 DEF Inv, ExplicitOwned, Ownership
  <2>3. Len(Plan(k)) \in DOMAIN memory[k]
    BY <2>1, CurrentProgram, TicketSequences DEF Inv
  <2>4. Output(k) \in Device
    BY <2>1, <2>3 DEF TicketOwns, Output
  <2>5. Output(k) \notin Shared /\ \A j \in Job \ {k} : Output(k) \notin held[j]
    BY <2>1, <2>2 DEF OnePlace
  <2> QED
    BY <1>2, <2>4, <2>5, NeedsOwned
<1>3. CASE ~Explicit
  <2>1. phase[k] \in Allocated /\ phase[k] # "free"
    BY <1>1, <1>3 DEF Flying, Allocated
  <2>2. Len(Plan(k)) \in DOMAIN memory[k] /\ Transient(k, Len(Plan(k)))
    BY <2>1, OutputPlaced
  <2>3. /\ Output(k) \in Device /\ Output(k) \notin Shared
        /\ Occurrences(memory, Output(k)) = {<<k, Len(Plan(k))>>}
        /\ Occurrences(loaded, Output(k)) = {}
    BY <1>3, <2>1, <2>2, SoleUse DEF Output
  <2>4. ASSUME NEW j \in Job \ {k}, Output(k) \in Needs(j) PROVE FALSE
    <3>1. Output(k) \in ToSet(memory[j]) \cup ToSet(loaded[j])
      BY <1>3, <2>4 DEF Needs, Inv, MetalCounted, MetalTicket
    <3>2. \A f : Output(k) \in ToSet(f[j]) => \E i : <<j, i>> \in Occurrences(f, Output(k))
      BY <2>4, OccurrenceIn DEF ToSet
    <3>3. \E i : <<j, i>> \in {<<k, Len(Plan(k))>>}
      BY <2>3, <3>1, <3>2
    <3> QED
      BY <2>4, <3>3
  <2> QED
    BY <2>3, <2>4
<1> QED
  BY <1>2, <1>3

LEMMA Touches ==
    ASSUME Inv, Next, NEW h \in Handle, Touched(h)
    PROVE  Loose(h) \/ Loose(h)' \/ \E k \in Job : DeviceEnds(k)
<1> SUFFICES ASSUME ~\E k \in Job : DeviceEnds(k) PROVE Loose(h) \/ Loose(h)'
  OBVIOUS
<1>1. CASE Explicit
  BY <1>1, ExplicitMoves, TicketTouches, ContextTouches DEF ExplicitMove
<1>2. CASE ~Explicit
  BY <1>2, MetalMoves, MetalTouches
<1> QED
  BY <1>1, <1>2

\* The contents of what a ticket needs before and after a step stay.
LEMMA Untouched ==
    ASSUME Inv, Inv', FlightInv, FlightInv', Next, NEW j \in Job, ~DeviceEnds(j),
           NEW h \in Handle, h \in Needs(j), h \in Needs(j)'
    PROVE  ~Touched(h)
<1>1. ~Loose(h) /\ ~Loose(h)'
  BY InvTight, InvTightNext DEF NeedsTight
<1>3. ASSUME NEW k \in Job, DeviceEnds(k) PROVE ~Touched(h)
  <2>1. k # j /\ k \in running
    BY <1>3 DEF DeviceEnds
  <2>2. h # Output(k)
    BY <2>1, OutputApart
  <2> QED
    BY <1>3, <2>2, DeviceTouches DEF Inv
<1> QED
  BY <1>1, <1>3, Touches

LEMMA SharedUntouched ==
    ASSUME Inv, Inv', FlightInv, Next, NEW h \in Shared, h \in Shared'
    PROVE  ~Touched(h)
<1>1. h \in Handle /\ ~Loose(h) /\ ~Loose(h)'
  BY InvTight, InvTightNext DEF SharedTight
<1>3. ASSUME NEW k \in Job, DeviceEnds(k) PROVE ~Touched(h)
  <2>1. k \in running
    BY <1>3 DEF DeviceEnds
  <2>2. h # Output(k)
    BY <2>1, OutputApart
  <2> QED
    BY <1>3, <2>2, DeviceTouches DEF Inv
<1> QED
  BY <1>1, <1>3, Touches

\* What the invariant of the results says is said of handles a ticket needs.
ReadsNeeds(j) ==
    /\ \A i \in pending[j] : memory[j][i] \in Needs(j) /\ memory[j][i] \in Device
    /\ phase[j] \in Loads \/ j \in running =>
          /\ \A i \in DOMAIN memory[j] : memory[j][i] \in Needs(j) /\ memory[j][i] \in Device
          /\ \A i \in DOMAIN loaded[j] : /\ loaded[j][i] \in Needs(j)
                                         /\ loaded[j][i] \in Module \cup Kernel
    /\ phase[j] \in {"launch", "pending", "sync", "read", "tables"} =>
          Output(j) \in Needs(j) /\ Output(j) \in Device
    /\ resident[j] # None => resident[j] \in Needs(j) /\ resident[j] \in Device

ReadsTight == \A j \in Job : ReadsNeeds(j)

LEMMA NeedsRead == Inv /\ FlightInv => ReadsTight
<1> SUFFICES ASSUME Inv, FlightInv, NEW j \in Job PROVE ReadsNeeds(j)
  BY DEF ReadsTight
<1>1. \A i \in DOMAIN loaded[j] : loaded[j][i] \in Module \cup Kernel
  BY TicketSequences DEF Inv
<1>2. phase[j] \in {"launch", "pending", "sync", "read", "tables"} =>
         /\ Output(j) \in Device /\ Len(Plan(j)) \in DOMAIN memory[j]
         /\ Explicit => Output(j) \in held[j]
  BY OutputPlaced DEF Allocated
<1>3. resident[j] \in Device \cup {None}
  BY DEF Inv, Types, DataTypes
<1>4. CASE Explicit
  <2>1. TicketOwns(j) /\ held[j] \subseteq Needs(j)
    BY <1>4 DEF Inv, ExplicitOwned, Needs
  <2>2. \A i \in pending[j] : memory[j][i] \in Needs(j) /\ memory[j][i] \in Device
    BY <2>1 DEF TicketOwns
  <2>3. resident[j] # None => resident[j] \in Needs(j) /\ resident[j] \in Device
    BY <1>3, <2>1 DEF TicketOwns
  <2>4. phase[j] \in Loads \/ j \in running =>
          /\ \A i \in DOMAIN memory[j] : memory[j][i] \in Needs(j) /\ memory[j][i] \in Device
          /\ \A i \in DOMAIN loaded[j] : loaded[j][i] \in Needs(j)
    BY <2>1, InToSet DEF TicketOwns, Needs
  <2> QED
    BY <1>1, <1>2, <1>4, <2>1, <2>2, <2>3, <2>4 DEF ReadsNeeds
<1>5. CASE ~Explicit
  <2>1. MetalTicket(j) /\ InFlight(j)
    BY <1>5 DEF Inv, MetalCounted, FlightInv
  <2>2. /\ \A i \in DOMAIN memory[j] : memory[j][i] \in Needs(j)
        /\ \A i \in DOMAIN loaded[j] : loaded[j][i] \in Needs(j)
    BY <1>5, InToSet DEF Needs
  <2>3. phase[j] \in Loads \/ j \in running => phase[j] # "free"
    BY <1>5, <2>1 DEF InFlight, Flying, Loads
  <2>4. phase[j] \in Loads \/ j \in running => \A i \in DOMAIN memory[j] : memory[j][i] \in Device
    BY <2>1, <2>3 DEF MetalTicket
  <2>5. pending[j] = {} /\ resident[j] = None
    BY <2>1 DEF MetalTicket
  <2> QED
    BY <1>1, <1>2, <2>2, <2>4, <2>5 DEF ReadsNeeds, Output
<1> QED
  BY <1>4, <1>5

LEMMA NeedsReadNext == Inv' /\ FlightInv' => ReadsTight'
  BY NeedsRead, PTL

\* Nothing of ticket i changes.
Same(i) ==
    /\ phase'[i] = phase[i] /\ chain'[i] = chain[i] /\ stage'[i] = stage[i]
    /\ count'[i] = count[i] /\ held'[i] = held[i] /\ memory'[i] = memory[i]
    /\ pending'[i] = pending[i] /\ resident'[i] = resident[i]
    /\ loaded'[i] = loaded[i] /\ results'[i] = results[i]
    /\ i \in running' <=> i \in running

LEMMA SameResult ==
    ASSUME Inv, Inv', FlightInv, FlightInv', Next, NEW i \in Job, Same(i), ~DeviceEnds(i),
           ResultInv(i)
    PROVE  ResultInv(i)'
<1>1. backend' = backend
  BY DEF Next
<1>2. /\ Plan(i)' = Plan(i) /\ Passes(i)' = Passes(i) /\ Output(i)' = Output(i)
      /\ LastStage(i)' = LastStage(i) /\ Needs(i)' = Needs(i)
  BY <1>1 DEF Same, Plan, Passes, TheProgram, Output, LastStage, Needs, Explicit
<1>3. ASSUME NEW d \in Device, d \in Needs(i) PROVE content'[d] = content[d]
  BY <1>2, <1>3, Untouched DEF Touched, Handle
<1>4. ASSUME NEW m \in Module \cup Kernel, m \in Needs(i) PROVE made'[m] = made[m]
  BY <1>2, <1>4, Untouched DEF Touched, Handle
<1>5. ReadsNeeds(i)
  BY NeedsRead DEF ReadsTight
<1>6. ASSUME phase[i] \in Loads \/ i \in running PROVE Prepared(i)'
  <2>1. Prepared(i)
    BY <1>6 DEF ResultInv
  <2>2. ASSUME NEW x \in DOMAIN memory[i]
        PROVE  content'[memory[i][x]] = content[memory[i][x]]
    BY <1>3, <1>5, <1>6 DEF ReadsNeeds
  <2>3. ASSUME NEW x \in DOMAIN loaded[i]
        PROVE  made'[loaded[i][x]] = made[loaded[i][x]]
    BY <1>4, <1>5, <1>6 DEF ReadsNeeds
  <2>4. memory'[i] = memory[i] /\ loaded'[i] = loaded[i] /\ stage'[i] = stage[i]
    BY DEF Same
  <2> QED
    BY <1>2, <2>1, <2>2, <2>3, <2>4 DEF Prepared
<1>7. ASSUME phase[i] \in {"launch", "pending", "sync", "read", "tables"}, HasOutput(i)
      PROVE  HasOutput(i)'
  BY <1>2, <1>3, <1>5, <1>7 DEF Same, HasOutput, ReadsNeeds
<1>8. Computed(i)' = Computed(i) /\ (Computed(i) => phase[i] \in {"launch", "pending", "sync"})
  BY <1>2 DEF Same, Computed
<1>9. resident[i] # None => content'[resident[i]] = content[resident[i]]
  BY <1>3, <1>5 DEF ReadsNeeds
<1>10. resident'[i] # None => HandsOn(i)'
  BY <1>9 DEF Same, HandsOn, ResultInv
<1>11. \A x \in pending'[i] : content'[memory'[i][x]] = Plan(i)'[x]
  BY <1>2, <1>3, <1>5 DEF Same, ResultInv, ReadsNeeds
<1> QED
  BY <1>2, <1>6, <1>7, <1>8, <1>10, <1>11 DEF Same, ResultInv

-----------------------------------------------------------------------------
(* The caches hold what their keys say.                                    *)

\* An entry that stays, and a table or a module that is right.
TableRight(k) ==
    \/ k \in Keys(lutCache) /\ lutCache'.entries[k] = lutCache.entries[k]
    \/ content'[lutCache'.entries[k]] = k

ModuleRight(s) ==
    \/ s \in Keys(moduleCache) /\ moduleCache'.entries[s] = moduleCache.entries[s]
    \/ made'[moduleCache'.entries[s]] = s

LEMMA CachesStayRight ==
    ASSUME Inv, Inv', FlightInv, Next, CachesRight,
           \A k \in Keys(lutCache') : TableRight(k),
           \A s \in Keys(moduleCache') : ModuleRight(s)
    PROVE  CachesRight'
<1>1. ASSUME NEW k \in Keys(lutCache') PROVE content'[lutCache'.entries[k]] = k
  <2> DEFINE d == lutCache'.entries[k]
  <2>1. CASE k \in Keys(lutCache) /\ d = lutCache.entries[k]
    <3>1. d \in Shared /\ d \in Shared'
      BY <2>1 DEF Shared, Values, Keys
    <3>2. IsCache(lutCache, Key, Device)
      BY DEF Inv, Types, DataTypes
    <3>3. d \in Device
      BY <2>1, <3>2, CacheEntries
    <3> HIDE DEF d
    <3>4. content'[d] = content[d]
      BY <3>1, <3>3, SharedUntouched DEF Touched
    <3> QED
      BY <2>1, <3>4 DEF CachesRight, d
  <2> QED
    BY <2>1 DEF TableRight
<1>2. ASSUME NEW s \in Keys(moduleCache') PROVE made'[moduleCache'.entries[s]] = s
  <2> DEFINE m == moduleCache'.entries[s]
  <2>1. CASE s \in Keys(moduleCache) /\ m = moduleCache.entries[s]
    <3>1. m \in Shared /\ m \in Shared'
      BY <2>1 DEF Shared, Values, Keys
    <3>2. IsCache(moduleCache, Source, Module)
      BY DEF Inv, Types, CodeTypes
    <3>3. m \in Module
      BY <2>1, <3>2, CacheEntries
    <3> HIDE DEF m
    <3>4. made'[m] = made[m]
      BY <3>1, <3>3, SharedUntouched DEF Touched
    <3> QED
      BY <2>1, <3>4 DEF CachesRight, m
  <2> QED
    BY <2>1 DEF ModuleRight
<1> QED
  BY <1>1, <1>2 DEF CachesRight

LEMMA StillRight ==
    /\ lutCache' = lutCache => \A k \in Keys(lutCache') : TableRight(k)
    /\ moduleCache' = moduleCache => \A s \in Keys(moduleCache') : ModuleRight(s)
    /\ lutCache' = EmptyCache => \A k \in Keys(lutCache') : TableRight(k)
    /\ moduleCache' = EmptyCache => \A s \in Keys(moduleCache') : ModuleRight(s)
<1>1. Keys(EmptyCache) = {}
  BY EmptyIsCache
<1> QED
  BY <1>1 DEF TableRight, ModuleRight

LEMMA CachesRightly ==
    ASSUME NEW M, NEW new, Caches(M, new), NEW s \in Keys(moduleCache')
    PROVE  ModuleRight(s)
  BY DEF Caches, ModuleRight

LEMMA TicketRight ==
    ASSUME Inv, Explicit, NEW j \in Job, TicketMove(j), ResultInv(j)
    PROVE  /\ \A k \in Keys(lutCache') : TableRight(k)
           /\ \A s \in Keys(moduleCache') : ModuleRight(s)
<1>1. ASSUME UNCHANGED <<lutCache, moduleCache>>
      PROVE  /\ \A k \in Keys(lutCache') : TableRight(k)
             /\ \A s \in Keys(moduleCache') : ModuleRight(s)
  BY <1>1, StillRight
<1>2. CASE LoadsCached(j)
  <2>1. PICK new \in [{NextSource(j)} -> Module] : Caches({NextSource(j)}, new)
    BY <1>2 DEF LoadsCached
  <2>2. lutCache' = lutCache
    BY <1>2 DEF LoadsCached, dataVars
  <2> QED
    BY <2>1, <2>2, StillRight, CachesRightly
<1>3. ASSUME NEW i \in pending[j], insert_lut(j, i)
      PROVE  /\ \A k \in Keys(lutCache') : TableRight(k)
             /\ \A s \in Keys(moduleCache') : ModuleRight(s)
  <2>1. moduleCache' = moduleCache
    BY <1>3 DEF insert_lut
  <2>2. CASE lutCache' = lutCache
    BY <2>1, <2>2, StillRight
  <2>3. CASE lutCache' # lutCache
    <3>1. /\ Plan(j)[i] \notin Keys(lutCache) /\ content' = content
          /\ lutCache' = InsertIfVacant(lutCache, Plan(j)[i], memory[j][i])
      BY <1>3, <2>3 DEF insert_lut
    <3>2. Plan(j)[i] \in Key /\ memory[j][i] \in Device
      BY DEF Inv, ExplicitOwned, TicketOwns
    <3>3. Extends(lutCache', lutCache, Plan(j)[i], memory[j][i])
      BY <3>1, <3>2, InsertExtends DEF Inv, Types, DataTypes
    <3>4. content[memory[j][i]] = Plan(j)[i]
      BY DEF ResultInv
    <3>5. \A k \in Keys(lutCache') : TableRight(k)
      BY <3>1, <3>3, <3>4 DEF Extends, TableRight
    <3> QED
      BY <2>1, <3>5, StillRight
  <2> QED
    BY <2>2, <2>3
<1>5. CASE \/ \E c \in Chains[j] : Submit(j, c, "queue")
           \/ TakesQueue(j) \/ launch(j) \/ DeviceEnds(j)
  BY <1>1, <1>5 DEF Submit, TakesQueue, launch, DeviceEnds, dataVars, codeVars
<1>6. CASE cached_table(j) \/ Uploads(j) \/ TakesTransient(j) \/ take_resident(j)
  BY <1>1, <1>6 DEF cached_table, Uploads, TakesTransient, take_resident, codeVars
<1>7. CASE MovesOn(j) \/ LoadsShared(j) \/ LoadsOwn(j)
  BY <1>1, <1>7 DEF MovesOn, LoadsShared, LoadsOwn, dataVars
<1>8. CASE Recycles(j) \/ Ends(j) \/ \E i \in pending[j] : FreeDuplicateFails(j, i)
  BY <1>1, <1>8 DEF Recycles, recycle, Ends, DropEnds, Unwinds, FreeDuplicateFails, codeVars
<1>9. CASE Unloads(j)
  BY <1>1, <1>9 DEF Unloads, hip_unload
<1> QED
  BY <1>2, <1>3, <1>5, <1>6, <1>7, <1>8, <1>9 DEF TicketMove

LEMMA ContextRight ==
    ASSUME Inv, Explicit,
           Builds \/ PoolsKernel \/ KeepsStill \/ BeginsClear \/ Clears \/ DropsContext
    PROVE  /\ \A k \in Keys(lutCache') : TableRight(k)
           /\ \A s \in Keys(moduleCache') : ModuleRight(s)
<1>1. CASE Builds
  <2>1. PICK M \in SUBSET Source : \E new \in [M -> Module] : Caches(M, new)
    BY <1>1 DEF Builds
  <2>2. PICK new \in [M -> Module] : Caches(M, new)
    BY <2>1
  <2>3. lutCache' = lutCache
    BY <1>1 DEF Builds, dataVars
  <2> QED
    BY <2>2, <2>3, StillRight, CachesRightly
<1>2. CASE PoolsKernel \/ KeepsStill \/ BeginsClear
  BY <1>2, StillRight DEF PoolsKernel, KeepsStill, BeginsClear, BeginClear, dataVars, codeVars
<1>3. CASE Clears
  <2>1. PICK p : /\ lutCache' = IF p = "lut" THEN EmptyCache ELSE lutCache
                 /\ moduleCache' = IF p = "module" THEN EmptyCache ELSE moduleCache
    BY <1>3 DEF Clears, Drain
  <2> QED
    BY <2>1, StillRight
<1>4. CASE DropsContext
  BY <1>4, StillRight DEF DropsContext, DropContext
<1> QED
  BY <1>1, <1>2, <1>3, <1>4

LEMMA MetalRight ==
    ASSUME Inv, Inv', ~Explicit, Next
    PROVE  /\ \A k \in Keys(lutCache') : TableRight(k)
           /\ \A s \in Keys(moduleCache') : ModuleRight(s)
<1>1. \A h \in Shared' : refs'[h] # 0
  BY InvTightNext DEF SharedTight, Loose
<1>2. ASSUME NEW s \in Source, NEW m \in Module, NEW own, Pipeline(s, m, own),
             NEW t \in Keys(moduleCache')
      PROVE  ModuleRight(t)
  <2>1. moduleCache' = moduleCache \/ Replaces(moduleCache', moduleCache, s, m)
    BY <1>2 DEF Pipeline
  <2>2. CASE moduleCache'.entries[t] = m /\ t = s
    <3>1. m \in Shared'
      BY <2>2 DEF Shared, Values, Keys
    <3>2. made'[m] = s
      BY <1>1, <1>2, <3>1 DEF Pipeline
    <3> QED
      BY <2>2, <3>2 DEF ModuleRight
  <2> QED
    BY <2>1, <2>2, StillRight DEF Replaces, ModuleRight
<1>3. ASSUME NEW s \in Source, MetalReport(s) PROVE \A t \in Keys(moduleCache') : ModuleRight(t)
  <2>1. CompilePipeline(s, 0) /\ s \notin Keys(moduleCache)
    BY <1>3 DEF MetalReport
  <2>2. \E m \in Module : Pipeline(s, m, 0)
    BY <2>1, PipelineCompiled
  <2> QED
    BY <1>2, <2>2
<1>4. CASE MetalDropContext
  BY <1>4, StillRight DEF MetalDropContext
<1>5. ASSUME NEW j \in Job, MetalMove(j)
      PROVE  /\ \A k \in Keys(lutCache') : TableRight(k)
             /\ \A s \in Keys(moduleCache') : ModuleRight(s)
  <2>1. CASE (\E c \in Chains[j] : Submit(j, c, "alloc")) \/ MovesOn(j) \/ commit(j)
             \/ DeviceEnds(j)
    BY <2>1, StillRight DEF Submit, MovesOn, commit, DeviceEnds, dataVars, codeVars
  <2>2. CASE metal_cached_table(j) \/ take_shared_buffer(j) \/ metal_cached_pipeline(j)
    BY <2>2, StillRight DEF metal_cached_table, take_shared_buffer, metal_cached_pipeline,
       dataVars, codeVars
  <2>3. CASE recycle_buffers(j) \/ metal_unwinds(j) \/ MetalReleases(j)
    BY <2>3, StillRight DEF recycle_buffers, metal_unwinds, MetalReleases, codeVars
  <2>4. CASE take_lookup_buffer(j)
    <3>1. PICK d \in Device : Lookup(j, d)
      BY <2>4, LookupTaken
    <3>2. moduleCache' = moduleCache
      BY <2>4 DEF take_lookup_buffer, codeVars
    <3>3. ASSUME NEW k \in Keys(lutCache') PROVE TableRight(k)
      <4>1. lutCache' = lutCache \/ Replaces(lutCache', lutCache, TheEntry(j), d)
        BY <3>1 DEF Lookup
      <4>2. CASE lutCache'.entries[k] = d /\ k = TheEntry(j)
        <5>1. d \in Shared'
          BY <4>2 DEF Shared, Values, Keys
        <5>2. content'[d] = TheEntry(j)
          BY <1>1, <3>1, <5>1 DEF Lookup
        <5> QED
          BY <4>2, <5>2 DEF TableRight
      <4> QED
        BY <4>1, <4>2, StillRight DEF Replaces, TableRight
    <3> QED
      BY <3>2, <3>3, StillRight
  <2>5. CASE compile_pipeline(j)
    <3>1. PICK m \in Module : Pipeline(NextSource(j), m, 1) /\ LoadsPass(j, m)
      BY <2>5, CompiledLoaded
    <3>2. NextSource(j) \in Source
      BY <3>1, NextSourceTyped DEF LoadsPass, Inv
    <3>3. lutCache' = lutCache
      BY <2>5 DEF compile_pipeline, dataVars
    <3> QED
      BY <1>2, <3>1, <3>2, <3>3, StillRight
  <2> QED
    BY <1>5, <2>1, <2>2, <2>3, <2>4, <2>5 DEF MetalMove
<1>6. ASSUME NEW s \in Source, MetalReport(s) PROVE lutCache' = lutCache
  BY <1>6 DEF MetalReport, dataVars
<1> QED
  BY <1>3, <1>4, <1>5, <1>6, MetalMoves, StillRight

-----------------------------------------------------------------------------
(* The results of the ticket that moves.                                   *)

\* One more buffer, with what it is for.
LEMMA PlacedResult ==
    ASSUME Inv, Inv', FlightInv, FlightInv', Next, NEW j \in Job, ~DeviceEnds(j),
           ResultInv(j), NEW d \in Device, Allocating(j), Place(j, d),
           UNCHANGED <<phase, chain, stage, loaded, running>>,
           TheEntry(j) \in Key => content'[d] = TheEntry(j),
           TheEntry(j) = "input" => content'[d] = <<j, stage[j] - 1>>,
           pending'[j] \subseteq pending[j] \cup {Index(j)},
           Index(j) \in pending'[j] => TheEntry(j) \in Key,
           resident'[j] \in {None, resident[j]}
    PROVE  ResultInv(j)'
<1>1. /\ Flow(j) /\ phase[j] = "alloc" /\ phase'[j] = "alloc" /\ loaded[j] = << >>
      /\ count[j] = Len(memory[j])
  BY DEF Inv, Control, Flow, Allocating, At
<1>2. j \notin running /\ j \notin running'
  BY <1>1 DEF FlightInv, InFlight, Flying
<1>3. /\ DOMAIN memory'[j] = DOMAIN memory[j] \cup {Index(j)}
      /\ memory'[j][Index(j)] = d
      /\ \A x \in DOMAIN memory[j] : memory'[j][x] = memory[j][x]
  BY <1>1, Placed DEF Inv, Index
<1>4. Plan(j)' = Plan(j) /\ Passes(j)' = Passes(j) /\ TheEntry(j) = Plan(j)[Index(j)]
  BY DEF Plan, Passes, TheProgram, TheEntry
<1>5. ReadsNeeds(j) /\ ReadsNeeds(j)'
  BY NeedsRead, NeedsReadNext DEF ReadsTight
<1>6. ASSUME NEW x \in Device, x \in Needs(j), x \in Needs(j)'
      PROVE  content'[x] = content[x]
  BY <1>6, Untouched DEF Touched, Handle
<1>7. ASSUME NEW x \in DOMAIN memory[j]
      PROVE  content'[memory'[j][x]] = content[memory[j][x]]
  <2>1. memory[j][x] \in Needs(j) /\ memory[j][x] \in Device
    BY <1>1, <1>5 DEF ReadsNeeds, Loads
  <2>2. memory'[j][x] \in Needs(j)' /\ memory'[j][x] = memory[j][x]
    BY <1>1, <1>3, <1>5 DEF ReadsNeeds, Loads
  <2> QED
    BY <1>6, <2>1, <2>2
<1>8. Prepared(j)
  BY <1>1 DEF ResultInv, Loads
<1>9. ASSUME NEW x \in DOMAIN memory'[j]
      PROVE  /\ Plan(j)[x] \in Key => content'[memory'[j][x]] = Plan(j)[x]
             /\ Plan(j)[x] = "input" => content'[memory'[j][x]] = <<j, stage[j] - 1>>
  <2>1. CASE x \in DOMAIN memory[j]
    BY <1>7, <1>8, <2>1 DEF Prepared
  <2>2. CASE x = Index(j)
    BY <1>3, <1>4, <2>2
  <2> QED
    BY <1>3, <2>1, <2>2
<1>10. Prepared(j)'
  BY <1>1, <1>4, <1>9 DEF Prepared
<1>11. ASSUME NEW x \in pending'[j] PROVE content'[memory'[j][x]] = Plan(j)[x]
  <2>1. CASE x \in pending[j]
    <3>1. x \in DOMAIN memory[j]
      BY <1>1, <2>1 DEF Flow
    <3> QED
      BY <1>7, <2>1, <3>1 DEF ResultInv
  <2>2. CASE x = Index(j)
    BY <1>3, <1>4, <2>2
  <2> QED
    BY <2>1, <2>2
<1>12. resident'[j] # None => HandsOn(j)'
  <2>1. ASSUME resident'[j] # None PROVE content'[resident[j]] = <<j, stage[j] - 1>>
    <3>1. resident[j] # None /\ resident'[j] = resident[j]
      BY <2>1
    <3>2. content'[resident[j]] = content[resident[j]]
      BY <1>5, <1>6, <3>1 DEF ReadsNeeds
    <3> QED
      BY <1>1, <3>1, <3>2 DEF ResultInv, HandsOn
  <2> QED
    BY <1>1, <2>1 DEF HandsOn
<1> QED
  BY <1>1, <1>2, <1>4, <1>10, <1>11, <1>12 DEF ResultInv, Computed

\* One more pass, with the code of its source.
LEMMA LoadedResult ==
    ASSUME Inv, Inv', FlightInv, FlightInv', Next, NEW j \in Job, ~DeviceEnds(j),
           ResultInv(j), NEW h \in Module \cup Kernel, LoadsPass(j, h),
           UNCHANGED <<memory, pending, resident, content, running>>,
           made'[h] = NextSource(j)
    PROVE  ResultInv(j)'
<1>1. /\ Types /\ Flow(j) /\ phase[j] \in {"module", "compiled"} /\ phase'[j] = "module"
      /\ count[j] = Len(loaded[j]) /\ UNCHANGED <<chain, stage>>
      /\ DOMAIN loaded'[j] = DOMAIN loaded[j] \cup {Len(loaded[j]) + 1}
      /\ loaded'[j][Len(loaded[j]) + 1] = h
      /\ \A x \in DOMAIN loaded[j] : loaded'[j][x] = loaded[j][x]
  BY PassLoaded DEF Inv, Control, Flow, LoadsPass, Loaded, Continue
<1>2. j \notin running /\ j \notin running'
  BY <1>1 DEF FlightInv, InFlight, Flying
<1>3. Plan(j)' = Plan(j) /\ Passes(j)' = Passes(j) /\ NextSource(j) = Passes(j)[Len(loaded[j]) + 1]
  BY <1>1 DEF Plan, Passes, TheProgram, NextSource, Index
<1>4. ReadsNeeds(j) /\ ReadsNeeds(j)'
  BY NeedsRead, NeedsReadNext DEF ReadsTight
<1>5. ASSUME NEW x \in DOMAIN loaded[j]
      PROVE  made'[loaded'[j][x]] = made[loaded[j][x]]
  <2>1. loaded[j][x] \in Needs(j) /\ loaded[j][x] \in Module \cup Kernel
    BY <1>1, <1>4 DEF ReadsNeeds, Loads
  <2>2. loaded'[j][x] \in Needs(j)' /\ loaded'[j][x] = loaded[j][x]
    BY <1>1, <1>4 DEF ReadsNeeds, Loads
  <2> QED
    BY <2>1, <2>2, Untouched DEF Touched, Handle
<1>6. Prepared(j)
  BY <1>1 DEF ResultInv, Loads
<1>7. ASSUME NEW x \in DOMAIN loaded'[j]
      PROVE  made'[loaded'[j][x]] = Passes(j)[x]
  <2>1. CASE x \in DOMAIN loaded[j]
    BY <1>5, <1>6, <2>1 DEF Prepared
  <2>2. CASE x = Len(loaded[j]) + 1
    BY <1>1, <1>3, <2>2
  <2> QED
    BY <1>1, <2>1, <2>2
<1>8. Prepared(j)'
  BY <1>1, <1>3, <1>6, <1>7 DEF Prepared
<1>9. resident'[j] = None
  <2>1. CASE Explicit
    <3>1. TicketOwns(j)
      BY <2>1 DEF Inv, ExplicitOwned
    <3> QED
      BY <1>1, <3>1 DEF TicketOwns
  <2>2. CASE ~Explicit
    BY <2>2 DEF Inv, MetalCounted, MetalTicket
  <2> QED
    BY <2>1, <2>2
<1> QED
  BY <1>1, <1>2, <1>3, <1>8, <1>9 DEF ResultInv, Computed

\* The device ends with the output, if it works from what was prepared.
LEMMA ComputedResult ==
    ASSUME Inv, Inv', FlightInv, FlightInv', NEW j \in Job, DeviceEnds(j), ResultInv(j)
    PROVE  ResultInv(j)'
<1>1. /\ j \in running /\ j \notin running' /\ Types /\ Flow(j) /\ InFlight(j)
      /\ UNCHANGED <<phase, chain, stage, count, memory, pending, resident, loaded, made, results>>
      /\ content' = [content EXCEPT ![Output(j)] = IF Computes(j) THEN <<j, stage[j]>> ELSE None]
      /\ content \in [Device -> Contents]
  BY DEF DeviceEnds, flowVars, codeVars, restVars, Inv, Control, Types, DataTypes, FlightInv
<1>2. /\ Plan(j)' = Plan(j) /\ Passes(j)' = Passes(j) /\ Output(j)' = Output(j)
      /\ LastStage(j)' = LastStage(j)
  <2>1. UNCHANGED <<chain, stage, memory>>
    BY <1>1
  <2> QED
    BY <2>1 DEF Plan, Passes, TheProgram, Output, LastStage
<1>3. Output(j) \in Device
  BY <1>1, OutputApart
<1>4. /\ phase[j] \in Flying /\ phase[j] # "idle" /\ Len(memory[j]) = Len(Plan(j))
      /\ DOMAIN Plan(j) = DOMAIN memory[j] /\ DOMAIN memory[j] = 1 .. Len(memory[j])
      /\ DOMAIN Passes(j) = 1 .. Len(Passes(j)) /\ Prepared(j)
      /\ DOMAIN loaded[j] = 1 .. Len(loaded[j]) /\ Len(Plan(j)) \in DOMAIN memory[j]
      /\ Plan(j)[Len(Plan(j))] = "device"
  <2>1. phase[j] \in Flying /\ phase[j] # "idle" /\ Len(memory[j]) = Len(Plan(j)) /\ Prepared(j)
    BY <1>1 DEF InFlight, Flying, ResultInv
  <2>2. /\ DOMAIN Plan(j) = 1 .. Len(Plan(j)) /\ DOMAIN Passes(j) = 1 .. Len(Passes(j))
        /\ Len(Plan(j)) \in Nat \ {0} /\ Plan(j)[Len(Plan(j))] = "device"
    BY <2>1, CurrentProgram DEF Inv
  <2>3. DOMAIN memory[j] = 1 .. Len(memory[j]) /\ DOMAIN loaded[j] = 1 .. Len(loaded[j])
    BY TicketSequences DEF Inv
  <2> QED
    BY <2>1, <2>2, <2>3
<1>5. ASSUME Computed(j) PROVE HasOutput(j)'
  <2>1. phase[j] \in LoadedAll /\ count[j] = Len(Passes(j))
    BY <1>1, <1>5 DEF Computed, LoadedAll, Allocated, Flow
  <2>2. DOMAIN Passes(j) = DOMAIN loaded[j]
    <3>1. Len(loaded[j]) = Len(Passes(j))
      BY <1>1, <2>1 DEF Flow
    <3> QED
      BY <1>4, <3>1
  <2>3. Computes(j)
    BY <1>4, <2>1, <2>2 DEF Prepared, Computes, Tables
  <2> QED
    BY <1>1, <1>2, <1>3, <2>3 DEF HasOutput
<1>6. ASSUME NEW x \in DOMAIN memory[j], Plan(j)[x] # "device",
             Explicit /\ memory[j][x] = Output(j) => x = Len(Plan(j))
      PROVE  content'[memory[j][x]] = content[memory[j][x]]
  <2>1. memory[j][x] # Output(j)
    <3>1. CASE Explicit
      BY <1>4, <1>6, <3>1
    <3>2. CASE ~Explicit
      <4>1. phase[j] \in Allocated /\ phase[j] # "free"
        BY <1>4, <3>2 DEF Flying, Allocated
      <4>2. Transient(j, Len(Plan(j)))
        BY <4>1, OutputPlaced
      <4>3. Occurrences(memory, Output(j)) = {<<j, Len(Plan(j))>>}
        BY <3>2, <4>1, <4>2, SoleUse DEF Output
      <4>4. memory[j][x] = Output(j) => <<j, x>> \in Occurrences(memory, Output(j))
        BY <1>6, OccurrenceIn
      <4> QED
        BY <1>4, <1>6, <4>3, <4>4
    <3> QED
      BY <3>1, <3>2
  <2> QED
    BY <1>1, <2>1
<1>7. ASSUME phase[j] \in Loads PROVE Prepared(j)'
  <2>1. ASSUME NEW x \in DOMAIN memory[j] PROVE Explicit /\ memory[j][x] = Output(j) => x = Len(Plan(j))
    <3>1. ASSUME Explicit PROVE TicketOwns(j) /\ phase[j] \in Working
      BY <1>4, <1>7, <3>1 DEF Inv, ExplicitOwned, Working, Allocated, Loads
    <3>2. Transient(j, Len(Plan(j)))
      BY <1>4, NativeAssumption DEF Transient
    <3> QED
      BY <1>4, <3>1, <3>2 DEF TicketOwns, Output
  <2>2. ASSUME NEW x \in DOMAIN memory[j], Plan(j)[x] # "device"
        PROVE  content'[memory[j][x]] = content[memory[j][x]]
    BY <1>6, <2>1, <2>2
  <2>3. Key \cap {"input", "device"} = {}
    BY NativeAssumption
  <2>4. UNCHANGED <<stage, memory, loaded, made>>
    BY <1>1
  <2>5. ASSUME NEW x \in DOMAIN memory[j]
        PROVE  /\ Plan(j)[x] \in Key => content'[memory[j][x]] = Plan(j)[x]
               /\ Plan(j)[x] = "input" => content'[memory[j][x]] = <<j, stage[j] - 1>>
    BY <1>4, <2>2, <2>3 DEF Prepared
  <2>6. \A x \in DOMAIN loaded[j] : made[loaded[j][x]] = Passes(j)[x]
    BY <1>4 DEF Prepared
  <2> QED
    BY <1>2, <2>4, <2>5, <2>6 DEF Prepared
<1>8. ASSUME NEW x \in pending[j] PROVE content'[memory[j][x]] = content[memory[j][x]]
  <2>1. x \in DOMAIN memory[j]
    BY <1>1, <1>8 DEF Flow
  <2>2. CASE Explicit
    <3>1. TicketOwns(j)
      BY <2>2 DEF Inv, ExplicitOwned
    <3>2. Plan(j)[x] \in Key /\ \A l \in DOMAIN memory[j] : memory[j][l] = memory[j][x] => l = x
      BY <3>1, <1>8 DEF TicketOwns
    <3>3. memory[j][x] = Output(j) => x = Len(Plan(j))
      BY <1>4, <3>2 DEF Output
    <3> QED
      BY <1>6, <2>1, <3>2, <3>3, NativeAssumption
  <2>3. CASE ~Explicit
    BY <1>8, <2>3 DEF Inv, MetalCounted, MetalTicket
  <2> QED
    BY <2>2, <2>3
<1>9. resident[j] # None => phase[j] = "unwind"
  <2>1. CASE Explicit
    <3>1. TicketOwns(j)
      BY <2>1 DEF Inv, ExplicitOwned
    <3> QED
      BY <1>4, <2>1, <3>1 DEF TicketOwns, Flying
  <2>2. CASE ~Explicit
    BY <2>2 DEF Inv, MetalCounted, MetalTicket
  <2> QED
    BY <2>1, <2>2
<1>10. Computed(j)' = Computed(j) /\ phase[j] \notin {"read", "tables"}
  BY <1>1, <1>2, <1>4 DEF Computed, Flying
<1>11. \A x \in pending'[j] : content'[memory'[j][x]] = Plan(j)'[x]
  BY <1>1, <1>2, <1>8 DEF ResultInv
<1>12. resident'[j] # None => HandsOn(j)'
  BY <1>1, <1>9 DEF HandsOn
<1> QED
  BY <1>1, <1>5, <1>7, <1>10, <1>11, <1>12 DEF ResultInv

\* Nothing is said of a ticket that has nothing to hand on.
LEMMA OverResult ==
    ASSUME NEW j \in Job, j \notin running', pending'[j] = {}, resident'[j] = None,
           phase'[j] \in {"idle", "queue", "unwind", "drop", "dropQueue", "free"}
    PROVE  ResultInv(j)'
  BY DEF ResultInv, Loads, Computed

\* Where the output of a program waits for the next one.
LEMMA ResidentPhases ==
    ASSUME Inv, NEW j \in Job, resident[j] # None
    PROVE  Explicit /\ phase[j] \in {"queue", "alloc", "unwind", "free"}
<1>1. CASE Explicit
  <2>1. TicketOwns(j)
    BY <1>1 DEF Inv, ExplicitOwned
  <2> QED
    BY <1>1, <2>1 DEF TicketOwns
<1>2. CASE ~Explicit
  BY <1>2 DEF Inv, MetalCounted, MetalTicket
<1> QED
  BY <1>1, <1>2

LEMMA SubmitResult ==
    ASSUME Inv, FlightInv, NEW j \in Job, NEW c, NEW p \in {"queue", "alloc"},
           Submit(j, c, p)
    PROVE  ResultInv(j)'
<1>1. /\ phase[j] = "idle" /\ phase'[j] = p
      /\ UNCHANGED <<memory, loaded, pending, resident, running>>
  BY DEF Inv, Types, CallTypes, Submit, Goto, dataVars, codeVars, gpuVars
<1>2. memory[j] = << >> /\ loaded[j] = << >> /\ pending[j] = {}
  BY <1>1 DEF Inv, Control, Flow
<1>3. resident[j] = None
  BY <1>1, ResidentPhases
<1>4. j \notin running
  BY <1>1 DEF FlightInv, InFlight, Flying
<1>5. DOMAIN memory'[j] = {} /\ DOMAIN loaded'[j] = {}
  BY <1>1, <1>2
<1>6. Prepared(j)'
  BY <1>5 DEF Prepared
<1> QED
  BY <1>1, <1>2, <1>3, <1>4, <1>6 DEF ResultInv, Computed

\* Steps that only move on.
LEMMA QuietResult ==
    ASSUME Inv, FlightInv, NEW j \in Job, ResultInv(j), backend' = backend,
           MovesOn(j) \/ launch(j) \/ commit(j) \/ TakesQueue(j)
    PROVE  ResultInv(j)'
<1>1. /\ Types /\ Control /\ Flow(j) /\ phase \in [Job -> Phases] /\ count \in [Job -> Nat]
      /\ results \in [Job -> Contents]
  BY DEF Inv, Control, Types, CallTypes, RestTypes
<1>2. /\ UNCHANGED <<chain, stage, memory, loaded, pending, resident>>
      /\ UNCHANGED <<content, made>>
  BY DEF MovesOn, launch, commit, TakesQueue, Continue, dataVars, codeVars
<1>3. /\ Plan(j)' = Plan(j) /\ Passes(j)' = Passes(j) /\ Output(j)' = Output(j)
      /\ LastStage(j)' = LastStage(j)
  BY <1>2 DEF Plan, Passes, TheProgram, Output, LastStage
<1>4. /\ HasOutput(j)' = HasOutput(j)
      /\ \A x \in pending'[j] : content'[memory'[j][x]] = Plan(j)'[x]
  BY <1>2, <1>3 DEF HasOutput, ResultInv
<1>5. Prepared(j)' = Prepared(j)
  BY <1>2, <1>3 DEF Prepared
<1>6. CASE MovesOn(j)
  <2>1. PICK q \in Phases, n \in Nat :
           /\ Passage(j, q, n) /\ phase' = [phase EXCEPT ![j] = q]
           /\ count' = [count EXCEPT ![j] = n]
           /\ results' = IF phase[j] = "read" /\ q = "tables"
                         THEN [results EXCEPT ![j] = content[Output(j)]] ELSE results
    BY <1>6 DEF MovesOn
  <2>2. phase'[j] = q /\ count'[j] = n /\ running' = running
    BY <1>1, <1>6, <2>1 DEF MovesOn, gpuVars
  <2>3. q \in Loads => phase[j] \in Loads
    BY <2>1 DEF Passage, Loads, SubmitPhases
  <2>4. phase[j] # "idle" => Len(Passes(j)) # 0
    BY <1>1, CurrentProgram
  <2>5. ASSUME Computed(j)', j \notin running PROVE HasOutput(j)
    <3>1. \/ q \in {"pending", "sync"}
          \/ q = "launch" /\ n = Len(Passes(j))
      BY <1>3, <2>2, <2>5 DEF Computed
    <3>2. Computed(j)
      BY <2>1, <2>4, <3>1 DEF Passage, Computed
    <3> QED
      BY <2>5, <3>2 DEF ResultInv
  <2>6. ASSUME q \in {"read", "tables"} PROVE HasOutput(j)
    <3>1. \/ phase[j] = "sync" /\ j \notin running
          \/ phase[j] = "read"
      BY <2>1, <2>6 DEF Passage
    <3> QED
      BY <3>1 DEF ResultInv, Computed
  <2>7. ASSUME q = "tables", LastStage(j) PROVE results'[j] = <<j, stage[j]>>
    <3>1. phase[j] = "read"
      BY <2>1, <2>7 DEF Passage
    <3>2. results'[j] = content[Output(j)]
      BY <1>1, <2>1, <2>7, <3>1
    <3> QED
      BY <2>6, <2>7, <3>2 DEF HasOutput
  <2>8. resident'[j] # None => HandsOn(j)'
    <3>1. ASSUME resident[j] # None PROVE HandsOn(j)'
      <4>1. phase[j] \in {"queue", "alloc", "unwind", "free"}
        BY <3>1, ResidentPhases
      <4>2. q \in {"module", "unwind"} /\ (q = "module" => count[j] = Len(Plan(j)))
        BY <2>1, <4>1 DEF Passage
      <4>3. q # "module"
        <5>1. ASSUME q = "module" PROVE FALSE
          <6>1. phase[j] = "alloc" /\ count[j] = Len(Plan(j)) /\ Len(memory[j]) = Len(Plan(j))
            BY <1>1, <2>1, <5>1 DEF Passage, Flow, SubmitPhases
          <6>2. TicketOwns(j)
            BY <3>1, ResidentPhases DEF Inv, ExplicitOwned
          <6>3. \E i \in DOMAIN Plan(j) : Plan(j)[i] = "input"
            BY <1>1, <6>1, CurrentProgram
          <6>4. DOMAIN Plan(j) = DOMAIN memory[j]
            <7>1. DOMAIN Plan(j) = 1 .. Len(Plan(j)) /\ DOMAIN memory[j] = 1 .. Len(memory[j])
              BY <1>1, <6>1, CurrentProgram, TicketSequences
            <7> QED
              BY <6>1, <7>1
          <6> QED
            BY <3>1, <6>1, <6>2, <6>3, <6>4 DEF TicketOwns
        <5> QED
          BY <5>1
      <4> QED
        BY <2>2, <4>2, <4>3 DEF HandsOn
    <3> QED
      BY <1>2, <3>1
  <2> QED
    BY <1>2, <1>3, <1>4, <1>5, <2>2, <2>3, <2>5, <2>6, <2>7, <2>8 DEF ResultInv
<1>7. CASE launch(j)
  <2>1. phase' = phase /\ phase[j] = "launch" /\ j \in running'
    BY <1>7 DEF launch, At
  <2>2. resident'[j] = None
    BY <1>2, <2>1, ResidentPhases
  <2> QED
    BY <1>4, <1>5, <2>1, <2>2 DEF ResultInv, Loads
<1>8. CASE commit(j)
  <2>1. phase'[j] = "pending" /\ phase[j] = "module" /\ j \in running'
    BY <1>1, <1>8 DEF commit, At, Goto
  <2>2. resident'[j] = None
    BY <1>2, <2>1, ResidentPhases
  <2> QED
    BY <1>4, <1>5, <2>1, <2>2 DEF ResultInv, Loads
<1>9. CASE TakesQueue(j)
  <2>1. phase[j] = "queue" /\ phase'[j] = "alloc" /\ running' = running
    BY <1>1, <1>9 DEF TakesQueue, At, Continue, Goto, gpuVars
  <2>2. memory[j] = << >> /\ loaded[j] = << >>
    BY <1>1, <2>1 DEF Flow
  <2>3. Prepared(j)
    <3>1. DOMAIN memory[j] = {} /\ DOMAIN loaded[j] = {}
      BY <2>2
    <3> QED
      BY <3>1 DEF Prepared
  <2>4. j \notin running
    BY <2>1 DEF FlightInv, InFlight, Flying
  <2>5. resident'[j] # None => HandsOn(j)'
    BY <1>2, <2>1 DEF ResultInv, HandsOn
  <2> QED
    BY <1>4, <1>5, <2>1, <2>3, <2>4, <2>5 DEF ResultInv, Computed
<1> QED
  BY <1>6, <1>7, <1>8, <1>9

\* Allocations.
LEMMA PlacesResult ==
    ASSUME Inv, Inv', FlightInv, FlightInv', Next, NEW j \in Job, ResultInv(j), CachesRight,
           \/ cached_table(j) \/ Uploads(j) \/ TakesTransient(j) \/ take_resident(j)
           \/ metal_cached_table(j) \/ take_shared_buffer(j)
           \/ ~Explicit /\ take_lookup_buffer(j)
    PROVE  ResultInv(j)'
<1>1. /\ Types /\ Control /\ content \in [Device -> Contents]
      /\ pending \in [Job -> SUBSET Nat] /\ resident \in [Job -> Device \cup {None}]
      /\ IsCache(lutCache, Key, Device)
  BY DEF Inv, Types, DataTypes
<1>2. Key \cap {"input", "device"} = {}
  BY NativeAssumption
<1>3. /\ Allocating(j) /\ UNCHANGED <<phase, chain, stage, loaded, running>>
      /\ UNCHANGED <<call>>
  BY DEF cached_table, Uploads, TakesTransient, take_resident, metal_cached_table,
     take_lookup_buffer, take_shared_buffer, codeVars, gpuVars
<1>4. ~DeviceEnds(j)
  <2>1. ASSUME DeviceEnds(j) PROVE FALSE
    <3>1. j \in running /\ j \notin running'
      BY <2>1 DEF DeviceEnds
    <3> QED
      BY <1>3, <3>1
  <2> QED
    BY <2>1
<1>5. CASE cached_table(j) \/ metal_cached_table(j)
  <2> DEFINE d == lutCache.entries[TheEntry(j)]
  <2>1. /\ TheEntry(j) \in Keys(lutCache) /\ Place(j, d)
        /\ UNCHANGED <<pending, resident, content>>
    BY <1>5 DEF cached_table, metal_cached_table
  <2>2. d \in Device /\ TheEntry(j) \in Key /\ content[d] = TheEntry(j)
    BY <1>1, <2>1, CacheEntries DEF CachesRight
  <2> HIDE DEF d
  <2>3. /\ TheEntry(j) \in Key => content'[d] = TheEntry(j)
        /\ TheEntry(j) = "input" => content'[d] = <<j, stage[j] - 1>>
    BY <1>2, <2>1, <2>2
  <2>4. /\ pending'[j] \subseteq pending[j] \cup {Index(j)}
        /\ Index(j) \in pending'[j] => TheEntry(j) \in Key
        /\ resident'[j] \in {None, resident[j]}
    BY <2>1, <2>2
  <2> QED
    BY <1>3, <1>4, <2>1, <2>2, <2>3, <2>4, PlacedResult
<1>6. CASE Uploads(j)
  <2>1. PICK d \in Device :
          /\ TheEntry(j) \in Key /\ Place(j, d) /\ content' = [content EXCEPT ![d] = TheEntry(j)]
          /\ pending' = [pending EXCEPT ![j] = @ \cup {Index(j)}] /\ resident' = resident
    BY <1>6 DEF Uploads
  <2>2. content'[d] = TheEntry(j) /\ pending'[j] = pending[j] \cup {Index(j)}
    BY <1>1, <2>1
  <2>3. TheEntry(j) = "input" => content'[d] = <<j, stage[j] - 1>>
    BY <1>2, <2>1
  <2> QED
    BY <1>3, <1>4, <2>1, <2>2, <2>3, PlacedResult
<1>7. CASE TakesTransient(j) \/ take_shared_buffer(j)
  <2>1. PICK d \in Device :
          /\ TheEntry(j) \notin Key /\ Place(j, d)
          /\ content' = IF TheEntry(j) = "input"
                        THEN [content EXCEPT ![d] = <<j, stage[j] - 1>>] ELSE content
    BY <1>7, Obtained DEF TakesTransient, take_shared_buffer
  <2>2. UNCHANGED <<pending, resident>>
    BY <1>7 DEF TakesTransient, take_shared_buffer
  <2>3. TheEntry(j) = "input" => content'[d] = <<j, stage[j] - 1>>
    BY <1>1, <2>1
  <2>4. Index(j) \notin pending[j]
    <3>1. pending[j] \subseteq DOMAIN memory[j] /\ Index(j) = Len(memory[j]) + 1
      BY <1>1, <1>3, EntryTyped DEF Control, Flow
    <3>2. DOMAIN memory[j] = 1 .. Len(memory[j]) /\ Len(memory[j]) \in Nat
      BY <1>1, TicketSequences
    <3> QED
      BY <3>1, <3>2
  <2> QED
    BY <1>3, <1>4, <2>1, <2>2, <2>3, <2>4, PlacedResult
<1>8. CASE take_resident(j)
  <2>1. /\ TheEntry(j) = "input" /\ resident[j] # None /\ Place(j, resident[j])
        /\ resident' = [resident EXCEPT ![j] = None] /\ UNCHANGED <<pending, content>>
    BY <1>8 DEF take_resident
  <2>2. resident[j] \in Device /\ resident'[j] = None /\ phase[j] = "alloc"
    BY <1>1, <1>3, <2>1 DEF Allocating, At
  <2>3. content'[resident[j]] = <<j, stage[j] - 1>>
    BY <2>1, <2>2 DEF ResultInv, HandsOn
  <2>4. Index(j) \notin pending[j]
    <3>1. pending[j] \subseteq DOMAIN memory[j] /\ Index(j) = Len(memory[j]) + 1
      BY <1>1, <1>3, EntryTyped DEF Control, Flow
    <3>2. DOMAIN memory[j] = 1 .. Len(memory[j]) /\ Len(memory[j]) \in Nat
      BY <1>1, TicketSequences
    <3> QED
      BY <3>1, <3>2
  <2>5. TheEntry(j) \notin Key
    BY <1>2, <2>1
  <2> QED
    BY <1>3, <1>4, <2>1, <2>2, <2>3, <2>4, <2>5, PlacedResult
<1>9. CASE ~Explicit /\ take_lookup_buffer(j)
  <2>1. ~Explicit
    BY <1>9
  <2>2. PICK d \in Device : Lookup(j, d)
    BY <1>9, <2>1, LookupTaken
  <2>3. TheEntry(j) \in Key /\ UNCHANGED <<pending, resident>>
    BY <1>9 DEF take_lookup_buffer
  <2>4. d \in Handle /\ d \in Needs(j)'
    <3>1. d \in ToSet(memory'[j])
      <4>1. Place(j, d)
        BY <2>2 DEF Lookup
      <4>2. ToSet(memory'[j]) = ToSet(memory[j]) \cup {d}
        BY <1>1, <4>1, Placed
      <4> QED
        BY <4>2
    <3>2. ~Explicit'
      BY <2>1 DEF Explicit, Next
    <3> QED
      BY <3>1, <3>2 DEF Needs, Handle
  <2>5. refs'[d] # 0
    BY <2>4, InvTightNext DEF NeedsTight, Loose
  <2>6. content'[d] = TheEntry(j) /\ Place(j, d)
    BY <2>2, <2>5 DEF Lookup
  <2>7. TheEntry(j) = "input" => content'[d] = <<j, stage[j] - 1>>
    BY <1>2, <2>3
  <2> QED
    BY <1>3, <1>4, <2>3, <2>6, <2>7, PlacedResult
<1> QED
  BY <1>5, <1>6, <1>7, <1>8, <1>9

\* Passes loaded.
LEMMA LoadsResult ==
    ASSUME Inv, Inv', FlightInv, FlightInv', Next, NEW j \in Job, ResultInv(j), CachesRight,
           \/ LoadsShared(j) \/ LoadsCached(j) \/ LoadsOwn(j) \/ metal_cached_pipeline(j)
           \/ ~Explicit /\ compile_pipeline(j)
    PROVE  ResultInv(j)'
<1>1. /\ Types /\ Control /\ made \in [Module \cup Kernel -> Source \cup {None}]
      /\ IsCache(moduleCache, Source, Module)
  BY DEF Inv, Types, CodeTypes
<1>2. UNCHANGED <<memory, pending, resident, content, running>>
  BY DEF LoadsShared, LoadsCached, LoadsOwn, metal_cached_pipeline, compile_pipeline,
     dataVars, gpuVars
<1>3. ~DeviceEnds(j)
  <2>1. ASSUME DeviceEnds(j) PROVE FALSE
    <3>1. j \in running /\ j \notin running'
      BY <2>1 DEF DeviceEnds
    <3> QED
      BY <1>2, <3>1
  <2> QED
    BY <2>1
<1>4. ASSUME NEW s \in Keys(moduleCache), s = NextSource(j), made' = made
      PROVE  /\ moduleCache.entries[s] \in Module
             /\ made'[moduleCache.entries[s]] = NextSource(j)
  BY <1>1, <1>4, CacheEntries DEF CachesRight
<1>5. CASE LoadsShared(j)
  <2>1. PICK s \in Keys(moduleCache) :
           s = NextSource(j) /\ LoadsPass(j, moduleCache.entries[s]) /\ made' = made
    BY <1>5 DEF LoadsShared
  <2> DEFINE m == moduleCache.entries[s]
  <2>2. m \in Module /\ made'[m] = NextSource(j) /\ LoadsPass(j, m)
    BY <1>4, <2>1
  <2> HIDE DEF m
  <2> QED
    BY <1>2, <1>3, <2>2, LoadedResult
<1>6. CASE LoadsCached(j)
  <2> DEFINE s == NextSource(j)
  <2>1. PICK new \in [{s} -> Module] : Caches({s}, new) /\ LoadsPass(j, new[s])
    BY <1>6 DEF LoadsCached
  <2>2. new[s] \in Module /\ made'[new[s]] = s
    BY <2>1 DEF Caches
  <2> QED
    BY <1>2, <1>3, <2>1, <2>2, LoadedResult
<1>7. CASE LoadsOwn(j)
  <2>1. PICK h \in Module \cup Kernel : LoadsPass(j, h) /\ made' = [made EXCEPT ![h] = NextSource(j)]
    BY <1>7 DEF LoadsOwn
  <2>2. made'[h] = NextSource(j)
    BY <1>1, <2>1
  <2> QED
    BY <1>2, <1>3, <2>1, <2>2, LoadedResult
<1>8. CASE metal_cached_pipeline(j)
  <2> DEFINE m == moduleCache.entries[NextSource(j)]
  <2>1. /\ NextSource(j) \in Keys(moduleCache) /\ Loading(j) /\ Loaded(j, m) /\ made' = made
    BY <1>8 DEF metal_cached_pipeline
  <2>2. m \in Module /\ made'[m] = NextSource(j)
    BY <1>4, <2>1
  <2>3. LoadsPass(j, m)
    BY <2>1, <2>2 DEF LoadsPass, Loading, At
  <2> HIDE DEF m
  <2> QED
    BY <1>2, <1>3, <2>2, <2>3, LoadedResult
<1>9. CASE ~Explicit /\ compile_pipeline(j)
  <2>1. PICK m \in Module : Pipeline(NextSource(j), m, 1) /\ LoadsPass(j, m)
    BY <1>9, CompiledLoaded
  <2>2. m \in Handle /\ m \in Needs(j)'
    <3>1. ToSet(loaded'[j]) = ToSet(loaded[j]) \cup {m}
      BY <1>1, <2>1, PassLoaded DEF LoadsPass
    <3>2. ~Explicit'
      BY <1>9 DEF Explicit, Next
    <3> QED
      BY <3>1, <3>2 DEF Needs, Handle
  <2>3. refs'[m] # 0
    BY <2>2, InvTightNext DEF NeedsTight, Loose
  <2>4. made'[m] = NextSource(j)
    BY <2>1, <2>3 DEF Pipeline
  <2> QED
    BY <1>2, <1>3, <2>1, <2>4, LoadedResult
<1> QED
  BY <1>5, <1>6, <1>7, <1>8, <1>9

\* A table enters the cache, or its duplicate is freed.
LEMMA TablesResult ==
    ASSUME Inv, Inv', FlightInv, FlightInv', Next, NEW j \in Job, ResultInv(j),
           NEW i \in pending[j], insert_lut(j, i) \/ FreeDuplicateFails(j, i)
    PROVE  ResultInv(j)'
<1>1. /\ phase[j] = "tables" /\ phase'[j] \in {"tables", "drop"}
      /\ pending'[j] \subseteq pending[j]
      /\ UNCHANGED <<chain, stage, memory, resident, running, results>>
  BY DEF Inv, Types, CallTypes, DataTypes, insert_lut, FreeDuplicateFails, At, Continue, Goto,
     flowVars, gpuVars, restVars
<1>2. j \notin running
  BY <1>1 DEF FlightInv, InFlight, Flying
<1>3. resident[j] = None
  BY <1>1, ResidentPhases
<1>4. ~DeviceEnds(j)
  BY <1>2 DEF DeviceEnds
<1>5. ReadsNeeds(j) /\ ReadsNeeds(j)'
  BY NeedsRead, NeedsReadNext DEF ReadsTight
<1>6. ASSUME NEW d \in Device, d \in Needs(j), d \in Needs(j)' PROVE content'[d] = content[d]
  BY <1>4, <1>6, Untouched DEF Touched, Handle
<1>7. /\ Plan(j)' = Plan(j) /\ Output(j)' = Output(j) /\ LastStage(j)' = LastStage(j)
  BY <1>1 DEF Plan, TheProgram, Output, LastStage
<1>8. ASSUME NEW x \in pending'[j] PROVE content'[memory'[j][x]] = Plan(j)'[x]
  <2>1. x \in pending[j] /\ memory'[j][x] = memory[j][x]
    BY <1>1
  <2>2. /\ memory[j][x] \in Device /\ memory[j][x] \in Needs(j)
        /\ memory[j][x] \in Needs(j)'
    BY <1>5, <2>1 DEF ReadsNeeds
  <2> QED
    BY <1>6, <1>7, <2>1, <2>2 DEF ResultInv
<1>9. ASSUME phase'[j] = "tables" PROVE HasOutput(j)'
  <2>1. Output(j) \in Device /\ Output(j) \in Needs(j)
    BY <1>1, <1>5 DEF ReadsNeeds
  <2>2. Output(j) \in Needs(j)'
    BY <1>5, <1>7, <1>9 DEF ReadsNeeds
  <2>3. HasOutput(j)
    BY <1>1 DEF ResultInv
  <2> QED
    BY <1>1, <1>6, <1>7, <2>1, <2>2, <2>3 DEF HasOutput
<1>10. phase'[j] = "tables" /\ LastStage(j)' => results'[j] = <<j, stage'[j]>>
  BY <1>1, <1>7 DEF ResultInv
<1> QED
  BY <1>1, <1>2, <1>3, <1>8, <1>9, <1>10 DEF ResultInv, Loads, Computed

\* The output of a program goes on as the input of the next.
LEMMA RecyclesResult ==
    ASSUME Inv, Inv', FlightInv, FlightInv', Next, NEW j \in Job, ResultInv(j), Recycles(j)
    PROVE  ResultInv(j)'
<1>1. PICK others : recycle(j, others)
  BY DEF Recycles
<1>2. /\ phase[j] = "tables" /\ phase'[j] = "free" /\ pending[j] = {} /\ pending' = pending
      /\ UNCHANGED <<chain, stage, memory, running>>
      /\ resident'[j] = IF LastStage(j) THEN None ELSE Output(j)
  BY <1>1 DEF Inv, Types, CallTypes, DataTypes, recycle, At, Continue, Goto, gpuVars
<1>3. j \notin running /\ ~DeviceEnds(j)
  BY <1>2 DEF FlightInv, InFlight, Flying, DeviceEnds
<1>4. ReadsNeeds(j) /\ ReadsNeeds(j)'
  BY NeedsRead, NeedsReadNext DEF ReadsTight
<1>5. ASSUME resident'[j] # None PROVE HandsOn(j)'
  <2>1. resident'[j] = Output(j)
    BY <1>2, <1>5
  <2>2. Output(j) \in Device /\ Output(j) \in Needs(j) /\ Output(j) \in Needs(j)'
    BY <1>2, <1>4, <1>5, <2>1 DEF ReadsNeeds
  <2>3. content'[Output(j)] = content[Output(j)]
    BY <1>3, <2>2, Untouched DEF Touched, Handle
  <2>4. HasOutput(j)
    BY <1>2 DEF ResultInv
  <2> QED
    BY <1>2, <2>1, <2>3, <2>4 DEF HasOutput, HandsOn
<1> QED
  BY <1>2, <1>3, <1>5 DEF ResultInv, Loads, Computed

LEMMA EndsResult ==
    ASSUME Inv, Inv', FlightInv, FlightInv', Next, NEW j \in Job, ResultInv(j), Ends(j)
    PROVE  ResultInv(j)'
<1>1. /\ Types /\ phase \in [Job -> Phases] /\ stage \in [Job -> Nat]
      /\ pending \in [Job -> SUBSET Nat] /\ resident \in [Job -> Device \cup {None}]
  BY DEF Inv, Types, CallTypes, DataTypes
<1>2. pending'[j] = {} /\ running' = running
  BY <1>1 DEF Ends, DropEnds, Unwinds, Forgets, gpuVars
<1>3. j \notin running
  <2>1. CASE Unwinds(j)
    BY <2>1 DEF Unwinds, DeviceDone
  <2>2. CASE DropEnds(j)
    BY <2>2 DEF DropEnds, At, FlightInv, InFlight, Flying
  <2> QED
    BY <2>1, <2>2 DEF Ends
<1>4. CASE Unwinds(j)
  <2>1. resident'[j] = None /\ phase'[j] = "idle"
    BY <1>1, <1>4 DEF Unwinds, Returns, Goto
  <2> QED
    BY <1>2, <1>3, <2>1, OverResult
<1>5. CASE DropEnds(j) /\ resident[j] = None
  <2>1. resident'[j] = None /\ phase'[j] = "idle"
    BY <1>1, <1>5 DEF DropEnds, Returns, Goto
  <2> QED
    BY <1>2, <1>3, <2>1, OverResult
<1>6. CASE DropEnds(j) /\ resident[j] # None
  <2>1. /\ phase[j] = "free" /\ phase'[j] = "queue" /\ stage'[j] = stage[j] + 1
        /\ resident' = resident /\ stage[j] \in Nat
    BY <1>1, <1>6 DEF DropEnds, At, Goto
  <2>2. ReadsNeeds(j) /\ ReadsNeeds(j)'
    BY NeedsRead, NeedsReadNext DEF ReadsTight
  <2>3. resident[j] \in Device /\ resident[j] \in Needs(j) /\ resident[j] \in Needs(j)'
    BY <1>6, <2>1, <2>2 DEF ReadsNeeds
  <2>4. ~DeviceEnds(j)
    BY <1>3 DEF DeviceEnds
  <2>5. content'[resident[j]] = content[resident[j]]
    BY <2>3, <2>4, Untouched DEF Touched, Handle
  <2>6. content[resident[j]] = <<j, stage[j]>>
    BY <1>6, <2>1 DEF ResultInv, HandsOn
  <2>7. stage'[j] - 1 = stage[j]
    BY <2>1
  <2>8. HandsOn(j)'
    BY <2>1, <2>5, <2>6, <2>7 DEF HandsOn
  <2> QED
    BY <1>2, <1>3, <2>1, <2>8 DEF ResultInv, Loads, Computed
<1> QED
  BY <1>4, <1>5, <1>6 DEF Ends

\* A failed submission of HIP drops its modules: the tables and the input stay.
LEMMA UnloadsResult ==
    ASSUME Inv, Inv', FlightInv, FlightInv', Next, NEW j \in Job, ResultInv(j), Unloads(j)
    PROVE  ResultInv(j)'
<1>1. /\ phase[j] = "unwind" /\ loaded[j] # << >> /\ loaded'[j] = << >>
      /\ UNCHANGED <<phase, chain, stage, count, memory, pending, resident, running, results>>
  <2>1. loaded \in [Job -> Seq(Module \cup Kernel)]
    BY DEF Inv, Types, CodeTypes
  <2> QED
    BY <2>1 DEF Unloads, hip_unload, At, flowVars, gpuVars, restVars
<1>2. Plan(j)' = Plan(j) /\ phase'[j] = "unwind"
  BY <1>1 DEF Plan, TheProgram
<1>3. ~DeviceEnds(j)
  BY <1>1 DEF DeviceEnds, codeVars
<1>4. ReadsNeeds(j) /\ ReadsNeeds(j)'
  BY NeedsRead, NeedsReadNext DEF ReadsTight
<1>5. ASSUME NEW d \in Device, d \in Needs(j), d \in Needs(j)' PROVE content'[d] = content[d]
  BY <1>3, <1>5, Untouched DEF Touched, Handle
<1>6. \A i \in pending'[j] : content'[memory'[j][i]] = Plan(j)'[i]
  BY <1>1, <1>2, <1>4, <1>5 DEF ResultInv, ReadsNeeds
<1>7. ASSUME j \in running PROVE Prepared(j)'
  <2>1. Prepared(j) /\ DOMAIN << >> = {}
    BY <1>7 DEF ResultInv
  <2>2. \A i \in DOMAIN memory[j] : content'[memory[j][i]] = content[memory[j][i]]
    BY <1>1, <1>4, <1>5, <1>7 DEF ReadsNeeds
  <2> QED
    BY <1>1, <1>2, <2>1, <2>2 DEF Prepared
<1> QED
  BY <1>1, <1>2, <1>6, <1>7 DEF ResultInv, Loads, Computed, HandsOn

LEMMA MetalEndsResult ==
    ASSUME Inv, Inv', FlightInv, ~Explicit, Next, NEW j \in Job,
           recycle_buffers(j) \/ metal_unwinds(j) \/ MetalReleases(j)
    PROVE  ResultInv(j)'
<1>1. phase \in [Job -> Phases] /\ ~Explicit'
  BY DEF Inv, Types, CallTypes, Explicit, Next
<1>2. /\ phase'[j] \in {"free", "idle"} /\ running' = running
      /\ phase[j] \in {"unwind", "free"} \/ DeviceDone(j)
  BY <1>1 DEF recycle_buffers, metal_unwinds, MetalReleases, Returns, At, Continue, Goto, gpuVars
<1>3. j \notin running
  BY <1>2 DEF FlightInv, InFlight, Flying, DeviceDone
<1>4. pending'[j] = {} /\ resident'[j] = None
  BY <1>1 DEF Inv, MetalCounted, MetalTicket
<1> QED
  BY <1>2, <1>3, <1>4, OverResult

LEMMA TicketResult ==
    ASSUME Inv, Inv', FlightInv, FlightInv', Next, NEW j \in Job, ResultsInv,
           \/ Explicit /\ TicketMove(j)
           \/ ~Explicit /\ MetalMove(j)
    PROVE  ResultInv(j)'
<1>1. ResultInv(j) /\ CachesRight /\ backend' = backend
  BY DEF ResultsInv, Next
<1>2. CASE DeviceEnds(j)
  BY <1>1, <1>2, ComputedResult
<1>3. CASE \E c \in Chains[j] : Submit(j, c, "queue") \/ Submit(j, c, "alloc")
  BY <1>3, SubmitResult
<1>4. CASE MovesOn(j) \/ launch(j) \/ commit(j) \/ TakesQueue(j)
  BY <1>1, <1>4, QuietResult
<1>5. CASE \/ cached_table(j) \/ Uploads(j) \/ TakesTransient(j) \/ take_resident(j)
           \/ metal_cached_table(j) \/ take_shared_buffer(j)
           \/ ~Explicit /\ take_lookup_buffer(j)
  BY <1>1, <1>5, PlacesResult
<1>6. CASE \/ LoadsShared(j) \/ LoadsCached(j) \/ LoadsOwn(j) \/ metal_cached_pipeline(j)
           \/ ~Explicit /\ compile_pipeline(j)
  BY <1>1, <1>6, LoadsResult
<1>7. CASE \E i \in pending[j] : insert_lut(j, i) \/ FreeDuplicateFails(j, i)
  BY <1>1, <1>7, TablesResult
<1>8. CASE Recycles(j)
  BY <1>1, <1>8, RecyclesResult
<1>9. CASE Ends(j)
  BY <1>1, <1>9, EndsResult
<1>10. CASE ~Explicit /\ (recycle_buffers(j) \/ metal_unwinds(j) \/ MetalReleases(j))
  BY <1>10, MetalEndsResult
<1>11. ASSUME Explicit, TicketMove(j) PROVE ResultInv(j)'
  BY <1>2, <1>3, <1>4, <1>5, <1>6, <1>7, <1>8, <1>9, <1>11, UnloadsResult, <1>1 DEF TicketMove
<1>12. ASSUME ~Explicit, MetalMove(j) PROVE ResultInv(j)'
  BY <1>2, <1>3, <1>4, <1>5, <1>6, <1>10, <1>12 DEF MetalMove
<1> QED
  BY <1>11, <1>12

LEMMA OthersSame ==
    ASSUME NEW j \in Job, Others(j), NEW i \in Job \ {j}
    PROVE  Same(i)
  BY DEF Others, Same

\* Steps of the context.
LEMMA ContextSame ==
    ASSUME \/ Builds \/ PoolsKernel \/ KeepsStill \/ BeginsClear \/ Clears \/ DropsContext
           \/ MetalDropContext \/ \E s \in Source : MetalReport(s),
           NEW i \in Job
    PROVE  Same(i) /\ ~DeviceEnds(i)
<1>1. Same(i)
  <2>1. CASE Builds \/ PoolsKernel \/ KeepsStill
    BY <2>1 DEF Builds, PoolsKernel, KeepsStill, Same, flowVars, handleVars, dataVars, gpuVars,
       restVars
  <2>2. CASE BeginsClear
    BY <2>2 DEF BeginsClear, BeginClear, Same, handleVars, dataVars, codeVars, gpuVars
  <2>3. CASE Clears
    BY <2>3 DEF Clears, Drain, Same, gpuVars
  <2>4. CASE DropsContext \/ MetalDropContext
    BY <2>4 DEF DropsContext, DropContext, MetalDropContext, Same, flowVars, gpuVars
  <2>5. ASSUME NEW s \in Source, MetalReport(s) PROVE Same(i)
    <3>1. loaded' = loaded
      BY <2>5 DEF MetalReport, CompilePipeline
    <3> QED
      BY <2>5, <3>1 DEF MetalReport, Same, flowVars, dataVars, gpuVars, restVars
  <2> QED
    BY <2>1, <2>2, <2>3, <2>4, <2>5
<1> QED
  BY <1>1 DEF Same, DeviceEnds

LEMMA ResultsStep ==
    ASSUME Inv, Inv', FlightInv, FlightInv', ResultsInv, Next
    PROVE  ResultsInv'
<1>1. CachesRight /\ \A j \in Job : ResultInv(j)
  BY DEF ResultsInv
<1>2. ASSUME NEW j \in Job, Others(j),
             \/ Explicit /\ TicketMove(j)
             \/ ~Explicit /\ MetalMove(j)
      PROVE  \A i \in Job : ResultInv(i)'
  <2>1. ResultInv(j)'
    BY <1>2, TicketResult
  <2>2. ASSUME NEW i \in Job \ {j} PROVE ResultInv(i)'
    <3>1. Same(i)
      BY <1>2, OthersSame
    <3>2. ~DeviceEnds(i)
      BY <3>1 DEF Same, DeviceEnds
    <3> QED
      BY <1>1, <3>1, <3>2, SameResult
  <2> QED
    BY <2>1, <2>2
<1>3. CASE Explicit
  <2>1. CASE \E j \in Job : TicketMove(j)
    <3>1. PICK j \in Job : TicketMove(j)
      BY <2>1
    <3>2. \A i \in Job : ResultInv(i)'
      BY <1>2, <1>3, <3>1, MovesAlone DEF Inv
    <3>3. CachesRight'
      BY <1>1, <1>3, <3>1, TicketRight, CachesStayRight
    <3> QED
      BY <3>2, <3>3 DEF ResultsInv
  <2>2. CASE Builds \/ PoolsKernel \/ KeepsStill \/ BeginsClear \/ Clears \/ DropsContext
    <3>1. \A i \in Job : ResultInv(i)'
      BY <1>1, <2>2, ContextSame, SameResult
    <3>2. CachesRight'
      BY <1>1, <1>3, <2>2, ContextRight, CachesStayRight
    <3> QED
      BY <3>1, <3>2 DEF ResultsInv
  <2> QED
    BY <1>3, <2>1, <2>2, ExplicitMoves DEF ExplicitMove
<1>4. CASE ~Explicit
  <2>1. CachesRight'
    BY <1>1, <1>4, MetalRight, CachesStayRight
  <2>2. \A i \in Job : ResultInv(i)'
    <3>1. CASE \E j \in Job : MetalMove(j)
      <4>1. PICK j \in Job : MetalMove(j)
        BY <3>1
      <4> QED
        BY <1>2, <1>4, <4>1, MetalAlone DEF Inv
    <3>2. CASE MetalDropContext \/ \E s \in Source : MetalReport(s)
      BY <1>1, <3>2, ContextSame, SameResult
    <3> QED
      BY <1>4, <3>1, <3>2, MetalMoves
  <2> QED
    BY <2>1, <2>2 DEF ResultsInv
<1> QED
  BY <1>3, <1>4

LEMMA ResultsStill ==
    ASSUME ResultsInv, UNCHANGED vars
    PROVE  ResultsInv'
<1>1. /\ UNCHANGED <<phase, chain, stage, count, memory, pending, resident, content, loaded>>
      /\ UNCHANGED <<made, lutCache, moduleCache, running, results>>
  BY DEF vars, nativeVars, flowVars, dataVars, codeVars, gpuVars, restVars
<1>2. CachesRight'
  BY <1>1 DEF ResultsInv, CachesRight, Keys
<1>3. ASSUME NEW i \in Job PROVE ResultInv(i)'
  <2>1. ResultInv(i)
    BY DEF ResultsInv
  <2>2. /\ Plan(i)' = Plan(i) /\ Passes(i)' = Passes(i) /\ Output(i)' = Output(i)
        /\ LastStage(i)' = LastStage(i)
    BY <1>1 DEF Plan, Passes, TheProgram, Output, LastStage
  <2>3. Prepared(i)' = Prepared(i)
    BY <1>1, <2>2 DEF Prepared
  <2>4. Computed(i)' = Computed(i) /\ HasOutput(i)' = HasOutput(i) /\ HandsOn(i)' = HandsOn(i)
    BY <1>1, <2>2 DEF Computed, HasOutput, HandsOn
  <2> QED
    BY <1>1, <2>1, <2>2, <2>3, <2>4 DEF ResultInv
<1> QED
  BY <1>2, <1>3 DEF ResultsInv

LEMMA InitResults ==
    ASSUME NativeInit
    PROVE  ResultsInv
<1>1. /\ phase = [j \in Job |-> "idle"] /\ running = {} /\ pending = [j \in Job |-> {}]
      /\ resident = [j \in Job |-> None] /\ lutCache = EmptyCache /\ moduleCache = EmptyCache
  BY DEF NativeInit, Init
<1>2. Keys(EmptyCache) = {}
  BY EmptyIsCache
<1> QED
  BY <1>1, <1>2 DEF ResultsInv, CachesRight, ResultInv, Loads, Computed

LEMMA SpecResults ==
    ASSUME MaxFaults <= 1
    PROVE  Spec => [](Inv /\ ResultsInv)
<1>1. NativeInit => ResultsInv
  BY InitResults
<1>2. Inv /\ Inv' /\ FlightInv /\ FlightInv' /\ ResultsInv /\ [Next]_vars => ResultsInv'
  BY ResultsStep, ResultsStill
<1> QED
  BY <1>1, <1>2, SpecFlight, PTL DEF Spec

LEMMA InvResults == Inv /\ ResultsInv => ReturnsOwnResult
<1> SUFFICES ASSUME Inv, ResultsInv, NEW j \in Job, phase[j] = "tables", LastStage(j)
             PROVE  results[j] = <<j, Len(chain[j])>>
  BY DEF ReturnsOwnResult
<1> QED
  BY DEF ResultsInv, ResultInv, LastStage

\* What a wait returns was computed by the programs of its own ticket, from its
\* own input and with the tables and the code they asked for, in every order of
\* submissions, waits, evictions, clears and drops and with a driver call that
\* fails anywhere: until it is read, neither the pools nor the caches hand out
\* a buffer, a table or a kernel that it was computed with or from.
THEOREM NativeReturnsOwnResult ==
    ASSUME MaxFaults <= 1
    PROVE  Spec => []ReturnsOwnResult
  BY SpecResults, InvResults, PTL

-----------------------------------------------------------------------------
(* The runtimes implement ExclusiveTickets.                                *)

AbstractStep == [Tickets!Next \/ UnloadsInUse]_(Tickets!ticketVars)

\* References that no pool keeps.
InUse(h) == refs[h] > pool[h]

\* No handle has two owners.
Apart ==
    \A h \in Handle : \A i, j \in Job : h \in OwnedBy(i) /\ h \in OwnedBy(j) => i = j

\* The device works with what is its ticket's or shared.
Exclusive ==
    /\ Apart
    /\ \A j \in running : \A h \in uses[j] : h \in Handle /\ OwnerOf(h) \in {j, Maint}

\* No submission of HIP has failed and left work to the device.
NoModulesDropped == \A j \in running : ~ModulesDropped(j)

LEMMA OwnerIs ==
    ASSUME Apart, NEW h \in Handle, NEW j \in Job, h \in OwnedBy(j)
    PROVE  OwnerOf(h) = j
<1>1. \A i \in Job : h \in OwnedBy(i) => i = j
  BY DEF Apart
<1> QED
  BY <1>1 DEF OwnerOf

LEMMA OwnerNot ==
    ASSUME NEW h, \A j \in Job : h \notin OwnedBy(j)
    PROVE  OwnerOf(h) = IF InUse(h) THEN Maint ELSE None
  BY DEF OwnerOf, InUse

LEMMA OwnerIsNext ==
    ASSUME Apart', NEW h \in Handle, NEW j \in Job, h \in OwnedBy(j)'
    PROVE  OwnerOf(h)' = j
<1>1. \A i \in Job : h \in OwnedBy(i)' => i = j
  BY DEF Apart
<1> QED
  BY <1>1 DEF OwnerOf

LEMMA OwnerNotNext ==
    ASSUME NEW h, \A j \in Job : h \notin OwnedBy(j)'
    PROVE  OwnerOf(h)' = IF InUse(h)' THEN Maint ELSE None
  BY DEF OwnerOf, InUse

LEMMA OwnerFunctions ==
    Owner' \in [Handle -> Tickets!Owners] /\ DOMAIN Owner = Handle
  BY DEF Owner, OwnerOf, Tickets!Owners

\* A handle of which nothing changes.
SameOwner(h) ==
    /\ \A i \in Job : h \in OwnedBy(i)' <=> h \in OwnedBy(i)
    /\ (\E i \in Job : h \in OwnedBy(i)) \/ (InUse(h)' <=> InUse(h))

LEMMA OwnerSame ==
    ASSUME Apart, Apart', NEW h \in Handle, SameOwner(h)
    PROVE  OwnerOf(h)' = OwnerOf(h)
<1>1. ASSUME NEW i \in Job, h \in OwnedBy(i) PROVE OwnerOf(h)' = OwnerOf(h)
  <2>1. h \in OwnedBy(i)'
    BY <1>1 DEF SameOwner
  <2> QED
    BY <1>1, <2>1, OwnerIs, OwnerIsNext
<1>2. ASSUME \A i \in Job : h \notin OwnedBy(i) PROVE OwnerOf(h)' = OwnerOf(h)
  <2>1. (\A i \in Job : h \notin OwnedBy(i)') /\ (InUse(h)' <=> InUse(h))
    BY <1>2 DEF SameOwner
  <2> QED
    BY <1>2, <2>1, OwnerNot, OwnerNotNext
<1> QED
  BY <1>1, <1>2

-----------------------------------------------------------------------------
(* Nobody owns what another ticket has.                                    *)

\* What a Metal ticket owns is one buffer of its plan.
LEMMA MetalOwns ==
    ASSUME Inv, ~Explicit, NEW j \in Job, NEW h \in Handle, h \in OwnedBy(j)
    PROVE  \E i : /\ Transient(j, i) /\ h = memory[j][i]
                  /\ Occurrences(memory, h) = {<<j, i>>}
<1>1. PICK i \in DOMAIN memory[j] \ Tables(j) : h = memory[j][i]
  BY DEF OwnedBy, Explicit, Transients
<1>2. Transient(j, i)
  BY DEF Tables, Transient
<1>3. phase[j] # "free"
  <2>1. phase[j] = "free" => h = None
    BY <1>1, <1>2 DEF Inv, MetalCounted, MetalTicket
  <2> QED
    BY <2>1, NativeAssumption
<1> QED
  BY <1>1, <1>2, <1>3, SoleUse

LEMMA InvApart == Inv => Apart
<1> SUFFICES ASSUME Inv PROVE Apart
  OBVIOUS
<1>1. ASSUME NEW h \in Handle, NEW i \in Job, NEW j \in Job, h \in OwnedBy(i), h \in OwnedBy(j)
      PROVE  i = j
  <2>1. CASE Explicit
    <3>1. h \in held[i] /\ h \in held[j] /\ OnePlace(h)
      BY <1>1, <2>1 DEF OwnedBy, Explicit, Inv, ExplicitOwned, Ownership
    <3> QED
      BY <3>1 DEF OnePlace
  <2>2. CASE ~Explicit
    <3>1. PICK x : Occurrences(memory, h) = {<<i, x>>}
      BY <1>1, <2>2, MetalOwns
    <3>2. PICK y : Occurrences(memory, h) = {<<j, y>>}
      BY <1>1, <2>2, MetalOwns
    <3>3. <<i, x>> = <<j, y>>
      BY <3>1, <3>2
    <3> QED
      BY <3>3
  <2> QED
    BY <2>1, <2>2
<1> QED
  BY <1>1 DEF Apart

LEMMA InvExclusive == Inv /\ FlightInv /\ NoModulesDropped => Exclusive
<1> SUFFICES ASSUME Inv, FlightInv, NoModulesDropped PROVE Exclusive
  OBVIOUS
<1>1. Apart
  BY InvApart
<1>2. ASSUME NEW j \in running, NEW h \in uses[j]
      PROVE  h \in Handle /\ OwnerOf(h) \in {j, Maint}
  <2>1. j \in Job /\ h \in Handle /\ InFlight(j) /\ refs[h] \in Nat /\ pool[h] \in Nat
        /\ Gone(j) = {} /\ Unloaded(j) = {}
    BY DEF Inv, Types, GpuTypes, HandleTypes, FlightInv, NoModulesDropped, ModulesDropped, Gone,
       Unloaded
  <2>2. refs[h] > 0 /\ pool[h] = 0
    BY <2>1, FlightLive DEF UsedHandlesLive
  <2>3. InUse(h)
    BY <2>1, <2>2 DEF InUse
  <2>4. ASSUME NEW i \in Job, h \in OwnedBy(i) PROVE OwnerOf(h) = i
    <3>1. \A k \in Job : h \in OwnedBy(k) => k = i
      BY <1>1, <2>1, <2>4 DEF Apart
    <3> QED
      BY <2>4, <3>1 DEF OwnerOf
  <2>5. CASE \A i \in Job : h \notin OwnedBy(i)
    BY <2>1, <2>3, <2>5, OwnerNot
  <2>6. ASSUME NEW i \in Job, h \in OwnedBy(i) PROVE i = j
    <3>1. CASE Explicit
      <4>1. h \in held[i] /\ OnePlace(h) /\ h \in held[j] \cup Shared
        BY <2>1, <2>6, <3>1 DEF OwnedBy, Explicit, Inv, ExplicitOwned, Ownership, InFlight
      <4> QED
        BY <2>1, <4>1 DEF OnePlace
    <3>2. CASE ~Explicit
      <4>1. PICK x : /\ Transient(i, x) /\ h = memory[i][x]
                     /\ Occurrences(memory, h) = {<<i, x>>}
        BY <2>1, <2>6, <3>2, MetalOwns
      <4>2. phase[i] # "free"
        <5>1. phase[i] = "free" => h = None
          BY <3>2, <4>1 DEF Inv, MetalCounted, MetalTicket, Transient
        <5> QED
          BY <2>1, <5>1, NativeAssumption
      <4>3. Occurrences(loaded, h) = {}
        BY <3>2, <4>1, <4>2, SoleUse
      <4>4. h \in ToSet(memory[j]) \cup ToSet(loaded[j])
        BY <2>1, <3>2 DEF InFlight, Used, Inv, MetalCounted, MetalTicket
      <4>5. h \in ToSet(memory[j]) => \E l : <<j, l>> \in Occurrences(memory, h)
        BY <2>1, OccurrenceIn DEF ToSet
      <4>6. h \notin ToSet(loaded[j])
        <5>1. h \in ToSet(loaded[j]) => \E l : <<j, l>> \in Occurrences(loaded, h)
          BY <2>1, OccurrenceIn DEF ToSet
        <5> QED
          BY <4>3, <5>1
      <4> QED
        BY <4>1, <4>4, <4>5, <4>6
    <3> QED
      BY <3>1, <3>2
  <2> QED
    BY <2>1, <2>4, <2>5, <2>6
<1> QED
  BY <1>1, <1>2 DEF Exclusive

LEMMA InvApartNext == Inv' => Apart'
  BY InvApart, PTL

LEMMA InvExclusiveNext == Inv' /\ FlightInv' /\ NoModulesDropped' => Exclusive'
  BY InvExclusive, PTL

-----------------------------------------------------------------------------
(* The abstract step of each kind of move.                                 *)

\* What the device may use belongs to a ticket that runs.
LEMMA BusyOwned ==
    ASSUME Inv, Exclusive, NEW h \in Busy
    PROVE  \E i \in running : i \in Job /\ h \in Handle /\ OwnerOf(h) = i
<1>1. PICK i \in running : h \in uses[i] /\ OwnerOf(h) # Maint
  BY DEF Busy
<1>2. i \in Job /\ h \in Handle /\ OwnerOf(h) \in {i, Maint}
  BY <1>1 DEF Exclusive, Inv, Types, GpuTypes
<1> QED
  BY <1>1, <1>2

LEMMA BusySame ==
    ASSUME UNCHANGED gpuVars,
           \A i \in running : \A h \in uses[i] : OwnerOf(h)' = Maint <=> OwnerOf(h) = Maint
    PROVE  Busy' = Busy
<1>1. running' = running /\ uses' = uses
  BY DEF gpuVars
<1> QED
  BY <1>1 DEF Busy

\* The context caches, destroys or loses what no ticket has for itself.
LEMMA KeepStep ==
    ASSUME Inv, Exclusive, Exclusive', UNCHANGED gpuVars,
           \A h \in Handle : \A i \in Job : h \in OwnedBy(i)' <=> h \in OwnedBy(i)
    PROVE  AbstractStep
<1>1. ASSUME NEW h \in Handle, NEW i \in Job, h \in OwnedBy(i)
      PROVE  OwnerOf(h) = i /\ OwnerOf(h)' = i
  <2>1. h \in OwnedBy(i)'
    BY <1>1
  <2> QED
    BY <1>1, <2>1, OwnerIs, OwnerIsNext DEF Exclusive
<1>2. ASSUME NEW h \in Handle, \A i \in Job : h \notin OwnedBy(i)
      PROVE  OwnerOf(h) \in {None, Maint} /\ OwnerOf(h)' \in {None, Maint}
  <2>1. \A i \in Job : h \notin OwnedBy(i)'
    BY <1>2
  <2> QED
    BY <1>2, <2>1, OwnerNot, OwnerNotNext
<1>3. ASSUME NEW i \in running, NEW h \in uses[i]
      PROVE  OwnerOf(h)' = Maint <=> OwnerOf(h) = Maint
  <2>1. i \in Job /\ h \in Handle /\ OwnerOf(h) \in {i, Maint} /\ OwnerOf(h)' \in {i, Maint}
    <3>1. i \in running' /\ h \in uses'[i]
      BY DEF gpuVars
    <3> QED
      BY <3>1 DEF Exclusive, Inv, Types, GpuTypes
  <2> QED
    BY <1>1, <1>2, <2>1, NativeAssumption
<1>4. Busy' = Busy
  BY <1>3, BusySame
<1>5. ASSUME NEW r \in Tickets!Moved
      PROVE  {Owner[r], Owner'[r]} = {None, Maint} /\ r \notin Busy
  <2>1. r \in Handle /\ OwnerOf(r)' # OwnerOf(r)
    BY DEF Tickets!Moved, Owner
  <2>2. OwnerOf(r) \in {None, Maint} /\ OwnerOf(r)' \in {None, Maint}
    BY <1>1, <1>2, <2>1
  <2>3. {OwnerOf(r), OwnerOf(r)'} = {None, Maint}
    BY <2>1, <2>2
  <2>4. r \notin Busy
    BY <2>2, BusyOwned, NativeAssumption
  <2> QED
    BY <2>1, <2>3, <2>4 DEF Owner
<1>6. Tickets!Keep
  BY <1>4, <1>5, OwnerFunctions DEF Tickets!Keep, Owner, Busy
<1> QED
  BY <1>6 DEF AbstractStep, Tickets!Next

\* A ticket gets one handle that nobody had.
LEMMA AcquireStep ==
    ASSUME Inv, Exclusive, Exclusive', UNCHANGED gpuVars, NEW j \in Job, NEW d \in Handle,
           ~InUse(d), \A i \in Job : d \notin OwnedBy(i), d \in OwnedBy(j)',
           \A h \in Handle \ {d} : SameOwner(h)
    PROVE  AbstractStep
<1>1. OwnerOf(d) = None /\ OwnerOf(d)' = j
  BY OwnerNot, OwnerIsNext DEF Exclusive
<1>2. \A h \in Handle \ {d} : OwnerOf(h)' = OwnerOf(h)
  BY OwnerSame DEF Exclusive
<1>3. ASSUME NEW i \in running, NEW h \in uses[i]
      PROVE  OwnerOf(h)' = Maint <=> OwnerOf(h) = Maint
  <2>1. i \in Job /\ h \in Handle /\ OwnerOf(h) \in {i, Maint}
    BY DEF Exclusive, Inv, Types, GpuTypes
  <2>2. h # d
    BY <1>1, <2>1, NativeAssumption
  <2> QED
    BY <1>2, <2>1, <2>2
<1>4. Busy' = Busy
  BY <1>3, BusySame
<1>5. ASSUME NEW r \in Tickets!Moved
      PROVE  Owner[r] = None /\ Owner'[r] = j
  <2>1. r \in Handle /\ OwnerOf(r)' # OwnerOf(r)
    BY DEF Tickets!Moved, Owner
  <2>2. r = d
    BY <1>2, <2>1
  <2> QED
    BY <1>1, <2>1, <2>2 DEF Owner
<1>6. Tickets!Acquire(j)
  BY <1>4, <1>5, OwnerFunctions DEF Tickets!Acquire, Owner, Busy
<1> QED
  BY <1>6 DEF AbstractStep, Tickets!Next

\* A ticket that no longer runs gives up some of what it has: to a pool, a cache
\* or the driver.
LEMMA ReleaseStep ==
    ASSUME Inv, Exclusive, Exclusive', UNCHANGED gpuVars, NEW j \in Job, j \notin running,
           \A h \in Handle : \/ SameOwner(h)
                             \/ h \in OwnedBy(j) /\ \A i \in Job \ {j} : h \notin OwnedBy(i)'
    PROVE  AbstractStep
<1>1. ASSUME NEW h \in Handle, OwnerOf(h)' # OwnerOf(h)
      PROVE  OwnerOf(h) = j /\ OwnerOf(h)' \in {None, Maint}
  <2>1. h \in OwnedBy(j) /\ \A i \in Job \ {j} : h \notin OwnedBy(i)'
    BY <1>1, OwnerSame DEF Exclusive
  <2>2. OwnerOf(h) = j
    BY <2>1, OwnerIs DEF Exclusive
  <2>3. h \notin OwnedBy(j)'
    BY <1>1, <2>2, OwnerIsNext DEF Exclusive
  <2>4. \A i \in Job : h \notin OwnedBy(i)'
    BY <2>1, <2>3
  <2> QED
    BY <2>2, <2>4, OwnerNotNext
<1>2. ASSUME NEW i \in running, NEW h \in uses[i]
      PROVE  OwnerOf(h)' = OwnerOf(h)
  <2>1. i \in Job /\ h \in Handle /\ OwnerOf(h) \in {i, Maint}
    BY DEF Exclusive, Inv, Types, GpuTypes
  <2>2. OwnerOf(h) # j
    BY <2>1, NativeAssumption
  <2> QED
    BY <1>1, <2>1, <2>2
<1>3. Busy' = Busy
  BY <1>2, BusySame
<1>4. ASSUME NEW r \in Tickets!Moved
      PROVE  Owner[r] = j /\ Owner'[r] \in {None, Maint} /\ r \notin Busy
  <2>1. r \in Handle /\ OwnerOf(r)' # OwnerOf(r)
    BY DEF Tickets!Moved, Owner
  <2>2. OwnerOf(r) = j /\ OwnerOf(r)' \in {None, Maint}
    BY <1>1, <2>1
  <2>3. r \notin Busy
    BY <2>2, BusyOwned
  <2> QED
    BY <2>1, <2>2, <2>3 DEF Owner
<1>5. Tickets!Release(j)
  BY <1>3, <1>4, OwnerFunctions DEF Tickets!Release, Owner, Busy
<1> QED
  BY <1>5 DEF AbstractStep, Tickets!Next

\* The device gets more work of one ticket.
LEMMA SubmitStep ==
    ASSUME Inv, Exclusive, Exclusive', NEW j \in Job,
           \A h \in Handle : OwnerOf(h)' = OwnerOf(h),
           running' = running \cup {j},
           \A i \in running : uses'[i] = uses[i]
    PROVE  AbstractStep
<1>1. ASSUME NEW r \in Busy' PROVE r \in Busy \/ (r \in Handle /\ Owner[r] = j)
  <2>1. PICK i \in running' : r \in uses'[i] /\ OwnerOf(r)' # Maint
    BY DEF Busy
  <2>2. r \in Handle /\ OwnerOf(r)' \in {i, Maint}
    BY <2>1 DEF Exclusive
  <2>3. OwnerOf(r) = i /\ OwnerOf(r) # Maint
    BY <2>1, <2>2
  <2>4. CASE i \in running
    BY <2>1, <2>3, <2>4 DEF Busy
  <2>5. CASE i = j
    BY <2>2, <2>3, <2>5 DEF Owner
  <2> QED
    BY <2>4, <2>5
<1>2. ASSUME NEW r \in Busy PROVE r \in Busy'
  <2>1. PICK i \in running : r \in uses[i] /\ OwnerOf(r) # Maint
    BY DEF Busy
  <2>2. r \in Handle
    BY <2>1 DEF Exclusive
  <2>3. i \in running' /\ r \in uses'[i] /\ OwnerOf(r)' # Maint
    BY <2>1, <2>2
  <2> QED
    BY <2>3 DEF Busy
<1>3. Owner' = Owner
  BY DEF Owner
<1>4. Busy' \subseteq Busy \cup {r \in Handle : Owner[r] = j} /\ Busy \subseteq Busy'
  BY <1>1, <1>2
<1>5. Tickets!Submit(j)
  BY <1>3, <1>4 DEF Tickets!Submit, Owner, Busy
<1> QED
  BY <1>5 DEF AbstractStep, Tickets!Next

\* The device ends work.
LEMMA FinishStep ==
    ASSUME Inv,
           \A h \in Handle : OwnerOf(h)' = OwnerOf(h),
           running' \subseteq running,
           \A i \in running' : uses'[i] = uses[i]
    PROVE  AbstractStep
<1>1. ASSUME NEW r \in Busy' PROVE r \in Busy
  <2>1. PICK i \in running' : r \in uses'[i] /\ OwnerOf(r)' # Maint
    BY DEF Busy
  <2>2. i \in running /\ r \in uses[i]
    BY <2>1
  <2>3. OwnerOf(r) # Maint
    BY <2>1, <2>2 DEF Inv, Types, GpuTypes
  <2> QED
    BY <2>2, <2>3 DEF Busy
<1>2. Owner' = Owner
  BY DEF Owner
<1>3. Tickets!Finish
  BY <1>1, <1>2 DEF Tickets!Finish, Owner, Busy
<1> QED
  BY <1>3 DEF AbstractStep, Tickets!Next

-----------------------------------------------------------------------------
(* The steps of the explicit APIs.                                         *)

\* What the steps of one API start from and lead to.
Steps == /\ Inv /\ FlightInv /\ Exclusive /\ Exclusive'
         /\ UNCHANGED backend

LEMMA HeldOwned ==
    ASSUME Steps, Explicit
    PROVE  \A i \in Job : OwnedBy(i) = held[i] /\ OwnedBy(i)' = held'[i]
  BY DEF Steps, Explicit, OwnedBy

LEMMA HeldKept ==
    ASSUME Steps, Explicit, UNCHANGED <<held, gpuVars>>
    PROVE  AbstractStep
<1>1. \A h \in Handle : \A i \in Job : h \in OwnedBy(i)' <=> h \in OwnedBy(i)
  BY HeldOwned
<1> QED
  BY <1>1, KeepStep DEF Steps

LEMMA ObtainsStep ==
    ASSUME Steps, Explicit, NEW j \in Job, NEW d, Obtains(j, d), UNCHANGED gpuVars
    PROVE  AbstractStep
<1>1. /\ refs \in [Handle -> Nat] /\ pool \in [Handle -> Nat] /\ held \in [Job -> SUBSET Handle]
      /\ d \in Handle /\ Available(d) /\ Unowned(d) /\ OnePlace(d)
  BY AvailableUnowned DEF Steps, Inv, Types, HandleTypes, Obtains, ExplicitOwned, Ownership
<1>2. /\ held' = [held EXCEPT ![j] = @ \cup {d}]
      /\ refs' = [refs EXCEPT ![d] = 1] /\ pool' = [pool EXCEPT ![d] = 0]
  BY DEF Obtains
<1>3. ~InUse(d) /\ \A i \in Job : d \notin OwnedBy(i)
  BY <1>1, HeldOwned DEF InUse, Unowned, Available, New, OnePlace
<1>4. d \in OwnedBy(j)'
  BY <1>1, <1>2, HeldOwned
<1>5. ASSUME NEW h \in Handle \ {d} PROVE SameOwner(h)
  <2>1. \A i \in Job : h \in held'[i] <=> h \in held[i]
    BY <1>1, <1>2
  <2>2. refs'[h] = refs[h] /\ pool'[h] = pool[h]
    BY <1>1, <1>2
  <2> QED
    BY <2>1, <2>2, HeldOwned DEF SameOwner, InUse
<1> QED
  BY <1>1, <1>3, <1>4, <1>5, AcquireStep DEF Steps

\* A ticket that does not run gives handles up, and nothing else moves.
LEMMA HeldReleased ==
    ASSUME Steps, Explicit, NEW j \in Job, j \notin running, UNCHANGED gpuVars,
           \A i \in Job \ {j} : held'[i] = held[i], held'[j] \subseteq held[j],
           \A h \in Handle \ held[j] : refs'[h] = refs[h] /\ pool'[h] = pool[h]
    PROVE  AbstractStep
<1>1. ASSUME NEW h \in Handle, h \notin held[j] PROVE SameOwner(h)
  <2>1. \A i \in Job : h \in held'[i] <=> h \in held[i]
    BY <1>1
  <2> QED
    BY <1>1, <2>1, HeldOwned DEF SameOwner, InUse
<1>2. ASSUME NEW h \in held[j] PROVE \A i \in Job \ {j} : h \notin held'[i]
  BY DEF Steps, Inv, ExplicitOwned, Ownership, OnePlace, Types, HandleTypes
<1>3. \A h \in Handle : \/ SameOwner(h)
                        \/ h \in OwnedBy(j) /\ \A i \in Job \ {j} : h \notin OwnedBy(i)'
  BY <1>1, <1>2, HeldOwned
<1> QED
  BY <1>3, ReleaseStep DEF Steps

LEMMA LaunchStep ==
    ASSUME Steps, Explicit, NEW j \in Job, launch(j)
    PROVE  AbstractStep
<1>1. /\ running' = running \cup {j} /\ uses' = [uses EXCEPT ![j] = Used(j)]
      /\ UNCHANGED <<held, refs, pool>>
  BY DEF launch, handleVars
<1>2. ASSUME NEW h \in Handle PROVE OwnerOf(h)' = OwnerOf(h)
  <2>1. SameOwner(h)
    BY <1>1, HeldOwned DEF SameOwner, InUse
  <2> QED
    BY <2>1, OwnerSame DEF Steps, Exclusive
<1>3. j \in running => uses[j] = Used(j)
  <2>1. InFlight(j) /\ Gone(j) = {}
    BY DEF Steps, FlightInv, Gone, ModulesDropped, launch, At
  <2> QED
    BY <2>1 DEF InFlight
<1>4. \A i \in running : uses'[i] = uses[i]
  BY <1>1, <1>3 DEF Steps, Inv, Types, GpuTypes
<1> QED
  BY <1>1, <1>2, <1>4, SubmitStep DEF Steps

LEMMA LutStep ==
    ASSUME Steps, Explicit, NEW j \in Job, NEW i \in pending[j],
           insert_lut(j, i) \/ FreeDuplicateFails(j, i)
    PROVE  AbstractStep
<1> DEFINE d == memory[j][i]
<1>1. /\ held \in [Job -> SUBSET Handle] /\ refs \in [Handle -> Nat]
      /\ TicketOwns(j) /\ InFlight(j)
  BY DEF Steps, Inv, Types, HandleTypes, ExplicitOwned, FlightInv
<1>2. d \in held[j]
  BY <1>1 DEF TicketOwns
<1>3. /\ phase[j] = "tables" /\ UNCHANGED <<pool, gpuVars>>
      /\ held' = [held EXCEPT ![j] = @ \ {d}]
      /\ \/ UNCHANGED refs
         \/ refs' = [h \in Handle |-> IF h \in {d} THEN 0 ELSE refs[h]]
  BY DEF insert_lut, FreeDuplicateFails, At, Destroy
<1>4. j \notin running
  BY <1>1, <1>3 DEF InFlight, Flying
<1> HIDE DEF d
<1>5. /\ \A k \in Job \ {j} : held'[k] = held[k]
      /\ held'[j] \subseteq held[j]
      /\ \A h \in Handle \ held[j] : refs'[h] = refs[h] /\ pool'[h] = pool[h]
  BY <1>1, <1>2, <1>3
<1> QED
  BY <1>3, <1>4, <1>5, HeldReleased

LEMMA RecycleStep ==
    ASSUME Steps, Explicit, NEW j \in Job, Recycles(j)
    PROVE  AbstractStep
<1>1. PICK others \in SUBSET (held[j] \cap Kernel) : recycle(j, others)
  BY DEF Recycles
<1> DEFINE kept == IF LastStage(j) THEN {} ELSE {Output(j)}
           back == (Transients(j) \ kept) \cup (held[j] \cap Queue) \cup others
<1>2. /\ phase[j] = "tables" /\ UNCHANGED <<refs, gpuVars>>
      /\ held' = [held EXCEPT ![j] = @ \ back]
      /\ pool' = [h \in Handle |-> pool[h] + (IF h \in back THEN 1 ELSE 0)]
  BY <1>1 DEF recycle, At
<1>3. /\ held \in [Job -> SUBSET Handle] /\ pool \in [Handle -> Nat]
      /\ TicketOwns(j) /\ InFlight(j)
  BY DEF Steps, Inv, Types, HandleTypes, ExplicitOwned, FlightInv
<1>4. Transients(j) \subseteq held[j]
  BY <1>2, <1>3 DEF Transients, Tables, TicketOwns, Transient, Working, Allocated
<1>5. back \subseteq held[j]
  BY <1>4
<1>6. j \notin running
  BY <1>2, <1>3 DEF InFlight, Flying
<1> HIDE DEF back
<1>7. /\ \A k \in Job \ {j} : held'[k] = held[k]
      /\ held'[j] \subseteq held[j]
      /\ \A h \in Handle \ held[j] : refs'[h] = refs[h] /\ pool'[h] = pool[h]
  BY <1>2, <1>3, <1>5
<1> QED
  BY <1>2, <1>6, <1>7, HeldReleased

LEMMA EndStep ==
    ASSUME Steps, Explicit, NEW j \in Job, Ends(j)
    PROVE  AbstractStep
<1>1. /\ held \in [Job -> SUBSET Handle] /\ pool \in [Handle -> Nat]
      /\ refs \in [Handle -> Nat] /\ InFlight(j)
  BY DEF Steps, Inv, Types, HandleTypes, FlightInv
<1>2. UNCHANGED <<pool, gpuVars>> /\ j \notin running
  BY <1>1 DEF Ends, DropEnds, Unwinds, At, DeviceDone, InFlight, Flying
<1>3. PICK hs \in SUBSET held[j] :
         /\ refs' = [h \in Handle |-> IF h \in hs THEN 0 ELSE refs[h]]
         /\ \E rest \in SUBSET held[j] : held' = [held EXCEPT ![j] = rest]
  <2>1. CASE DropEnds(j)
    <3>1. /\ refs' = [h \in Handle |-> IF h \in held[j] \ {resident[j]} THEN 0 ELSE refs[h]]
          /\ held' = [held EXCEPT ![j] = held[j] \cap {resident[j]}]
      BY <2>1 DEF DropEnds, Destroy
    <3>2. held[j] \ {resident[j]} \in SUBSET held[j] /\ held[j] \cap {resident[j]} \in SUBSET held[j]
      OBVIOUS
    <3> QED
      BY <3>1, <3>2
  <2>2. CASE Unwinds(j)
    <3>1. /\ refs' = [h \in Handle |-> IF h \in held[j] THEN 0 ELSE refs[h]]
          /\ held' = [held EXCEPT ![j] = {}]
      BY <2>2 DEF Unwinds, Destroy
    <3>2. held[j] \in SUBSET held[j] /\ {} \in SUBSET held[j]
      OBVIOUS
    <3> QED
      BY <3>1, <3>2
  <2> QED
    BY <2>1, <2>2 DEF Ends
<1>4. /\ \A k \in Job \ {j} : held'[k] = held[k]
      /\ held'[j] \subseteq held[j]
      /\ \A h \in Handle \ held[j] : refs'[h] = refs[h] /\ pool'[h] = pool[h]
  BY <1>1, <1>2, <1>3
<1> QED
  BY <1>2, <1>4, HeldReleased

LEMMA ExplicitRefines ==
    ASSUME Steps, Explicit, ExplicitMove, \A j \in Job : ~Unloads(j)
    PROVE  \/ AbstractStep \/ \E j \in Job : DeviceEnds(j)
<1>1. CASE \E j \in Job : TicketMove(j)
  <2>1. PICK j \in Job : TicketMove(j)
    BY <1>1
  <2>2. CASE TakesQueue(j) \/ Uploads(j) \/ TakesTransient(j) \/ LoadsOwn(j)
    <3>1. UNCHANGED gpuVars /\ \E d : Obtains(j, d)
      BY <2>2 DEF TakesQueue, Uploads, TakesTransient, LoadsOwn
    <3> QED
      BY <3>1, ObtainsStep
  <2>3. CASE \/ \E c \in Chains[j] : Submit(j, c, "queue")
             \/ cached_table(j) \/ take_resident(j) \/ MovesOn(j)
             \/ LoadsShared(j) \/ LoadsCached(j)
    <3>1. UNCHANGED <<held, gpuVars>>
      BY <2>3 DEF Submit, cached_table, take_resident, MovesOn, LoadsShared, LoadsCached,
         handleVars
    <3> QED
      BY <3>1, HeldKept
  <2>4. CASE launch(j)
    BY <2>4, LaunchStep
  <2>5. CASE \E i \in pending[j] : insert_lut(j, i) \/ FreeDuplicateFails(j, i)
    BY <2>5, LutStep
  <2> QED
    BY <2>1, <2>2, <2>3, <2>4, <2>5, RecycleStep, EndStep DEF TicketMove
<1>2. CASE Builds \/ PoolsKernel \/ KeepsStill \/ BeginsClear \/ Clears \/ DropsContext
  <2>1. UNCHANGED <<held, gpuVars>>
    BY <1>2 DEF Builds, PoolsKernel, KeepsStill, BeginsClear, BeginClear, Clears, Drain,
       DropsContext, DropContext, handleVars
  <2> QED
    BY <2>1, HeldKept
<1> QED
  BY <1>1, <1>2 DEF ExplicitMove

\* The device ends a submission, with any API.
LEMMA DeviceStep ==
    ASSUME Inv, Apart, Apart', UNCHANGED backend, NEW j \in Job, DeviceEnds(j)
    PROVE  AbstractStep
<1>1. /\ running' = running \ {j} /\ uses' = [uses EXCEPT ![j] = {}]
      /\ UNCHANGED <<chain, stage, held, refs, pool, memory, backend>>
  BY DEF DeviceEnds, flowVars, handleVars
<1>2. ASSUME NEW h \in Handle PROVE OwnerOf(h)' = OwnerOf(h)
  <2>1. ASSUME NEW i \in Job PROVE OwnedBy(i)' = OwnedBy(i)
    <3>1. Transients(i)' = Transients(i)
      BY <1>1 DEF Transients, Tables, Plan, TheProgram
    <3> QED
      BY <1>1, <3>1 DEF OwnedBy
  <2>2. SameOwner(h)
    BY <1>1, <2>1 DEF SameOwner, InUse
  <2> QED
    BY <2>2, OwnerSame
<1>3. /\ running' \subseteq running
      /\ \A i \in running' : uses'[i] = uses[i]
  BY <1>1 DEF Inv, Types, GpuTypes
<1> QED
  BY <1>2, <1>3, FinishStep

-----------------------------------------------------------------------------
(* The steps of Metal.                                                     *)

\* The transients of a ticket of Metal, and of the others.
LEMMA TransientsOwned ==
    ASSUME Steps, ~Explicit, NEW i \in Job
    PROVE  OwnedBy(i) = Transients(i) /\ OwnedBy(i)' = Transients(i)'
  BY DEF Steps, Explicit, OwnedBy

LEMMA TransientsSame ==
    ASSUME NEW i \in Job, memory'[i] = memory[i], chain'[i] = chain[i], stage'[i] = stage[i]
    PROVE  Transients(i)' = Transients(i)
  BY DEF Transients, Tables, Plan, TheProgram

\* A handle that is a transient of a ticket.
LEMMA TransientOf ==
    ASSUME NEW j \in Job, NEW h
    PROVE  h \in Transients(j) <=>
              \E i \in DOMAIN memory[j] : Plan(j)[i] \notin Key /\ memory[j][i] = h
  BY DEF Transients, Tables

LEMMA TransientOfNext ==
    ASSUME NEW j \in Job, NEW h
    PROVE  h \in Transients(j)' <=>
              \E i \in DOMAIN memory'[j] : Plan(j)'[i] \notin Key /\ memory'[j][i] = h
  BY DEF Transients, Tables

LEMMA TransientsKept ==
    ASSUME Steps, ~Explicit, NEW j \in Job, Others(j), UNCHANGED gpuVars,
           \A h \in Handle : h \in Transients(j)' <=> h \in Transients(j)
    PROVE  AbstractStep
<1>1. ASSUME NEW i \in Job, i # j PROVE Transients(i)' = Transients(i)
  BY <1>1, TransientsSame DEF Others
<1>2. \A h \in Handle : \A i \in Job : h \in OwnedBy(i)' <=> h \in OwnedBy(i)
  BY <1>1, TransientsOwned
<1> QED
  BY <1>2, KeepStep DEF Steps

\* A buffer is placed for entry Index(j): what that adds to the transients.
LEMMA TransientsPlaced ==
    ASSUME Types, Control, NEW j \in Job, NEW d \in Device, Allocating(j), Place(j, d),
           UNCHANGED <<chain, stage>>
    PROVE  Transients(j)' = IF TheEntry(j) \in Key THEN Transients(j)
                            ELSE Transients(j) \cup {d}
<1> DEFINE n == Len(memory[j]) + 1
<1>1. /\ DOMAIN memory'[j] = DOMAIN memory[j] \cup {n} /\ memory'[j][n] = d
      /\ \A i \in DOMAIN memory[j] : memory'[j][i] = memory[j][i]
      /\ n \notin DOMAIN memory[j]
  BY Placed, TicketSequences
<1>2. Plan(j)' = Plan(j) /\ Plan(j)[n] = TheEntry(j)
  BY EntryTyped DEF Plan, TheProgram
<1> HIDE DEF n
<1>3. ASSUME NEW h PROVE h \in Transients(j)' <=>
          h \in Transients(j) \/ (TheEntry(j) \notin Key /\ h = d)
  BY <1>1, <1>2, TransientOf, TransientOfNext
<1> QED
  BY <1>3

\* The transients of a ticket are erased.
LEMMA TransientsErased ==
    ASSUME NEW j \in Job, UNCHANGED <<chain, stage>>, memory \in [Job -> Seq(Device \cup {None})],
           memory' = [memory EXCEPT ![j] =
                        [i \in DOMAIN memory[j] |->
                           IF i \in Recyclable(j) THEN None ELSE memory[j][i]]]
    PROVE  \A h \in Handle : h \notin Transients(j)'
<1>1. Plan(j)' = Plan(j)
  BY DEF Plan, TheProgram
<1>2. /\ DOMAIN memory'[j] = DOMAIN memory[j]
      /\ \A i \in DOMAIN memory[j] : Plan(j)[i] \notin Key => memory'[j][i] = None
  BY DEF Recyclable, Tables
<1>3. ASSUME NEW h \in Handle PROVE h \notin Transients(j)'
  <2>1. h # None
    BY NativeAssumption
  <2>2. \A i \in DOMAIN memory'[j] : ~(Plan(j)'[i] \notin Key /\ memory'[j][i] = h)
    BY <1>1, <1>2, <2>1
  <2> QED
    BY <2>2, TransientOfNext
<1> QED
  BY <1>3

\* A ticket gives all its transients up.
LEMMA TransientsReleased ==
    ASSUME Steps, ~Explicit, NEW j \in Job, Others(j), UNCHANGED gpuVars, j \notin running,
           \A h \in Handle : h \notin Transients(j)',
           \A h \in Handle : h \in Transients(j) \/ (InUse(h)' <=> InUse(h))
    PROVE  AbstractStep
<1>1. ASSUME NEW i \in Job, i # j PROVE Transients(i)' = Transients(i)
  BY <1>1, TransientsSame DEF Others
<1>2. ASSUME NEW h \in Handle, h \notin Transients(j) PROVE SameOwner(h)
  BY <1>1, <1>2, TransientsOwned DEF SameOwner
<1>3. ASSUME NEW h \in Handle, h \in Transients(j)
      PROVE  h \in OwnedBy(j) /\ \A i \in Job \ {j} : h \notin OwnedBy(i)'
  <2>1. h \in OwnedBy(j)
    BY <1>3, TransientsOwned
  <2>2. \A i \in Job \ {j} : h \notin OwnedBy(i)
    BY <2>1 DEF Steps, Exclusive, Apart
  <2> QED
    BY <1>1, <2>1, <2>2, TransientsOwned
<1> QED
  BY <1>2, <1>3, ReleaseStep DEF Steps

LEMMA SharedBufferStep ==
    ASSUME Steps, ~Explicit, NEW j \in Job, Others(j), take_shared_buffer(j)
    PROVE  AbstractStep
<1>1. /\ Types /\ Control /\ Inv /\ refs \in [Handle -> Nat] /\ pool \in [Handle -> Nat]
  BY DEF Steps, Inv, Types, HandleTypes
<1>2. PICK d \in Obtainable(Device) : refs' = TakeBuffer(d) /\ Place(j, d) /\ Unpool({d})
  BY DEF take_shared_buffer
<1>3. /\ d \in Device /\ d \in Handle /\ Occurrences(memory, d) = {}
      /\ refs' = [refs EXCEPT ![d] = 1] /\ refs[d] = pool[d] /\ pool[d] \in {0, 1}
  BY <1>1, <1>2, BufferTaken
<1>4. pool' = [pool EXCEPT ![d] = 0]
  BY <1>1, <1>2, <1>3, Unpooled
<1>5. Transients(j)' = Transients(j) \cup {d}
  BY <1>1, <1>2, <1>3, TransientsPlaced DEF take_shared_buffer
<1>6. ASSUME NEW i \in Job PROVE d \notin OwnedBy(i)
  <2>1. \A x \in DOMAIN memory[i] : memory[i][x] # d
    BY <1>3, OccurrenceIn
  <2> QED
    BY <2>1, TransientsOwned, TransientOf
<1>7. ~InUse(d) /\ d \in OwnedBy(j)'
  BY <1>1, <1>3, <1>5, TransientsOwned DEF InUse
<1>8. ASSUME NEW h \in Handle \ {d} PROVE SameOwner(h)
  <2>1. refs'[h] = refs[h] /\ pool'[h] = pool[h]
    BY <1>1, <1>3, <1>4
  <2>2. ASSUME NEW i \in Job PROVE h \in OwnedBy(i)' <=> h \in OwnedBy(i)
    <3>1. CASE i = j
      BY <1>5, <3>1, TransientsOwned
    <3>2. CASE i # j
      BY <3>2, TransientsSame, TransientsOwned DEF Others
    <3> QED
      BY <3>1, <3>2
  <2> QED
    BY <2>1, <2>2 DEF SameOwner, InUse
<1> QED
  BY <1>3, <1>6, <1>7, <1>8, AcquireStep DEF Steps, take_shared_buffer

LEMMA CommitStep ==
    ASSUME Steps, ~Explicit, NEW j \in Job, commit(j)
    PROVE  AbstractStep
<1>1. /\ running' = running \cup {j} /\ uses' = [uses EXCEPT ![j] = Used(j)]
      /\ UNCHANGED <<chain, stage, refs, pool, memory>> /\ phase[j] = "module"
  BY DEF commit, At, handleVars, dataVars
<1>2. ASSUME NEW h \in Handle PROVE OwnerOf(h)' = OwnerOf(h)
  <2>1. \A i \in Job : OwnedBy(i)' = OwnedBy(i)
    BY <1>1, TransientsSame, TransientsOwned
  <2>2. SameOwner(h)
    BY <1>1, <2>1 DEF SameOwner, InUse
  <2> QED
    BY <2>2, OwnerSame DEF Steps, Exclusive
<1>3. j \notin running
  BY <1>1 DEF Steps, FlightInv, InFlight, Flying
<1>4. \A i \in running : uses'[i] = uses[i]
  BY <1>1, <1>3 DEF Steps, Inv, Types, GpuTypes
<1> QED
  BY <1>1, <1>2, <1>4, SubmitStep DEF Steps

LEMMA GivesUpStep ==
    ASSUME Steps, ~Explicit, NEW j \in Job, Others(j), recycle_buffers(j) \/ metal_unwinds(j)
    PROVE  AbstractStep
<1>1. /\ Types /\ Inv /\ InFlight(j)
      /\ refs \in [Handle -> Nat] /\ pool \in [Handle -> Nat]
      /\ memory \in [Job -> Seq(Device \cup {None})]
  BY DEF Steps, Inv, FlightInv, Types, HandleTypes, DataTypes
<1>2. /\ UNCHANGED gpuVars /\ UNCHANGED <<chain, stage>> /\ j \notin running
      /\ memory' = [memory EXCEPT ![j] =
                       [i \in DOMAIN memory[j] |->
                          IF i \in Recyclable(j) THEN None ELSE memory[j][i]]]
  BY <1>1 DEF recycle_buffers, metal_unwinds, DeviceDone, Continue, At, InFlight, Flying
<1>3. \A h \in Handle : h \notin Transients(j)'
  BY <1>1, <1>2, TransientsErased
<1>4. Offered(j) = Transients(j)
  BY DEF Offered, Recyclable, Transients
<1>5. ASSUME NEW h \in Handle, h \notin Transients(j) PROVE InUse(h)' <=> InUse(h)
  <2>1. CASE recycle_buffers(j)
    <3>1. PICK gone : Recycled(j, gone)
      BY <1>1, <2>1, BuffersRecycled
    <3>2. /\ pool'[h] = IF h \in gone THEN 0 ELSE pool[h]
          /\ refs'[h] = Minus(refs[h], IF h \in gone THEN 1 ELSE 0)
          /\ h \in gone => pool[h] > 0
      BY <1>1, <1>4, <1>5, <3>1 DEF Recycled, Referenced, Pooled
    <3>3. pool[h] > 0 => pool[h] = 1 /\ refs[h] = 1
      BY <1>1 DEF Inv, MetalCounted, Counted
    <3> QED
      BY <1>1, <3>2, <3>3 DEF InUse, Minus
  <2>2. CASE metal_unwinds(j)
    <3>1. pool' = pool /\ refs' = Referenced(refs, {}, Offered(j))
      BY <2>2 DEF metal_unwinds, ReleaseAll, Offered
    <3>2. refs'[h] = refs[h]
      BY <1>1, <1>4, <1>5, <3>1 DEF Referenced, Minus
    <3> QED
      BY <3>1, <3>2 DEF InUse
  <2> QED
    BY <2>1, <2>2
<1> QED
  BY <1>2, <1>3, <1>5, TransientsReleased

LEMMA MetalTicketRefines ==
    ASSUME Steps, ~Explicit, NEW j \in Job, MetalMove(j)
    PROVE  AbstractStep
<1>1. Types /\ Control /\ Inv /\ Flow(j) /\ MetalTicket(j)
  BY DEF Steps, Inv, Control, MetalCounted
<1>2. Others(j)
  BY <1>1, MetalAlone
<1>3. CASE \E c \in Chains[j] : Submit(j, c, "alloc")
  <2>1. UNCHANGED <<memory, gpuVars>> /\ memory[j] = << >>
    BY <1>1, <1>3 DEF Submit, dataVars, Flow
  <2>2. DOMAIN memory[j] = {} /\ DOMAIN memory'[j] = {}
    BY <2>1
  <2>3. \A h \in Handle : h \in Transients(j)' <=> h \in Transients(j)
    BY <2>2, TransientOf, TransientOfNext
  <2> QED
    BY <1>2, <2>1, <2>3, TransientsKept
<1>4. CASE MovesOn(j) \/ metal_cached_pipeline(j) \/ compile_pipeline(j)
  <2>1. UNCHANGED <<chain, stage, memory, gpuVars>>
    BY <1>4 DEF MovesOn, metal_cached_pipeline, Loaded, Continue, compile_pipeline, dataVars
  <2> QED
    BY <1>2, <2>1, TransientsSame, TransientsKept
<1>5. CASE metal_cached_table(j) \/ take_lookup_buffer(j)
  <2>1. /\ UNCHANGED <<chain, stage, gpuVars>> /\ Allocating(j) /\ TheEntry(j) \in Key
        /\ \E d \in Device : Place(j, d)
    <3>1. CASE metal_cached_table(j)
      <4>1. /\ Place(j, lutCache.entries[TheEntry(j)]) /\ TheEntry(j) \in Keys(lutCache)
            /\ UNCHANGED <<chain, stage, gpuVars>> /\ Allocating(j)
        BY <3>1 DEF metal_cached_table
      <4>2. IsCache(lutCache, Key, Device)
        BY <1>1 DEF Types, DataTypes
      <4>3. TheEntry(j) \in Key /\ lutCache.entries[TheEntry(j)] \in Device
        BY <4>1, <4>2 DEF IsCache, Keys
      <4> QED
        BY <4>1, <4>3
    <3>2. CASE take_lookup_buffer(j)
      <4>1. PICK d \in Device : Lookup(j, d)
        BY <1>1, <3>2, LookupTaken
      <4>2. Place(j, d)
        BY <4>1 DEF Lookup
      <4> QED
        BY <3>2, <4>2 DEF take_lookup_buffer
    <3> QED
      BY <1>5, <3>1, <3>2
  <2>2. Transients(j)' = Transients(j)
    BY <1>1, <2>1, TransientsPlaced
  <2> QED
    BY <1>2, <2>1, <2>2, TransientsKept
<1>6. CASE MetalReleases(j)
  <2>1. phase[j] = "free" /\ UNCHANGED gpuVars /\ DOMAIN memory'[j] = {}
    BY <1>1, <1>6 DEF MetalReleases, At, Forgets, Types, DataTypes
  <2>2. ASSUME NEW h \in Handle PROVE h \notin Transients(j) /\ h \notin Transients(j)'
    <3>1. h # None
      BY NativeAssumption
    <3>2. \A i \in DOMAIN memory[j] : ~(Plan(j)[i] \notin Key /\ memory[j][i] = h)
      BY <1>1, <2>1, <3>1 DEF MetalTicket, Transient
    <3> QED
      BY <2>1, <3>2, TransientOf, TransientOfNext
  <2> QED
    BY <1>2, <2>1, <2>2, TransientsKept
<1>7. CASE take_shared_buffer(j)
  BY <1>2, <1>7, SharedBufferStep
<1> QED
  BY <1>2, <1>3, <1>4, <1>5, <1>6, <1>7, CommitStep, DeviceStep, GivesUpStep
  DEF MetalMove, Steps, Exclusive

LEMMA MetalContextRefines ==
    ASSUME Steps, ~Explicit, MetalDropContext \/ \E s \in Source : MetalReport(s)
    PROVE  AbstractStep
<1>1. UNCHANGED <<chain, stage, memory, gpuVars>>
  BY DEF MetalDropContext, MetalReport, flowVars, dataVars
<1>2. \A h \in Handle : \A i \in Job : h \in OwnedBy(i)' <=> h \in OwnedBy(i)
  BY <1>1, TransientsSame, TransientsOwned
<1> QED
  BY <1>1, <1>2, KeepStep DEF Steps

-----------------------------------------------------------------------------
(* The refinement.                                                         *)

\* A failed submission of HIP gives up its modules, which the device may use.
LEMMA UnloadStep ==
    ASSUME Inv, Apart, Apart', UNCHANGED backend, NEW j \in Job, Unloads(j)
    PROVE  UnloadsInUse
<1>1. /\ backend = "Hip" /\ phase[j] = "unwind" /\ loaded[j] # << >> /\ loaded'[j] = << >>
      /\ held' = [held EXCEPT ![j] = @ \ Module] /\ UNCHANGED <<pool, gpuVars>>
      /\ refs' = [h \in Handle |-> IF h \in held[j] \cap Module THEN 0 ELSE refs[h]]
      /\ refs \in [Handle -> Nat] /\ pool \in [Handle -> Nat] /\ held \in [Job -> SUBSET Handle]
      /\ uses \in [Job -> SUBSET Handle] /\ running \subseteq Job
  BY DEF Unloads, hip_unload, At, Destroy, Inv, Types, CodeTypes, HandleTypes, GpuTypes
<1>2. \A i \in Job : OwnedBy(i) = held[i] /\ OwnedBy(i)' = held'[i]
  BY <1>1 DEF OwnedBy
<1>3. ASSUME NEW h \in Handle, h \in held[j] \cap Module
      PROVE  OwnerOf(h) = j /\ OwnerOf(h)' = None
  <2>1. OwnerOf(h) = j
    BY <1>2, <1>3, OwnerIs
  <2>2. ASSUME NEW i \in Job PROVE h \notin OwnedBy(i)'
    <3>1. i # j => h \notin held[i]
      <4>1. h \in OwnedBy(j) /\ (h \in OwnedBy(i) => i = j)
        BY <1>2, <1>3 DEF Apart
      <4> QED
        BY <1>2, <4>1
    <3> QED
      BY <1>1, <1>2, <1>3, <3>1
  <2>3. ~InUse(h)'
    BY <1>1, <1>3 DEF InUse
  <2> QED
    BY <2>1, <2>2, <2>3, OwnerNotNext
<1>4. ASSUME NEW h \in Handle, h \notin held[j] \cap Module
      PROVE  OwnerOf(h)' = OwnerOf(h) /\ ~(h \in Module /\ OwnerOf(h) = j)
  <2>1. \A i \in Job : h \in held'[i] <=> h \in held[i]
    BY <1>1, <1>4
  <2>2. SameOwner(h)
    BY <1>1, <1>2, <1>4, <2>1 DEF SameOwner, InUse
  <2>3. ASSUME OwnerOf(h) = j PROVE h \in held[j]
    <3>1. PICK i \in Job : h \in OwnedBy(i)
      BY <2>3, OwnerNot, NativeAssumption
    <3> QED
      BY <1>2, <2>3, <3>1, OwnerIs
  <2> QED
    BY <1>4, <2>2, <2>3, OwnerSame
<1>5. Busy' = Busy
  <2>1. ASSUME NEW i \in running, NEW h \in uses[i]
        PROVE  OwnerOf(h)' = Maint <=> OwnerOf(h) = Maint
    BY <1>1, <1>3, <1>4, NativeAssumption
  <2> QED
    BY <1>1, <2>1, BusySame
<1>6. Owner' = [h \in Handle |-> IF h \in Module /\ Owner[h] = j THEN None ELSE Owner[h]]
  BY <1>3, <1>4 DEF Owner
<1> QED
  BY <1>1, <1>5, <1>6 DEF UnloadsInUse

\* No other step makes a submission one whose modules are gone.
LEMMA StillNoneDropped ==
    ASSUME Inv, Inv', FlightInv, NoModulesDropped, Next, \A j \in Job : ~Unloads(j)
    PROVE  NoModulesDropped'
<1>1. UNCHANGED backend /\ Types /\ Control /\ running \subseteq Job
  BY DEF Next, Inv, Types, GpuTypes
<1> SUFFICES ASSUME NEW i \in running', ModulesDropped(i)' PROVE FALSE
  BY DEF NoModulesDropped
<1>2. Explicit /\ i \in Job /\ phase'[i] = "unwind" /\ loaded'[i] = << >> /\ backend = "Hip"
  <2>1. running' \subseteq Job
    BY DEF Inv, Types, GpuTypes
  <2> QED
    BY <1>1, <2>1 DEF ModulesDropped, Explicit
<1>3. ASSUME Same(i) PROVE FALSE
  BY <1>1, <1>2, <1>3 DEF Same, NoModulesDropped, ModulesDropped
<1>4. ASSUME NEW j \in Job, TicketMove(j) PROVE FALSE
  <2>1. Others(j)
    BY <1>1, <1>4, MovesAlone
  <2>2. CASE i # j
    BY <1>2, <1>3, <2>1, <2>2, OthersSame
  <2>3. CASE i = j /\ launch(j)
    BY <1>2, <2>3 DEF launch, At
  <2>4. CASE i = j /\ MovesOn(j)
    <3>1. PICK q \in Phases, n \in Nat :
             /\ Passage(j, q, n) /\ phase' = [phase EXCEPT ![j] = q]
             /\ UNCHANGED <<loaded, gpuVars>>
      BY <2>4 DEF MovesOn
    <3>2. q = "unwind" /\ j \in running
      BY <1>1, <1>2, <2>4, <3>1 DEF Types, CallTypes, gpuVars
    <3>3. phase[j] \in SubmitPhases /\ phase[j] \in Flying
      BY <3>1, <3>2 DEF Passage, FlightInv, InFlight
    <3>4. phase[j] = "launch"
      BY <1>2, <3>3 DEF SubmitPhases, Flying
    <3>5. Len(loaded[j]) = Len(Passes(j)) /\ Len(Passes(j)) \in Nat \ {0}
      BY <1>1, <3>4, CurrentProgram DEF Control, Flow, LoadedAll, Allocated
    <3> QED
      BY <1>2, <2>4, <3>1, <3>5
  <2> QED
    BY <1>2, <1>4, <2>2, <2>3, <2>4, GroundMoves
<1>5. CASE Builds \/ PoolsKernel \/ KeepsStill \/ BeginsClear \/ Clears \/ DropsContext
  BY <1>2, <1>3, <1>5, ContextSame
<1> QED
  BY <1>2, <1>4, <1>5, ExplicitMoves DEF ExplicitMove

LEMMA RefineNext ==
    ASSUME Inv, Inv', FlightInv, FlightInv', Next
    PROVE  AbstractStep
<1>1. Apart /\ Apart' /\ UNCHANGED backend
  BY InvApart, InvApartNext DEF Next
<1>2. CASE \E j \in Job : DeviceEnds(j)
  BY <1>1, <1>2, DeviceStep
<1>3. CASE ~NoModulesDropped
  <2>1. running \subseteq Job
    BY DEF Inv, Types, GpuTypes
  <2> QED
    BY <1>2, <1>3, <2>1, OnlyDevice DEF NoModulesDropped
<1>4. CASE \E j \in Job : Unloads(j)
  BY <1>1, <1>4, UnloadStep DEF AbstractStep
<1>5. CASE NoModulesDropped /\ \A j \in Job : ~Unloads(j)
  <2>1. Steps
    BY <1>1, <1>5, InvExclusive, InvExclusiveNext, StillNoneDropped DEF Steps
  <2>2. CASE Explicit
    BY <1>2, <1>5, <2>1, <2>2, ExplicitMoves, ExplicitRefines
  <2>3. CASE ~Explicit
    BY <2>1, <2>3, MetalMoves, MetalTicketRefines, MetalContextRefines
  <2> QED
    BY <2>2, <2>3
<1> QED
  BY <1>3, <1>4, <1>5

LEMMA RefineStill ==
    ASSUME Inv, Inv', UNCHANGED vars
    PROVE  AbstractStep
<1>1. UNCHANGED <<chain, stage, memory, held, refs, pool, gpuVars, backend>>
  BY DEF vars, nativeVars, flowVars, handleVars, dataVars
<1>2. ASSUME NEW i \in Job PROVE OwnedBy(i)' = OwnedBy(i)
  <2>1. Transients(i)' = Transients(i)
    BY <1>1, TransientsSame
  <2> QED
    BY <1>1, <2>1 DEF OwnedBy
<1>3. \A h \in Handle : OwnerOf(h)' = OwnerOf(h)
  <2>1. \A h \in Handle : SameOwner(h)
    BY <1>1, <1>2 DEF SameOwner, InUse
  <2> QED
    BY <2>1, OwnerSame, InvApart, InvApartNext
<1>4. Busy' = Busy
  BY <1>1, <1>3, BusySame DEF Inv, Types, GpuTypes
<1>5. Owner' = Owner
  BY <1>3 DEF Owner
<1> QED
  BY <1>4, <1>5 DEF AbstractStep, Tickets!ticketVars

LEMMA RefineInit ==
    ASSUME NativeInit
    PROVE  Tickets!Init
<1>1. /\ held = [j \in Job |-> {}] /\ memory = [j \in Job |-> << >>] /\ running = {}
      /\ refs = [h \in Handle |-> 0] /\ pool = [h \in Handle |-> 0]
  BY DEF NativeInit, Init
<1>2. ASSUME NEW h \in Handle PROVE OwnerOf(h) = None
  <2>1. \A j \in Job : h \notin OwnedBy(j)
    BY <1>1 DEF OwnedBy, Transients
  <2>2. ~InUse(h)
    BY <1>1 DEF InUse
  <2> QED
    BY <2>1, <2>2, OwnerNot
<1> QED
  BY <1>1, <1>2 DEF Tickets!Init, Owner, Busy

\* HIP, CUDA, OpenCL and Metal contexts keep the promise of ExclusiveTickets:
\* what the device works with belongs to the ticket that submitted it or is
\* shared through a cache, and no ticket lets go of it before the device is
\* done, for any number of tickets, handles and programs, if no more than one
\* call of the driver fails.  The one step that breaks it is the early return of
\* HIP's submit_prepared: it unloads the modules of its ticket before anything
\* waits for what it launched, and nothing but those modules changes its owner.
THEOREM NativeRefines ==
    ASSUME MaxFaults <= 1
    PROVE  Spec => ImplementsExclusiveTickets
<1>1. Inv /\ Inv' /\ FlightInv /\ FlightInv' /\ [Next]_vars
         => [Tickets!Next \/ UnloadsInUse]_<<Owner, Busy>>
  BY RefineNext, RefineStill DEF AbstractStep, Tickets!ticketVars
<1> QED
  BY <1>1, SpecFlight, RefineInit, PTL DEF Spec, ImplementsExclusiveTickets
=============================================================================
