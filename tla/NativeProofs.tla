---------------------------- MODULE NativeProofs ----------------------------
(* Theorems about NativeRuntimes, for every value of its constants.        *)
EXTENDS NativeRuntimes, FiniteSetTheorems, FunctionTheorems, SequenceTheorems,
        InductionTheorems, TLAPS

-----------------------------------------------------------------------------
(* Types, by groups of variables.  pool and active are only numbers here:  *)
(* that they stay small follows from what they count.                      *)

PoolNames == {"transient", "queue", "kernel", "lut", "module"}

IsCache(c, K, V) ==
    /\ "entries" \in DOMAIN c
    /\ \E S \in SUBSET K : c.entries \in [S -> V]

CallTypes ==
    /\ call \in Job \cup {Maint, None}
    /\ phase \in [Job -> Phases] /\ chain \in [Job -> Seq(Program)]
    /\ stage \in [Job -> Nat] /\ count \in [Job -> Nat]

HandleTypes ==
    /\ refs \in [Handle -> Nat] /\ pool \in [Handle -> Nat]
    /\ held \in [Job -> SUBSET Handle] /\ leaked \subseteq Handle

DataTypes ==
    /\ memory \in [Job -> Seq(Device \cup {None})]
    /\ pending \in [Job -> SUBSET Nat]
    /\ resident \in [Job -> Device \cup {None}]
    /\ content \in [Device -> Contents]
    /\ IsCache(lutCache, Key, Device)

CodeTypes ==
    /\ loaded \in [Job -> Seq(Module \cup Kernel)]
    /\ made \in [Module \cup Kernel -> Source \cup {None}]
    /\ IsCache(moduleCache, Source, Module)

GpuTypes == running \subseteq Job /\ uses \in [Job -> SUBSET Handle]

RestTypes ==
    /\ active \in Int /\ clearing \in Seq(PoolNames)
    /\ results \in [Job -> Contents] /\ alive \in BOOLEAN

\* Variables that the other invariants do not depend on.
FreeTypes ==
    /\ backend \in Backend
    /\ IsCache(codeCache, Source, {"compiled", "restored"})
    /\ faults \in 0 .. MaxFaults

Types ==
    /\ CallTypes /\ HandleTypes /\ DataTypes /\ CodeTypes /\ GpuTypes
    /\ RestTypes /\ FreeTypes

-----------------------------------------------------------------------------
(* Where a call is.                                                        *)

\* From the last allocation on, and from the last pass loaded on.
Allocated == {"module", "compiled", "launch", "pending", "sync", "read",
              "tables", "drop", "dropQueue"}
LoadedAll == Allocated \ {"module", "compiled"}

Flow(j) ==
    /\ call = j <=> phase[j] \notin {"idle", "pending"}
    /\ phase[j] # "idle" => stage[j] \in 1 .. Len(chain[j])
    /\ phase[j] \in {"idle", "queue"} =>
          memory[j] = << >> /\ loaded[j] = << >> /\ pending[j] = {} /\ count[j] = 0
    /\ phase[j] \in {"idle", "queue", "alloc"} => loaded[j] = << >>
    /\ phase[j] = "alloc" => count[j] = Len(memory[j])
    /\ phase[j] # "idle" => Len(memory[j]) <= Len(Plan(j))
    /\ phase[j] \in Allocated => Len(memory[j]) = Len(Plan(j))
    /\ phase[j] \in {"module", "compiled"} => count[j] = Len(loaded[j])
    /\ phase[j] # "idle" => Len(loaded[j]) <= Len(Passes(j))
    /\ phase[j] = "compiled" => /\ count[j] < Len(Passes(j))
                               /\ NextSource(j) \notin Keys(moduleCache)
    /\ phase[j] \in LoadedAll => Len(loaded[j]) = Len(Passes(j))
    /\ phase[j] = "launch" => count[j] <= Len(Passes(j))
    /\ phase[j] \in LoadedAll \ {"launch"} => count[j] = Len(Passes(j))
    /\ phase[j] = "free" /\ resident[j] # None => stage[j] < Len(chain[j])
    /\ pending[j] \subseteq DOMAIN memory[j]

Control ==
    /\ \A j \in Job : Flow(j)
    /\ call = Maint <=> clearing # << >>

-----------------------------------------------------------------------------
(* Explicit APIs.                                                          *)

Explicit == backend # "Metal"

Shared == Values(lutCache) \cup Values(moduleCache)

OnePlace(h) ==
    /\ refs[h] <= 1 /\ pool[h] <= refs[h]
    /\ refs[h] = 1 => \/ pool[h] = 1 \/ h \in leaked \/ h \in Shared
                      \/ \E j \in Job : h \in held[j]
    /\ h \in leaked => refs[h] = 1 /\ pool[h] = 0
    /\ h \in Shared => refs[h] = 1 /\ pool[h] = 0 /\ h \notin leaked
    /\ \A j \in Job : h \in held[j] =>
          /\ refs[h] = 1 /\ pool[h] = 0 /\ h \notin leaked \cup Shared
          /\ \A i \in Job : h \in held[i] => i = j

\* No handle is in a cache twice.
OneKeyEach(c) == \A k, l \in Keys(c) : c.entries[k] = c.entries[l] => k = l

Working == Allocated \cup {"alloc"}

Transient(j, i) == i \in DOMAIN memory[j] /\ Plan(j)[i] \notin Key

TicketOwns(j) ==
    /\ \A i \in DOMAIN memory[j] : memory[j][i] \in Device
    /\ phase[j] = "idle" => held[j] = {}
    /\ phase[j] = "queue" => held[j] \subseteq {resident[j]}
    /\ resident[j] # None => /\ phase[j] \in {"queue", "alloc", "unwind", "free"}
                             /\ resident[j] \in held[j]
    /\ phase[j] \in {"queue", "alloc"} /\ resident[j] # None
          => \A i \in DOMAIN memory[j] :
                memory[j][i] # resident[j] /\ Plan(j)[i] # "input"
    /\ \A i \in pending[j] :
          /\ i \in DOMAIN memory[j] /\ Plan(j)[i] \in Key
          /\ memory[j][i] \in held[j]
          /\ \A l \in DOMAIN memory[j] : memory[j][l] = memory[j][i] => l = i
    /\ phase[j] \in Working =>
          \A i \in DOMAIN memory[j] : Transient(j, i) =>
             /\ memory[j][i] \in held[j]
             /\ \A l \in DOMAIN memory[j] : memory[j][l] = memory[j][i] => l = i

\* What a call has gathered for its launches is its own or cached.
Loads == {"alloc", "module", "compiled", "launch"}

Backed(j) ==
    phase[j] \in Loads =>
       /\ ToSet(memory[j]) \subseteq held[j] \cup Values(lutCache)
       /\ ToSet(loaded[j]) \subseteq held[j] \cup Values(moduleCache)

Ownership ==
    /\ \A h \in Handle : OnePlace(h)
    /\ OneKeyEach(lutCache) /\ OneKeyEach(moduleCache)

ExplicitOwned ==
    /\ Ownership
    /\ \A j \in Job : TicketOwns(j) /\ Backed(j)

-----------------------------------------------------------------------------
(* Metal.                                                                  *)

Cached(h) == IF h \in Shared THEN 1 ELSE 0

Counted(h) ==
    /\ refs[h] = pool[h] + Cached(h) + Cardinality(Occurrences(memory, h))
                 + Cardinality(Occurrences(loaded, h))
    /\ pool[h] > 0 => h \in Device /\ pool[h] = 1 /\ refs[h] = 1

MetalTicket(j) ==
    /\ held[j] = {} /\ pending[j] = {} /\ resident[j] = None
    /\ phase[j] \notin {"queue", "compiled", "launch", "dropQueue"}
    /\ \A i \in DOMAIN memory[j] :
          IF Transient(j, i) /\ phase[j] = "free" THEN memory[j][i] = None
          ELSE /\ memory[j][i] \in Device
               /\ Transient(j, i) => /\ refs[memory[j][i]] = 1
                                     /\ pool[memory[j][i]] = 0

MetalCounted ==
    /\ leaked = {} /\ clearing = << >>
    /\ \A h \in Handle : Counted(h)
    /\ OneKeyEach(lutCache) /\ OneKeyEach(moduleCache)
    /\ \A j \in Job : MetalTicket(j)

-----------------------------------------------------------------------------
(* active_submissions.                                                     *)

Accepted == {"pending", "sync", "read", "tables", "drop", "dropQueue", "free"}

IsActive(j) ==
    \/ backend = "Hip" /\ phase[j] \in Accepted
    \/ backend = "OpenCl" /\ (phase[j] \in Accepted \/ held[j] \cap Queue # {})

ActiveTickets == {j \in Job : IsActive(j)}

ActiveInv ==
    /\ active = Cardinality(ActiveTickets)
    /\ backend = "OpenCl" => \A j \in Job : phase[j] \in Loads => held[j] \cap Queue # {}
-----------------------------------------------------------------------------
(* Caches.                                                                 *)

LEMMA EmptyIsCache ==
    ASSUME NEW K, NEW V
    PROVE  IsCache(EmptyCache, K, V) /\ Keys(EmptyCache) = {}
<1>1. EmptyCache.entries = << >> /\ "entries" \in DOMAIN EmptyCache
  BY DEF EmptyCache
<1>2. << >> \in [{} -> V] /\ DOMAIN << >> = {}
  OBVIOUS
<1> QED
  BY <1>1, <1>2 DEF IsCache, Keys

LEMMA CacheEntries ==
    ASSUME NEW K, NEW V, NEW c, IsCache(c, K, V)
    PROVE  /\ Keys(c) \subseteq K /\ Values(c) \subseteq V
           /\ \A k \in Keys(c) : c.entries[k] \in V /\ c.entries[k] \in Values(c)
<1>1. PICK S \in SUBSET K : c.entries \in [S -> V]
  BY DEF IsCache
<1>2. Keys(c) = S
  BY <1>1 DEF Keys
<1> QED
  BY <1>1, <1>2 DEF Values

\* A map with one more key.
Extends(d, c, k, v) ==
    /\ Keys(d) = Keys(c) \cup {k} /\ d.entries[k] = v
    /\ \A x \in Keys(c) \ {k} : d.entries[x] = c.entries[x]

LEMMA InsertExtends ==
    ASSUME NEW K, NEW V, NEW c, IsCache(c, K, V), NEW k \in K, NEW v \in V,
           k \notin Keys(c)
    PROVE  /\ IsCache(InsertIfVacant(c, k, v), K, V)
           /\ Extends(InsertIfVacant(c, k, v), c, k, v)
<1> DEFINE e == With(c.entries, k, v)
           d == [c EXCEPT !.entries = e]
<1>1. InsertIfVacant(c, k, v) = d
  BY DEF InsertIfVacant
<1>2. "entries" \in DOMAIN c
  BY DEF IsCache
<1>3. d.entries = e /\ "entries" \in DOMAIN d
  BY <1>2
<1>4. PICK S \in SUBSET K : c.entries \in [S -> V]
  BY DEF IsCache
<1>5. e \in [S \cup {k} -> V]
  BY <1>4 DEF With
<1>6. /\ DOMAIN e = DOMAIN c.entries \cup {k} /\ e[k] = v
      /\ \A x \in DOMAIN c.entries \ {k} : e[x] = c.entries[x]
  BY DEF With
<1>7. IsCache(d, K, V)
  BY <1>3, <1>5 DEF IsCache
<1>8. Extends(d, c, k, v)
  BY <1>3, <1>6 DEF Extends, Keys
<1> QED
  BY <1>1, <1>7, <1>8

\* Part of a map and one more key.
Replaces(d, c, k, v) ==
    /\ k \in Keys(d) /\ d.entries[k] = v /\ Keys(d) \subseteq Keys(c) \cup {k}
    /\ \A x \in Keys(d) \ {k} : d.entries[x] = c.entries[x]

LEMMA FifoReplaces ==
    ASSUME NEW K, NEW V, NEW c, IsCache(c, K, V), NEW k \in K, NEW v \in V,
           k \notin Keys(c), NEW cost, NEW n, NEW b
    PROVE  LET d == FifoInsert(c, k, v, cost, n, b)
           IN  /\ IsCache(d, K, V)
               /\ d = c \/ Replaces(d, c, k, v)
<1> DEFINE d == FifoInsert(c, k, v, cost, n, b)
<1>1. CASE d = c
  BY <1>1
<1>2. CASE d # c
  <2>1. RemoveEntry(c, k, cost) = c
    BY DEF RemoveEntry
  <2> DEFINE room == Evict(c, cost, cost[<<k, v>>], n, b)
  <2>2. /\ d.entries = With(room.entries, k, v)
        /\ "entries" \in DOMAIN d
    BY <1>2, <2>1 DEF FifoInsert
  <2>3. PICK m : room = WithoutOldest(c, m, cost)
    BY DEF Evict
  <2>4. room.entries = [x \in Keys(c) \ ToSet(SubSeq(c.order, 1, m)) |-> c.entries[x]]
    BY <2>3 DEF WithoutOldest
  <2> HIDE DEF d, room
  <2>5. PICK S \in SUBSET K : c.entries \in [S -> V]
    BY DEF IsCache
  <2> DEFINE T == Keys(c) \ ToSet(SubSeq(c.order, 1, m))
  <2>6. T \subseteq S /\ room.entries \in [T -> V]
    BY <2>4, <2>5 DEF Keys
  <2> HIDE DEF T
  <2>7. With(room.entries, k, v) \in [T \cup {k} -> V]
    BY <2>6 DEF With
  <2>8. IsCache(d, K, V)
    BY <2>2, <2>5, <2>6, <2>7 DEF IsCache
  <2>9. Keys(d) = T \cup {k} /\ d.entries[k] = v
    BY <2>2, <2>6 DEF Keys, With
  <2>10. \A x \in T \ {k} : d.entries[x] = c.entries[x]
    BY <2>2, <2>4, <2>6 DEF With, T
  <2>11. T \subseteq Keys(c)
    BY DEF T
  <2>12. Replaces(d, c, k, v)
    BY <2>9, <2>10, <2>11 DEF Replaces
  <2> QED
    BY <2>8, <2>12 DEF d
<1> QED
  BY <1>1, <1>2

-----------------------------------------------------------------------------
(* Sequences.                                                              *)

LEMMA ToSetAppend ==
    ASSUME NEW S, NEW s \in Seq(S), NEW e \in S
    PROVE  ToSet(Append(s, e)) = ToSet(s) \cup {e}
<1> DEFINE t == Append(s, e)
<1>1. /\ t \in Seq(S) /\ Len(t) = Len(s) + 1 /\ t[Len(s) + 1] = e
      /\ \A i \in 1 .. Len(s) : t[i] = s[i]
  BY AppendProperties
<1>2. DOMAIN s = 1 .. Len(s) /\ DOMAIN t = 1 .. Len(t) /\ Len(s) \in Nat
  BY <1>1, LenProperties
<1> HIDE DEF t
<1>3. DOMAIN t = DOMAIN s \cup {Len(s) + 1}
  BY <1>1, <1>2
<1>4. \A i \in DOMAIN t : t[i] \in ToSet(s) \cup {e}
  BY <1>1, <1>2, <1>3 DEF ToSet
<1>5. \A i \in DOMAIN s : s[i] \in ToSet(t)
  BY <1>1, <1>2, <1>3 DEF ToSet
<1>6. e \in ToSet(t)
  BY <1>1, <1>3 DEF ToSet
<1> QED
  BY <1>4, <1>5, <1>6 DEF ToSet, t

LEMMA InToSet ==
    ASSUME NEW s, NEW i \in DOMAIN s
    PROVE  s[i] \in ToSet(s)
  BY DEF ToSet

-----------------------------------------------------------------------------
(* The moves.  What the steps of the four runtimes do is told by a few     *)
(* moves, to which the invariants are then shown to be indifferent.        *)

\* The part of the invariant the moves rest on.
Inv ==
    /\ Types /\ Control
    /\ Explicit => ExplicitOwned
    /\ ~Explicit => MetalCounted

New(h) ==
    /\ refs[h] = 0 /\ h \notin leaked
    /\ \A j \in Job : h \notin ToSet(memory[j]) \cup ToSet(loaded[j])

Available(h) == New(h) \/ pool[h] > 0

\* The guard of an available handle goes to ticket j.
Obtains(j, h) ==
    /\ h \in Handle /\ Available(h)
    /\ held' = [held EXCEPT ![j] = @ \cup {h}]
    /\ refs' = [refs EXCEPT ![h] = 1] /\ pool' = [pool EXCEPT ![h] = 0]
    /\ UNCHANGED leaked

\* New modules are cached for the sources M.
Caches(M, new) ==
    /\ M \subseteq Source \ Keys(moduleCache) /\ new \in [M -> Module]
    /\ \A s \in M : New(new[s])
    /\ \A s, t \in M : new[s] = new[t] => s = t
    /\ refs' = [h \in Handle |-> IF \E s \in M : new[s] = h THEN 1 ELSE refs[h]]
    /\ made' \in [Module \cup Kernel -> Source \cup {None}]
    /\ \A s \in M : made'[new[s]] = s
    /\ \A h \in Module \cup Kernel : (\A s \in M : new[s] # h) => made'[h] = made[h]
    /\ IsCache(moduleCache', Source, Module)
    /\ Keys(moduleCache') = Keys(moduleCache) \cup M
    /\ \A s \in M : moduleCache'.entries[s] = new[s]
    /\ \A s \in Keys(moduleCache) : moduleCache'.entries[s] = moduleCache.entries[s]

\* From phase[j] to q, with n for its counter.
Passage(j, q, n) ==
    \/ phase[j] = "alloc" /\ q = "module" /\ count[j] = Len(Plan(j)) /\ n = 0
    \/ /\ phase[j] = "module" /\ q = "launch" /\ Explicit
       /\ count[j] = Len(Passes(j)) /\ n = 0
    \/ /\ n = count[j]
       /\ \/ /\ phase[j] = "module" /\ q = "compiled" /\ Explicit
             /\ count[j] < Len(Passes(j)) /\ NextSource(j) \notin Keys(moduleCache)
          \/ phase[j] \in SubmitPhases /\ q = "unwind"
          \/ /\ phase[j] = "launch" /\ q \in {"pending", "sync"}
             /\ count[j] = Len(Passes(j))
          \/ phase[j] = "pending" /\ q \in {"sync", "drop"}
          \/ /\ phase[j] = "sync" /\ j \notin running
             /\ q = IF LastStage(j) THEN "read" ELSE "tables"
          \/ phase[j] = "read" /\ q = "tables"
          \/ phase[j] \in {"sync", "read"} /\ q = "drop"
          \/ /\ \/ phase[j] = "drop" /\ q = "dropQueue" /\ Explicit
                \/ phase[j] = "dropQueue" /\ q = "free"
             /\ j \notin running \/ InjectFault

\* Nothing but its place in the call changes for ticket j.
MovesOn(j) ==
    \E q \in Phases, n \in Nat :
       /\ Passage(j, q, n)
       /\ call \in {j, None} /\ (call = None <=> phase[j] = "pending")
       /\ call' = IF q = "pending" THEN None ELSE j
       /\ phase' = [phase EXCEPT ![j] = q]
       /\ count' = [count EXCEPT ![j] = n]
       /\ results' = IF phase[j] = "read" /\ q = "tables"
                     THEN [results EXCEPT ![j] = content[Output(j)]] ELSE results
       /\ active' = IF backend = "Hip" /\ phase[j] = "launch" /\ q # "unwind"
                    THEN active + 1 ELSE active
       /\ UNCHANGED <<chain, stage, handleVars, dataVars, loaded, made,
                      moduleCache, gpuVars, clearing, alive>>

\* The next pass gets h.
LoadsPass(j, h) ==
    /\ call = j /\ phase[j] \in {"module", "compiled"}
    /\ count[j] < Len(Passes(j)) /\ h \in Module \cup Kernel
    /\ Loaded(j, h)

LoadsShared(j) ==
    \E s \in Keys(moduleCache) :
       /\ s = NextSource(j) /\ LoadsPass(j, moduleCache.entries[s])
       /\ UNCHANGED <<handleVars, dataVars, made, moduleCache, gpuVars, active,
                      restVars>>

LoadsCached(j) ==
    \E new \in [{NextSource(j)} -> Module] :
       /\ Caches({NextSource(j)}, new) /\ LoadsPass(j, new[NextSource(j)])
       /\ UNCHANGED <<pool, held, leaked, dataVars, gpuVars, active, restVars>>

LoadsOwn(j) ==
    \E h \in Module \cup Kernel :
       /\ Obtains(j, h) /\ LoadsPass(j, h)
       /\ made' = [made EXCEPT ![h] = NextSource(j)]
       /\ UNCHANGED <<dataVars, moduleCache, gpuVars, active, restVars>>

\* A table of its own, memory of its own, or the output of the last program.
Uploads(j) ==
    \E d \in Device :
       /\ Allocating(j) /\ TheEntry(j) \in Key \ Keys(lutCache)
       /\ Obtains(j, d) /\ Place(j, d)
       /\ content' = [content EXCEPT ![d] = TheEntry(j)]
       /\ pending' = [pending EXCEPT ![j] = @ \cup {Index(j)}]
       /\ UNCHANGED <<call, phase, chain, stage, resident, lutCache, loaded,
                      made, moduleCache, gpuVars, active, restVars>>

TakesTransient(j) ==
    \E d \in Device :
       /\ Allocating(j) /\ TheEntry(j) \notin Key
       /\ TheEntry(j) = "input" => resident[j] = None
       /\ Obtains(j, d) /\ Place(j, d)
       /\ content' = IF TheEntry(j) = "input"
                     THEN [content EXCEPT ![d] = <<j, stage[j] - 1>>]
                     ELSE content
       /\ UNCHANGED <<call, phase, chain, stage, pending, resident, lutCache,
                      loaded, made, moduleCache, gpuVars, active, restVars>>

TakesQueue(j) ==
    \E q \in Queue :
       /\ At(j, "queue") /\ Obtains(j, q) /\ Continue(j, "alloc")
       /\ active' = IF backend = "OpenCl" THEN active + 1 ELSE active
       /\ UNCHANGED <<count, dataVars, loaded, made, moduleCache, gpuVars,
                      restVars>>

Recycles(j) ==
    \E others \in SUBSET (held[j] \cap Kernel) :
       recycle(j, others) /\ UNCHANGED active

Ends(j) ==
    \/ /\ DropEnds(j)
       /\ active' = IF backend = "Cuda" THEN active ELSE active - 1
    \/ /\ Unwinds(j)
       /\ active' = IF backend = "OpenCl" /\ held[j] \cap Queue # {}
                    THEN active - 1 ELSE active

\* The modules of a failed submission of HIP are unloaded.
Unloads(j) == backend = "Hip" /\ hip_unload(j)

TicketMove(j) ==
    \/ \E c \in Chains[j] : Submit(j, c, "queue")
    \/ TakesQueue(j) \/ cached_table(j) \/ Uploads(j) \/ TakesTransient(j)
    \/ take_resident(j) \/ MovesOn(j)
    \/ LoadsShared(j) \/ LoadsCached(j) \/ LoadsOwn(j)
    \/ launch(j) \/ DeviceEnds(j)
    \/ \E i \in pending[j] : insert_lut(j, i) \/ FreeDuplicateFails(j, i)
    \/ Recycles(j) \/ Ends(j) \/ Unloads(j)

\* The modules of a report or of an archive.
Builds ==
    \E M \in SUBSET Source : \E new \in [M -> Module] :
       /\ Caches(M, new) /\ \A j \in Job : phase[j] # "compiled"
       /\ UNCHANGED <<flowVars, pool, held, leaked, dataVars, loaded, gpuVars,
                      active, restVars>>

\* The kernel of a report.
PoolsKernel ==
    \E k \in Kernel :
       /\ New(k)
       /\ refs' = [refs EXCEPT ![k] = 1] /\ pool' = [pool EXCEPT ![k] = 1]
       /\ \E s \in Source : made' = [made EXCEPT ![k] = s]
       /\ UNCHANGED <<flowVars, held, leaked, dataVars, loaded, moduleCache,
                      gpuVars, active, restVars>>

\* Only the archive of compiled code changes.
KeepsStill ==
    UNCHANGED <<flowVars, handleVars, dataVars, loaded, made, moduleCache,
                gpuVars, active, restVars>>

BeginsClear ==
    \E order \in Seq(PoolNames) \ {<< >>} :
       /\ BeginClear(order)
       /\ DeviceIdle \/ (backend = "OpenCl" /\ active = 0)

\* The handles S of the pool that is emptied are not destroyed.
Clears ==
    /\ call = Maint
    /\ \E S \in SUBSET InPool(Head(clearing)) :
          /\ Drain(Head(clearing), S)
          /\ S # {} => clearing' = << >>
    /\ \/ clearing' = Tail(clearing)
       \/ clearing' = << >>
    /\ call' = IF clearing' = << >> THEN None ELSE Maint

DropsContext == DropContext /\ (backend = "Hip" => DeviceIdle)

ExplicitMove ==
    \/ \E j \in Job : TicketMove(j)
    \/ Builds \/ PoolsKernel \/ KeepsStill
    \/ BeginsClear \/ Clears \/ DropsContext

-----------------------------------------------------------------------------
(* The steps are moves.                                                    *)

LEMMA Obtained ==
    ASSUME NEW S, NEW h \in Obtainable(S) \cup OneOf(Fresh(S))
    PROVE  h \in S /\ Available(h)
<1>1. \A T : \A x \in OneOf(T) : x \in T
  BY DEF OneOf
<1>2. h \in Pooled(S) \/ h \in Fresh(S)
  BY <1>1 DEF Obtainable
<1> QED
  BY <1>2 DEF Pooled, Fresh, Available, New

LEMMA FreshNew ==
    ASSUME NEW S, NEW h \in OneOf(Fresh(S))
    PROVE  h \in S /\ New(h)
<1>1. h \in Fresh(S)
  BY DEF OneOf
<1> QED
  BY <1>1 DEF Fresh, New

LEMMA TakeObtains ==
    ASSUME Types, NEW h \in Handle, OnePlace(h), NEW j \in Job, Available(h),
           Take(j, h)
    PROVE  Obtains(j, h)
<1>1. refs[h] \in Nat /\ pool[h] \in Nat /\ refs \in [Handle -> Nat]
      /\ pool \in [Handle -> Nat]
  BY DEF Types, HandleTypes
<1>2. IF pool[h] > 0 THEN pool[h] = 1 /\ refs[h] = 1 ELSE pool[h] = 0
  BY <1>1 DEF OnePlace
<1>3. refs' = [refs EXCEPT ![h] = 1]
  BY <1>1, <1>2 DEF Take
<1>4. pool' = [pool EXCEPT ![h] = 0]
  <2>1. \A x \in Handle : Minus(pool[x], IF x \in {h} THEN 1 ELSE 0) =
                          IF x = h THEN 0 ELSE pool[x]
    BY <1>1, <1>2 DEF Minus
  <2> QED
    BY <1>1, <2>1 DEF Take, Unpool
<1> QED
  BY <1>3, <1>4 DEF Take, Obtains

\* The program a call is at.
LEMMA CurrentProgram ==
    ASSUME Types, Control, NEW j \in Job, phase[j] # "idle"
    PROVE  /\ stage[j] \in 1 .. Len(chain[j]) /\ TheProgram(j) \in Program
           /\ Plan(j) \in Seq(Key \cup {"input", "device"})
           /\ Passes(j) \in Seq(Source)
           /\ Len(Plan(j)) \in Nat \ {0} /\ Len(Passes(j)) \in Nat \ {0}
           /\ DOMAIN Plan(j) = 1 .. Len(Plan(j))
           /\ DOMAIN Passes(j) = 1 .. Len(Passes(j))
           /\ Plan(j)[Len(Plan(j))] = "device"
           /\ \E i \in DOMAIN Plan(j) : Plan(j)[i] = "input"
<1>1. stage[j] \in 1 .. Len(chain[j]) /\ chain[j] \in Seq(Program)
  BY DEF Types, CallTypes, Control, Flow
<1>2. TheProgram(j) \in Program
  BY <1>1, ElementOfSeq DEF TheProgram
<1>3. /\ Plan(j) \in Seq(Key \cup {"input", "device"}) /\ Plan(j) # << >>
      /\ Passes(j) \in Seq(Source) /\ Passes(j) # << >>
      /\ Plan(j)[Len(Plan(j))] = "device"
      /\ \E i \in DOMAIN Plan(j) : Plan(j)[i] = "input"
  BY <1>2, NativeAssumption DEF Plan, Passes
<1>4. /\ Len(Plan(j)) \in Nat \ {0} /\ Len(Passes(j)) \in Nat \ {0}
      /\ DOMAIN Plan(j) = 1 .. Len(Plan(j))
      /\ DOMAIN Passes(j) = 1 .. Len(Passes(j))
  BY <1>3, EmptySeq, LenProperties
<1> QED
  BY <1>1, <1>2, <1>3, <1>4

\* The sequences of a ticket.
LEMMA TicketSequences ==
    ASSUME Types, NEW j \in Job
    PROVE  /\ memory[j] \in Seq(Device \cup {None})
           /\ loaded[j] \in Seq(Module \cup Kernel)
           /\ Len(memory[j]) \in Nat /\ DOMAIN memory[j] = 1 .. Len(memory[j])
           /\ Len(loaded[j]) \in Nat /\ DOMAIN loaded[j] = 1 .. Len(loaded[j])
           /\ \A i \in DOMAIN memory[j] : memory[j][i] \in Device \cup {None}
           /\ \A i \in DOMAIN loaded[j] : loaded[j][i] \in Module \cup Kernel
<1>1. memory[j] \in Seq(Device \cup {None}) /\ loaded[j] \in Seq(Module \cup Kernel)
  BY DEF Types, DataTypes, CodeTypes
<1> QED
  BY <1>1, LenProperties, ElementOfSeq

LEMMA NextSourceTyped ==
    ASSUME Types, Control, NEW j \in Job, phase[j] # "idle",
           count[j] < Len(Passes(j))
    PROVE  NextSource(j) \in Source
<1>1. count[j] \in Nat
  BY DEF Types, CallTypes
<1>2. Index(j) \in 1 .. Len(Passes(j)) /\ Passes(j) \in Seq(Source)
  BY <1>1, CurrentProgram DEF Index
<1> QED
  BY <1>2, ElementOfSeq DEF NextSource

LEMMA EntryTyped ==
    ASSUME Types, Control, NEW j \in Job, Allocating(j)
    PROVE  /\ TheEntry(j) \in Key \cup {"input", "device"}
           /\ Index(j) = Len(memory[j]) + 1 /\ Index(j) \in DOMAIN Plan(j)
           /\ TheEntry(j) = Plan(j)[Index(j)]
<1>1. count[j] \in Nat /\ count[j] = Len(memory[j]) /\ phase[j] # "idle"
  BY DEF Types, CallTypes, Control, Flow, Allocating, At
<1>2. Index(j) \in 1 .. Len(Plan(j)) /\ Plan(j) \in Seq(Key \cup {"input", "device"})
      /\ DOMAIN Plan(j) = 1 .. Len(Plan(j))
  BY <1>1, CurrentProgram DEF Index, Allocating
<1> QED
  BY <1>1, <1>2, ElementOfSeq DEF TheEntry, Index

LEMMA ModuleCached ==
    ASSUME Types, NEW s \in Source \ Keys(moduleCache),
           NEW m \in OneOf(Fresh(Module)),
           refs' = [refs EXCEPT ![m] = 1], made' = [made EXCEPT ![m] = s],
           moduleCache' = InsertIfVacant(moduleCache, s, m)
    PROVE  Caches({s}, [x \in {s} |-> m])
<1> DEFINE new == [x \in {s} |-> m]
<1>1. m \in Module /\ New(m)
  BY FreshNew
<1>2. new \in [{s} -> Module] /\ new[s] = m
  BY <1>1
<1>3. IsCache(moduleCache, Source, Module) /\ refs \in [Handle -> Nat]
      /\ made \in [Module \cup Kernel -> Source \cup {None}]
  BY DEF Types, CodeTypes, HandleTypes
<1>4. /\ IsCache(moduleCache', Source, Module)
      /\ Extends(moduleCache', moduleCache, s, m)
  BY <1>1, <1>3, InsertExtends
<1>5. refs' = [h \in Handle |-> IF \E x \in {s} : new[x] = h THEN 1 ELSE refs[h]]
  <2>1. \A h : (\E x \in {s} : new[x] = h) <=> h = m
    BY <1>2
  <2> QED
    BY <1>3, <2>1
<1>6. /\ made' \in [Module \cup Kernel -> Source \cup {None}]
      /\ made'[new[s]] = s
      /\ \A h \in Module \cup Kernel : (\A x \in {s} : new[x] # h) => made'[h] = made[h]
  BY <1>1, <1>2, <1>3
<1>7. /\ Keys(moduleCache') = Keys(moduleCache) \cup {s}
      /\ moduleCache'.entries[s] = new[s]
      /\ \A x \in Keys(moduleCache) : moduleCache'.entries[x] = moduleCache.entries[x]
  BY <1>2, <1>4 DEF Extends
<1> HIDE DEF new
<1> QED
  BY <1>1, <1>2, <1>4, <1>5, <1>6, <1>7 DEF Caches

LEMMA ProgramsBuilt ==
    ASSUME Types, NEW S \in SUBSET Source, BuildPrograms(S)
    PROVE  \E M \in SUBSET Source : \E new \in [M -> Module] : Caches(M, new)
<1> DEFINE M == S \ Keys(moduleCache)
<1>1. PICK new \in [M -> Fresh(Module)] :
       /\ \A s, t \in M : new[s] = new[t] => s = t
       /\ refs' = Referenced(refs, {new[s] : s \in M}, {})
       /\ made' = [h \in Module \cup Kernel |->
                     IF \E s \in M : new[s] = h
                     THEN CHOOSE s \in M : new[s] = h ELSE made[h]]
       /\ moduleCache' = [moduleCache EXCEPT !.entries =
                           [s \in Keys(moduleCache) \cup M |->
                              IF s \in M THEN new[s] ELSE moduleCache.entries[s]]]
  BY DEF BuildPrograms
<1> DEFINE e == [s \in Keys(moduleCache) \cup M |->
                    IF s \in M THEN new[s] ELSE moduleCache.entries[s]]
<1>2. IsCache(moduleCache, Source, Module) /\ refs \in [Handle -> Nat]
      /\ made \in [Module \cup Kernel -> Source \cup {None}]
  BY DEF Types, CodeTypes, HandleTypes
<1>3. M \subseteq Source \ Keys(moduleCache)
  OBVIOUS
<1>4. moduleCache'.entries = e /\ "entries" \in DOMAIN moduleCache'
  BY <1>1, <1>2 DEF IsCache
<1> HIDE DEF M
<1>5. \A s \in M : new[s] \in Module /\ New(new[s])
  BY <1>1 DEF Fresh, New
<1>6. new \in [M -> Module]
  BY <1>1, <1>5
<1>7. refs' = [h \in Handle |-> IF \E s \in M : new[s] = h THEN 1 ELSE refs[h]]
  <2>1. \A h \in Handle : refs[h] \in Nat /\ (\A s \in M : new[s] = h => refs[h] = 0)
    BY <1>2, <1>5 DEF New
  <2>2. \A h \in Handle : Minus(refs[h] + (IF h \in {new[s] : s \in M} THEN 1 ELSE 0),
                                IF h \in {} THEN 1 ELSE 0)
                          = IF \E s \in M : new[s] = h THEN 1 ELSE refs[h]
    BY <2>1 DEF Minus
  <2> QED
    BY <1>1, <2>2 DEF Referenced
<1>8. /\ made' \in [Module \cup Kernel -> Source \cup {None}]
      /\ \A s \in M : made'[new[s]] = s
      /\ \A h \in Module \cup Kernel : (\A s \in M : new[s] # h) => made'[h] = made[h]
  <2>1. \A h \in Module \cup Kernel :
           (\E s \in M : new[s] = h) => /\ (CHOOSE s \in M : new[s] = h) \in M
                                        /\ new[CHOOSE s \in M : new[s] = h] = h
    OBVIOUS
  <2>2. made' \in [Module \cup Kernel -> Source \cup {None}]
    BY <1>1, <1>2, <1>3, <2>1
  <2>3. \A s \in M : made'[new[s]] = s
    BY <1>1, <1>5, <2>1
  <2> QED
    BY <1>1, <2>2, <2>3
<1>9. IsCache(moduleCache', Source, Module)
  <2>1. \A s \in Keys(moduleCache) : moduleCache.entries[s] \in Module
    BY <1>2, CacheEntries
  <2>2. e \in [Keys(moduleCache) \cup M -> Module]
    BY <1>6, <2>1
  <2>3. Keys(moduleCache) \cup M \in SUBSET Source
    BY <1>2, <1>3, CacheEntries
  <2> QED
    BY <1>4, <2>2, <2>3 DEF IsCache
<1>10. /\ Keys(moduleCache') = Keys(moduleCache) \cup M
       /\ \A s \in M : moduleCache'.entries[s] = new[s]
       /\ \A s \in Keys(moduleCache) : moduleCache'.entries[s] = moduleCache.entries[s]
  BY <1>3, <1>4 DEF Keys
<1>11. M \in SUBSET Source
  BY <1>3
<1>12. Caches(M, new)
  BY <1>1, <1>3, <1>5, <1>6, <1>7, <1>8, <1>9, <1>10 DEF Caches
<1> QED
  BY <1>6, <1>11, <1>12

\* Steps that several runtimes share and that only move on.
Plain(j) ==
    \/ Wait(j) \/ DropTicket(j) \/ synchronize(j) \/ read_output(j)
    \/ SubmitFails(j) \/ FinishFails(j)

LEMMA PlainMovesOn ==
    ASSUME Types, Control, NEW j \in Job, Plain(j), UNCHANGED active
    PROVE  MovesOn(j)
<1> DEFINE q == phase'[j]
           n == count[j]
<1>1. /\ phase \in [Job -> Phases] /\ n \in Nat /\ count' = [count EXCEPT ![j] = n]
      /\ j # None
  BY NativeAssumption DEF Types, CallTypes, Plain, Wait, DropTicket, synchronize, read_output,
     SubmitFails, FinishFails
<1>2. /\ UNCHANGED <<chain, stage, handleVars, dataVars, loaded, made, moduleCache,
                     gpuVars, clearing, alive>>
      /\ \E p \in Phases : phase' = [phase EXCEPT ![j] = p]
      /\ call' = IF q = "pending" THEN None ELSE j
      /\ call \in {j, None} /\ (call = None <=> phase[j] = "pending")
  BY <1>1 DEF Plain, Wait, DropTicket, synchronize, read_output, SubmitFails,
     FinishFails, Continue, Goto, Phases, SubmitPhases, codeVars, restVars, At
<1>3. q \in Phases /\ phase' = [phase EXCEPT ![j] = q]
  BY <1>1, <1>2
<1>4. results' = IF phase[j] = "read" /\ q = "tables"
                 THEN [results EXCEPT ![j] = content[Output(j)]] ELSE results
  BY <1>1, <1>3 DEF Plain, Wait, DropTicket, synchronize, read_output, SubmitFails,
     FinishFails, Continue, Goto, Phases, SubmitPhases, restVars, At
<1>5. Passage(j, q, n)
  <2>1. CASE Wait(j) \/ DropTicket(j)
    BY <1>1, <2>1 DEF Wait, DropTicket, Goto, Passage
  <2>2. CASE synchronize(j)
    BY <1>1, <2>2 DEF synchronize, DeviceDone, Continue, Goto, Passage, At
  <2>3. CASE read_output(j) \/ FinishFails(j)
    BY <1>1, <2>3 DEF read_output, FinishFails, Continue, Goto, Passage, At
  <2>4. CASE SubmitFails(j)
    BY <1>1, <2>4 DEF SubmitFails, Continue, Goto, Passage, At
  <2> QED
    BY <2>1, <2>2, <2>3, <2>4 DEF Plain
<1>6. phase[j] = "launch" => q = "unwind"
  BY <1>1, <1>3 DEF Plain, Wait, DropTicket, synchronize, read_output, SubmitFails,
     FinishFails, Continue, Goto, At
<1> QED
  BY <1>1, <1>2, <1>3, <1>4, <1>5, <1>6 DEF MovesOn

\* The end of the allocations and of the passes, and the wait before a ticket
\* is dropped.
Turns(j) ==
    \/ allocated(j) \/ (Explicit /\ all_loaded(j))
    \/ Explicit /\ (DropWaits(j) \/ DropWaitFails(j))

LEMMA TurnMovesOn ==
    ASSUME Types, Control, NEW j \in Job, Turns(j), UNCHANGED active
    PROVE  MovesOn(j)
<1> DEFINE q == phase'[j]
           n == count'[j]
<1>1. /\ phase \in [Job -> Phases] /\ n \in Nat /\ count' = [count EXCEPT ![j] = n]
      /\ j # None /\ count \in [Job -> Nat]
  BY NativeAssumption DEF Types, CallTypes, Turns, allocated, all_loaded, DropWaits, DropWaitFails, DropGoesOn
<1>2. /\ UNCHANGED <<chain, stage, handleVars, dataVars, loaded, made, moduleCache,
                     gpuVars, clearing, alive, results>>
      /\ \E p \in Phases : phase' = [phase EXCEPT ![j] = p]
      /\ call' = j /\ call = j /\ q # "pending" /\ phase[j] # "pending"
  BY <1>1 DEF Turns, allocated, all_loaded, DropWaits, DropWaitFails, DropGoesOn,
     Continue, Goto, Phases, SubmitPhases, codeVars, restVars, At
<1>3. q \in Phases /\ phase' = [phase EXCEPT ![j] = q]
  BY <1>1, <1>2
<1>4. phase[j] \notin {"read", "launch"}
  BY <1>1 DEF Turns, allocated, all_loaded, DropWaits, DropWaitFails, DropGoesOn, At
<1>5. Passage(j, q, n)
  BY <1>1, <1>3 DEF Turns, allocated, all_loaded, DropWaits, DropWaitFails,
     DropGoesOn, DeviceDone, Continue, Goto, Passage, At
<1> QED
  BY <1>1, <1>2, <1>3, <1>4, <1>5 DEF MovesOn

LEMMA LaunchedMovesOn ==
    ASSUME Types, Control, NEW j \in Job, all_launched(j),
           active' = IF backend = "Hip" THEN active + 1 ELSE active
    PROVE  MovesOn(j)
<1> DEFINE q == IF Len(chain[j]) = 1 THEN "pending" ELSE "sync"
           n == count[j]
<1>1. /\ phase \in [Job -> Phases] /\ n \in Nat /\ count' = [count EXCEPT ![j] = n]
      /\ j # None /\ call = j /\ phase[j] = "launch" /\ n = Len(Passes(j))
      /\ phase' = [phase EXCEPT ![j] = q] /\ call' = (IF q = "pending" THEN None ELSE j)
      /\ UNCHANGED <<chain, stage, handleVars, dataVars, loaded, made, moduleCache,
                     gpuVars, clearing, alive, results>>
  BY NativeAssumption DEF Types, CallTypes, all_launched, Submitted, Goto, At, codeVars, restVars
<1>2. q \in Phases /\ q \in {"pending", "sync"}
  BY DEF Phases
<1> HIDE DEF q, n
<1>3. Passage(j, q, n)
  BY <1>1, <1>2 DEF Passage, n
<1> QED
  BY <1>1, <1>2, <1>3 DEF MovesOn

LEMMA CompiledMovesOn ==
    ASSUME Types, Control, NEW j \in Job, Explicit,
           compile_shader_source(j) \/ CudaLoadFails(j), UNCHANGED active
    PROVE  MovesOn(j)
<1> DEFINE q == phase'[j]
           n == count[j]
<1>1. /\ phase \in [Job -> Phases] /\ n \in Nat /\ count' = [count EXCEPT ![j] = n]
      /\ j # None /\ call = j /\ call' = j /\ phase[j] = "module" /\ n < Len(Passes(j))
      /\ NextSource(j) \notin Keys(moduleCache)
      /\ phase' = [phase EXCEPT ![j] = q] /\ q \in {"compiled", "unwind"}
      /\ UNCHANGED <<chain, stage, handleVars, dataVars, loaded, made, moduleCache,
                     gpuVars, clearing, alive, results>>
  BY NativeAssumption DEF Types, CallTypes, compile_shader_source, CudaLoadFails,
     Loading, Continue, Goto, At, restVars
<1>2. q \in Phases
  BY <1>1 DEF Phases, SubmitPhases
<1> HIDE DEF q, n
<1>3. Passage(j, q, n)
  BY <1>1, <1>2 DEF Passage, n, SubmitPhases
<1> QED
  BY <1>1, <1>2, <1>3 DEF MovesOn

-----------------------------------------------------------------------------
(* The steps of the explicit APIs.                                         *)

LEMMA TakesAvailable ==
    ASSUME Inv, Explicit, NEW j \in Job, NEW h \in Handle, Available(h), Take(j, h)
    PROVE  Obtains(j, h)
<1>1. Types /\ OnePlace(h)
  BY DEF Inv, ExplicitOwned, Ownership
<1> QED
  BY <1>1, TakeObtains

LEMMA QueueTaken ==
    ASSUME Inv, Explicit, NEW j \in Job, take_queue(j),
           active' = IF backend = "OpenCl" THEN active + 1 ELSE active
    PROVE  TakesQueue(j)
<1>1. PICK q \in Obtainable(Queue) : Take(j, q)
  BY DEF take_queue
<1>2. q \in Queue /\ q \in Handle /\ Available(q)
  BY Obtained DEF Handle
<1>3. Obtains(j, q)
  BY <1>1, <1>2, TakesAvailable
<1> QED
  BY <1>2, <1>3 DEF take_queue, TakesQueue, codeVars

LEMMA TableUploaded ==
    ASSUME Inv, Explicit, NEW j \in Job, NEW S,
           \A d \in S : d \in Device /\ Available(d), upload_table(j, S)
    PROVE  Uploads(j)
<1>1. PICK d \in S : /\ Take(j, d) /\ Place(j, d)
                     /\ content' = [content EXCEPT ![d] = TheEntry(j)]
  BY DEF upload_table
<1>2. d \in Device /\ d \in Handle /\ Available(d)
  BY DEF Handle
<1>3. Obtains(j, d)
  BY <1>1, <1>2, TakesAvailable
<1> QED
  BY <1>1, <1>2, <1>3 DEF upload_table, Uploads, codeVars

LEMMA TransientTaken ==
    ASSUME Inv, Explicit, NEW j \in Job, take_transient(j)
    PROVE  TakesTransient(j)
<1>1. PICK d \in Obtainable(Device) :
          /\ Take(j, d) /\ Place(j, d)
          /\ content' = IF TheEntry(j) = "input"
                        THEN [content EXCEPT ![d] = <<j, stage[j] - 1>>]
                        ELSE content
  BY DEF take_transient
<1>2. d \in Device /\ d \in Handle /\ Available(d)
  BY Obtained DEF Handle
<1>3. Obtains(j, d)
  BY <1>1, <1>2, TakesAvailable
<1> QED
  BY <1>1, <1>2, <1>3 DEF take_transient, TakesTransient, codeVars

\* The steps that are the same for HIP, CUDA and OpenCL.
CommonStep(j) ==
    \/ cached_table(j) \/ take_resident(j) \/ take_transient(j) \/ allocated(j)
    \/ all_loaded(j) \/ launch(j)
    \/ Wait(j) \/ DropTicket(j) \/ synchronize(j) \/ read_output(j)
    \/ \E i \in pending[j] : insert_lut(j, i)
    \/ DropWaits(j)

LEMMA CommonMoves ==
    ASSUME Inv, Explicit, NEW j \in Job, CommonStep(j)
    PROVE  TicketMove(j)
<1>1. Types /\ Control
  BY DEF Inv
<1>2. CASE cached_table(j) \/ take_resident(j) \/ launch(j)
  BY <1>2 DEF TicketMove
<1>3. CASE take_transient(j)
  BY <1>3, TransientTaken DEF TicketMove
<1>4. CASE allocated(j) \/ all_loaded(j) \/ DropWaits(j)
  <2>1. UNCHANGED active /\ Turns(j)
    BY <1>4 DEF allocated, all_loaded, DropWaits, DropGoesOn, Turns
  <2> QED
    BY <1>1, <2>1, TurnMovesOn DEF TicketMove
<1>5. CASE Wait(j) \/ DropTicket(j) \/ synchronize(j) \/ read_output(j)
  <2>1. UNCHANGED active
    BY <1>5 DEF Wait, DropTicket, synchronize, read_output
  <2> QED
    BY <1>1, <1>5, <2>1, PlainMovesOn DEF Plain, TicketMove
<1>6. CASE \E i \in pending[j] : insert_lut(j, i)
  BY <1>6 DEF TicketMove
<1> QED
  BY <1>2, <1>3, <1>4, <1>5, <1>6 DEF CommonStep

LEMMA ModuleLoaded ==
    ASSUME Inv, Explicit, NEW j \in Job, load_module_function(j)
    PROVE  LoadsCached(j) \/ LoadsOwn(j)
<1>1. PICK m \in OneOf(Fresh(Module)) :
          /\ refs' = [refs EXCEPT ![m] = 1]
          /\ made' = [made EXCEPT ![m] = NextSource(j)]
          /\ Loaded(j, m)
          /\ IF HasCapacity(moduleCache, MaxModules)
             THEN /\ moduleCache' = InsertIfVacant(moduleCache, NextSource(j), m)
                  /\ UNCHANGED held
             ELSE /\ held' = [held EXCEPT ![j] = @ \cup {m}]
                  /\ UNCHANGED moduleCache
  BY DEF load_module_function
<1>2. Types /\ Control /\ m \in Module /\ m \in Handle /\ New(m) /\ OnePlace(m)
  BY FreshNew DEF Inv, ExplicitOwned, Ownership, Handle
<1>3. /\ call = j /\ phase[j] = "compiled" /\ count[j] < Len(Passes(j))
      /\ NextSource(j) \notin Keys(moduleCache)
  BY <1>2 DEF load_module_function, At, Control, Flow
<1>4. NextSource(j) \in Source
  BY <1>2, <1>3, NextSourceTyped
<1>5. LoadsPass(j, m)
  BY <1>1, <1>2, <1>3 DEF LoadsPass
<1>6. UNCHANGED <<pool, leaked, dataVars, gpuVars, active, restVars>>
  BY DEF load_module_function
<1> DEFINE s == NextSource(j)
           new == [x \in {s} |-> m]
<1>7. CASE HasCapacity(moduleCache, MaxModules)
  <2>1. Caches({s}, new)
    BY <1>1, <1>2, <1>3, <1>4, <1>7, ModuleCached
  <2>2. new \in [{s} -> Module] /\ new[s] = m
    BY <1>2
  <2>3. UNCHANGED held
    BY <1>1, <1>7
  <2> HIDE DEF new
  <2> QED
    BY <1>5, <1>6, <2>1, <2>2, <2>3 DEF LoadsCached
<1>8. CASE ~HasCapacity(moduleCache, MaxModules)
  <2>1. Obtains(j, m)
    BY <1>1, <1>2, <1>6, <1>8 DEF Obtains, OnePlace, New, Available, Types, HandleTypes
  <2> QED
    BY <1>1, <1>2, <1>5, <1>6, <1>8, <2>1 DEF LoadsOwn
<1> QED
  BY <1>7, <1>8

LEMMA CachedLoaded ==
    ASSUME Inv, NEW j \in Job, Loading(j), NextSource(j) \in Keys(moduleCache),
           Loaded(j, moduleCache.entries[NextSource(j)]),
           UNCHANGED <<handleVars, dataVars, made, moduleCache, gpuVars, active,
                       restVars>>
    PROVE  LoadsShared(j)
<1>1. IsCache(moduleCache, Source, Module)
  BY DEF Inv, Types, CodeTypes
<1>2. moduleCache.entries[NextSource(j)] \in Module
  BY <1>1, CacheEntries
<1>3. LoadsPass(j, moduleCache.entries[NextSource(j)])
  BY <1>2 DEF LoadsPass, Loading, At
<1> QED
  BY <1>3 DEF LoadsShared

\* While no ticket is between compiling and loading.
LEMMA NoneCompiled ==
    ASSUME Inv, call = None \/ \E i \in Job : At(i, "module")
    PROVE  \A j \in Job : phase[j] # "compiled"
<1> SUFFICES ASSUME NEW j \in Job, phase[j] = "compiled" PROVE FALSE
  OBVIOUS
<1>1. call = j
  BY DEF Inv, Control, Flow
<1>2. j # None
  BY NativeAssumption
<1> QED
  BY <1>1, <1>2 DEF At

LEMMA ModuleAdded ==
    ASSUME Inv, NEW s \in Source \ Keys(moduleCache), NEW m \in OneOf(Fresh(Module)),
           refs' = [refs EXCEPT ![m] = 1], made' = [made EXCEPT ![m] = s],
           moduleCache' = InsertIfVacant(moduleCache, s, m), call = None,
           UNCHANGED <<flowVars, pool, held, leaked, dataVars, loaded, gpuVars,
                       active, restVars>>
    PROVE  Builds
<1> DEFINE new == [x \in {s} |-> m]
<1>1. Caches({s}, new)
  BY ModuleCached DEF Inv
<1>2. m \in Module
  BY FreshNew
<1>3. new \in [{s} -> Module]
  BY <1>2
<1> HIDE DEF new
<1> QED
  BY <1>1, <1>3, NoneCompiled DEF Builds

HipTicketStep(j) ==
    \/ HipSubmit(j) \/ hip_take_stream(j) \/ hip_allocate(j) \/ hip_cached_module(j)
    \/ compile_shader_source(j) \/ load_module_function(j)
    \/ hip_launch(j) \/ (recycle(j, {}) /\ UNCHANGED active)
    \/ hip_DropEnds(j) \/ hip_unload(j) \/ hip_Unwinds(j)

LEMMA HipTicketMoves ==
    ASSUME Inv, Explicit, backend = "Hip", NEW j \in Job, HipTicketStep(j)
    PROVE  TicketMove(j)
<1>1. Types /\ Control
  BY DEF Inv
<1>2. CASE HipSubmit(j)
  BY <1>2 DEF HipSubmit, TicketMove
<1>3. CASE hip_take_stream(j)
  BY <1>3, QueueTaken DEF hip_take_stream, TicketMove
<1>4. CASE hip_allocate(j)
  <2>1. CASE cached_table(j) \/ take_transient(j) \/ allocated(j)
    BY <2>1, CommonMoves DEF CommonStep
  <2>2. CASE upload_table(j, Obtainable(Device))
    BY <2>2, Obtained, TableUploaded DEF TicketMove
  <2> QED
    BY <1>4, <2>1, <2>2 DEF hip_allocate
<1>5. CASE hip_cached_module(j)
  BY <1>5, CachedLoaded DEF hip_cached_module, TicketMove
<1>6. CASE compile_shader_source(j)
  <2>1. UNCHANGED active
    BY <1>6 DEF compile_shader_source
  <2> QED
    BY <1>1, <1>6, <2>1, CompiledMovesOn DEF TicketMove
<1>7. CASE load_module_function(j)
  BY <1>7, ModuleLoaded DEF TicketMove
<1>8. CASE hip_launch(j)
  BY <1>1, <1>8, LaunchedMovesOn DEF hip_launch, TicketMove
<1>9. CASE recycle(j, {}) /\ UNCHANGED active
  BY <1>9 DEF Recycles, TicketMove
<1>10. CASE hip_DropEnds(j)
  BY <1>10 DEF hip_DropEnds, Ends, TicketMove
<1>11. CASE hip_Unwinds(j)
  BY <1>11 DEF hip_Unwinds, Ends, TicketMove
<1>12. CASE hip_unload(j)
  BY <1>12 DEF Unloads, TicketMove
<1> QED
  BY <1>2, <1>3, <1>4, <1>5, <1>6, <1>7, <1>8, <1>9, <1>10, <1>11, <1>12 DEF HipTicketStep

LEMMA PoolCleared ==
    ASSUME Inv, ClearPool \/ ClearPoolFails
    PROVE  Clears
<1>1. clearing \in Seq(PoolNames) /\ (call = Maint <=> clearing # << >>)
  BY DEF Inv, Types, RestTypes, Control
<1>2. CASE ClearPool
  <2>1. call = Maint /\ clearing # << >>
    BY <1>1, <1>2 DEF ClearPool
  <2>2. Len(clearing) = 1 <=> Tail(clearing) = << >>
    <3>1. /\ Tail(clearing) \in Seq(PoolNames)
          /\ Len(Tail(clearing)) = Len(clearing) - 1 /\ Len(clearing) \in Nat
      BY <1>1, <2>1, HeadTailProperties, LenProperties
    <3> QED
      BY <3>1, EmptySeq
  <2>3. Drain(Head(clearing), {}) /\ clearing' = Tail(clearing)
    BY <1>2 DEF ClearPool
  <2>4. call' = IF clearing' = << >> THEN None ELSE Maint
    BY <1>2, <2>2, <2>3 DEF ClearPool
  <2> QED
    BY <2>1, <2>3, <2>4 DEF Clears
<1>3. CASE ClearPoolFails
  BY <1>3 DEF ClearPoolFails, Clears
<1> QED
  BY <1>2, <1>3

LEMMA ClearBegun ==
    ASSUME NEW order, order \in {HipClearOrder, CudaClearOrder, OpenClClearOrder},
           BeginClear(order), DeviceIdle \/ (backend = "OpenCl" /\ active = 0)
    PROVE  BeginsClear
<1>1. order \in Seq(PoolNames) /\ order # << >>
  <2>1. HipClearOrder \in Seq(PoolNames) /\ HipClearOrder # << >>
    BY DEF HipClearOrder, PoolNames
  <2>2. CudaClearOrder \in Seq(PoolNames) /\ CudaClearOrder # << >>
    BY DEF CudaClearOrder, PoolNames
  <2>3. OpenClClearOrder \in Seq(PoolNames) /\ OpenClClearOrder # << >>
    BY DEF OpenClClearOrder, PoolNames
  <2> QED
    BY <2>1, <2>2, <2>3
<1> QED
  BY <1>1 DEF BeginsClear

LEMMA HipMoves ==
    ASSUME Inv, backend = "Hip", HipStep
    PROVE  ExplicitMove
<1>1. Explicit
  BY DEF Explicit
<1>2. CASE \E j \in Job : CommonStep(j) \/ HipTicketStep(j)
  BY <1>1, <1>2, CommonMoves, HipTicketMoves DEF ExplicitMove
<1>3. CASE \E s \in Source : HipReport(s)
  <2>1. PICK s \in Source : HipReport(s)
    BY <1>3
  <2>2. CASE HasCapacity(moduleCache, MaxModules)
    <3>1. PICK m \in OneOf(Fresh(Module)) :
               /\ refs' = [refs EXCEPT ![m] = 1]
               /\ made' = [made EXCEPT ![m] = s]
               /\ moduleCache' = InsertIfVacant(moduleCache, s, m)
      BY <2>1, <2>2 DEF HipReport
    <3>2. Builds
      BY <2>1, <3>1, ModuleAdded DEF HipReport
    <3> QED
      BY <3>2 DEF ExplicitMove
  <2>3. CASE ~HasCapacity(moduleCache, MaxModules)
    BY <2>1, <2>3 DEF HipReport, KeepsStill, ExplicitMove, handleVars
  <2> QED
    BY <2>2, <2>3
<1>4. CASE \E e \in Archive : restore_hiprtc_code_archive(e[1], e[2])
  BY <1>4 DEF restore_hiprtc_code_archive, KeepsStill, ExplicitMove
<1>5. CASE HipClear
  BY <1>5, ClearBegun DEF HipClear, ExplicitMove
<1>6. CASE ClearPool
  BY <1>6, PoolCleared DEF ExplicitMove
<1>7. CASE DeviceIdle /\ DropContext
  BY <1>7 DEF DropsContext, ExplicitMove
<1> QED
  BY <1>2, <1>3, <1>4, <1>5, <1>6, <1>7 DEF HipStep, CommonStep, HipTicketStep

CudaTicketStep(j) ==
    \/ CudaSubmit(j) \/ cuda_take_stream(j) \/ cuda_allocate(j)
    \/ compile_and_load(j) \/ cuda_launch(j)
    \/ (recycle(j, {}) /\ UNCHANGED active)
    \/ cuda_DropEnds(j) \/ (Unwinds(j) /\ UNCHANGED active)

LEMMA CudaTicketMoves ==
    ASSUME Inv, Explicit, backend = "Cuda", NEW j \in Job, CudaTicketStep(j)
    PROVE  TicketMove(j)
<1>1. Types /\ Control
  BY DEF Inv
<1>2. CASE CudaSubmit(j)
  BY <1>2 DEF CudaSubmit, TicketMove
<1>3. CASE cuda_take_stream(j)
  BY <1>3, QueueTaken DEF cuda_take_stream, TicketMove
<1>4. CASE cuda_allocate(j)
  <2>1. CASE cached_table(j) \/ take_resident(j) \/ take_transient(j) \/ allocated(j)
    BY <2>1, CommonMoves DEF CommonStep
  <2>2. CASE upload_table(j, OneOf(Fresh(Device)))
    BY <2>2, FreshNew, TableUploaded DEF Available, TicketMove
  <2> QED
    BY <1>4, <2>1, <2>2 DEF cuda_allocate
<1>5. CASE compile_and_load(j)
  <2>1. CASE NextSource(j) \in Keys(moduleCache)
    <3>1. /\ Loading(j) /\ Loaded(j, moduleCache.entries[NextSource(j)])
          /\ UNCHANGED <<handleVars, dataVars, made, moduleCache, gpuVars, active,
                         restVars>>
      BY <1>5, <2>1 DEF compile_and_load, handleVars
    <3> QED
      BY <2>1, <3>1, CachedLoaded DEF TicketMove
  <2>2. CASE NextSource(j) \notin Keys(moduleCache)
    <3> DEFINE s == NextSource(j)
    <3>1. /\ Loading(j) /\ CacheModule(s) /\ Loaded(j, moduleCache'.entries[s])
          /\ UNCHANGED <<pool, held, leaked, dataVars, gpuVars, active, restVars>>
      BY <1>5, <2>2 DEF compile_and_load
    <3>2. PICK m \in OneOf(Fresh(Module)) :
              /\ refs' = [refs EXCEPT ![m] = 1]
              /\ made' = [made EXCEPT ![m] = s]
              /\ moduleCache' = InsertIfVacant(moduleCache, s, m)
      BY <3>1 DEF CacheModule
    <3>3. s \in Source /\ call = j /\ phase[j] = "module" /\ count[j] < Len(Passes(j))
      BY <1>1, <3>1, NextSourceTyped DEF Loading, At
    <3> DEFINE new == [x \in {s} |-> m]
    <3>4. Caches({s}, new)
      BY <1>1, <2>2, <3>2, <3>3, ModuleCached
    <3>5. m \in Module
      BY FreshNew
    <3>6. new \in [{s} -> Module] /\ new[s] = m
      BY <3>5
    <3> HIDE DEF new
    <3>7. moduleCache'.entries[s] = new[s]
      BY <3>4 DEF Caches
    <3>8. LoadsPass(j, new[s])
      BY <3>1, <3>3, <3>5, <3>6, <3>7 DEF LoadsPass
    <3>9. LoadsCached(j)
      BY <3>1, <3>4, <3>6, <3>8 DEF LoadsCached
    <3> QED
      BY <3>9 DEF TicketMove
  <2> QED
    BY <2>1, <2>2
<1>6. CASE cuda_launch(j)
  BY <1>1, <1>6, LaunchedMovesOn DEF cuda_launch, TicketMove
<1>7. CASE recycle(j, {}) /\ UNCHANGED active
  BY <1>7 DEF Recycles, TicketMove
<1>8. CASE cuda_DropEnds(j)
  BY <1>8 DEF cuda_DropEnds, Ends, TicketMove
<1>9. CASE Unwinds(j) /\ UNCHANGED active
  BY <1>9 DEF Ends, TicketMove
<1> QED
  BY <1>2, <1>3, <1>4, <1>5, <1>6, <1>7, <1>8, <1>9 DEF CudaTicketStep

LEMMA CudaMoves ==
    ASSUME Inv, backend = "Cuda", CudaStep
    PROVE  ExplicitMove
<1>1. Explicit
  BY DEF Explicit
<1>2. CASE \E j \in Job : CommonStep(j) \/ CudaTicketStep(j)
  BY <1>1, <1>2, CommonMoves, CudaTicketMoves DEF ExplicitMove
<1>3. CASE \E s \in Source : CudaReport(s)
  <2>1. PICK s \in Source : CudaReport(s)
    BY <1>3
  <2>2. PICK m \in OneOf(Fresh(Module)) :
             /\ refs' = [refs EXCEPT ![m] = 1]
             /\ made' = [made EXCEPT ![m] = s]
             /\ moduleCache' = InsertIfVacant(moduleCache, s, m)
    BY <2>1 DEF CudaReport, CacheModule
  <2>3. Builds
    BY <2>1, <2>2, ModuleAdded DEF CudaReport
  <2> QED
    BY <2>3 DEF ExplicitMove
<1>4. CASE \E e \in Archive : restore_ptx_cache_archive(e[1], e[2])
  BY <1>4 DEF restore_ptx_cache_archive, KeepsStill, ExplicitMove
<1>5. CASE CudaClear
  BY <1>5, ClearBegun DEF CudaClear, ExplicitMove
<1>6. CASE ClearPool
  BY <1>6, PoolCleared DEF ExplicitMove
<1>7. CASE DropContext
  BY <1>7 DEF DropsContext, ExplicitMove
<1> QED
  BY <1>2, <1>3, <1>4, <1>5, <1>6, <1>7 DEF CudaStep, CommonStep, CudaTicketStep

OpenClTicketStep(j) ==
    \/ OpenClSubmit(j) \/ begin_submission(j) \/ opencl_allocate(j)
    \/ take_kernel(j) \/ opencl_launch(j) \/ opencl_recycle(j)
    \/ opencl_DropEnds(j) \/ opencl_Unwinds(j)

LEMMA KernelTaken ==
    ASSUME Inv, Explicit, NEW j \in Job, take_kernel(j)
    PROVE  LoadsOwn(j)
<1> DEFINE s == NextSource(j)
<1>1. PICK k \in ObtainableKernel(s) :
          /\ Take(j, k)
          /\ made' = IF pool[k] > 0 THEN made ELSE [made EXCEPT ![k] = s]
          /\ Loaded(j, k)
  BY DEF take_kernel
<1>2. /\ Loading(j)
      /\ UNCHANGED <<dataVars, moduleCache, codeCache, gpuVars, active, restVars>>
  BY DEF take_kernel
<1>3. /\ pool[k] > 0 \/ New(k)
      /\ pool[k] > 0 => made[k] = s
  <2>1. CASE PooledKernels(s) # {}
    <3>1. k \in PooledKernels(s)
      BY <2>1 DEF ObtainableKernel, OneOf
    <3> QED
      BY <3>1 DEF PooledKernels, Pooled
  <2>2. CASE PooledKernels(s) = {}
    <3>1. k \in OneOf(Fresh(Kernel))
      BY <2>2 DEF ObtainableKernel
    <3>2. k \in Kernel /\ New(k)
      BY <3>1, FreshNew
    <3>3. k \in Handle /\ refs[k] \in Nat /\ pool[k] \in Nat
      BY <3>2 DEF Handle, Inv, Types, HandleTypes
    <3>4. OnePlace(k)
      BY <3>3 DEF Inv, ExplicitOwned, Ownership
    <3>5. pool[k] = 0
      BY <3>2, <3>3, <3>4 DEF OnePlace, New
    <3> QED
      BY <3>2, <3>5
  <2> QED
    BY <2>1, <2>2
<1>4. k \in Kernel
  <2>1. \A T : \A x \in OneOf(T) : x \in T
    BY DEF OneOf
  <2> QED
    BY <2>1 DEF ObtainableKernel, PooledKernels, Pooled, Fresh
<1>5. k \in Handle /\ Available(k) /\ k \in Module \cup Kernel
  BY <1>3, <1>4 DEF Handle, Available
<1>6. Obtains(j, k)
  BY <1>1, <1>5, TakesAvailable
<1>7. made' = [made EXCEPT ![k] = s]
  <2>1. made \in [Module \cup Kernel -> Source \cup {None}]
    BY DEF Inv, Types, CodeTypes
  <2> QED
    BY <1>1, <1>3, <1>5, <2>1
<1>8. LoadsPass(j, k)
  BY <1>1, <1>2, <1>5 DEF LoadsPass, Loading, At
<1> QED
  BY <1>2, <1>5, <1>6, <1>7, <1>8 DEF LoadsOwn

LEMMA OpenClTicketMoves ==
    ASSUME Inv, Explicit, backend = "OpenCl", NEW j \in Job, OpenClTicketStep(j)
    PROVE  TicketMove(j)
<1>1. Types /\ Control
  BY DEF Inv
<1>2. CASE OpenClSubmit(j)
  BY <1>2 DEF OpenClSubmit, TicketMove
<1>3. CASE begin_submission(j)
  BY <1>3, QueueTaken DEF begin_submission, TicketMove
<1>4. CASE opencl_allocate(j)
  <2>1. CASE cached_table(j) \/ take_resident(j) \/ take_transient(j) \/ allocated(j)
    BY <2>1, CommonMoves DEF CommonStep
  <2>2. CASE upload_table(j, OneOf(Fresh(Device)))
    BY <2>2, FreshNew, TableUploaded DEF Available, TicketMove
  <2> QED
    BY <1>4, <2>1, <2>2 DEF opencl_allocate
<1>5. CASE take_kernel(j)
  BY <1>5, KernelTaken DEF TicketMove
<1>6. CASE opencl_launch(j)
  BY <1>1, <1>6, LaunchedMovesOn DEF opencl_launch, TicketMove
<1>7. CASE opencl_recycle(j)
  <2>1. held[j] \cap Kernel \in SUBSET (held[j] \cap Kernel)
    OBVIOUS
  <2> QED
    BY <1>7, <2>1 DEF opencl_recycle, Recycles, TicketMove
<1>8. CASE opencl_DropEnds(j)
  BY <1>8 DEF opencl_DropEnds, Ends, TicketMove
<1>9. CASE opencl_Unwinds(j)
  BY <1>9 DEF opencl_Unwinds, Ends, TicketMove
<1> QED
  BY <1>2, <1>3, <1>4, <1>5, <1>6, <1>7, <1>8, <1>9 DEF OpenClTicketStep

LEMMA ProgramsAdded ==
    ASSUME Inv, NEW S \in SUBSET Source, BuildPrograms(S),
           call = None \/ \E i \in Job : At(i, "module"),
           UNCHANGED <<flowVars, pool, held, leaked, dataVars, loaded, gpuVars,
                       active, restVars>>
    PROVE  Builds
<1>1. \E M \in SUBSET Source : \E new \in [M -> Module] : Caches(M, new)
  BY ProgramsBuilt DEF Inv
<1> QED
  BY <1>1, NoneCompiled DEF Builds

LEMMA OpenClMoves ==
    ASSUME Inv, backend = "OpenCl", OpenClStep
    PROVE  ExplicitMove
<1>1. Explicit
  BY DEF Explicit
<1>2. CASE \E j \in Job : CommonStep(j) \/ OpenClTicketStep(j)
  BY <1>1, <1>2, CommonMoves, OpenClTicketMoves DEF ExplicitMove
<1>3. CASE \E j \in Job : get_or_build_program(j)
  <2>1. PICK j \in Job : get_or_build_program(j)
    BY <1>3
  <2>2. {NextSource(j)} \in SUBSET Source
    BY <2>1, NextSourceTyped DEF get_or_build_program, Loading, At, Inv
  <2>3. Builds
    BY <2>1, <2>2, ProgramsAdded DEF get_or_build_program, Loading
  <2> QED
    BY <2>3 DEF ExplicitMove
<1>4. CASE \E s \in Source : OpenClReport(s)
  <2>1. PICK s \in Source : OpenClReport(s)
    BY <1>4
  <2>2. CASE s \in Keys(moduleCache)
    <3>1. PICK k \in OneOf(Fresh(Kernel)) :
               /\ refs' = [refs EXCEPT ![k] = 1]
               /\ pool' = [pool EXCEPT ![k] = 1]
               /\ made' = [made EXCEPT ![k] = s]
               /\ UNCHANGED moduleCache
      BY <2>1, <2>2 DEF OpenClReport
    <3>2. k \in Kernel /\ New(k)
      BY FreshNew
    <3>3. PoolsKernel
      BY <2>1, <3>1, <3>2 DEF OpenClReport, PoolsKernel
    <3> QED
      BY <3>3 DEF ExplicitMove
  <2>3. CASE s \notin Keys(moduleCache)
    BY <2>1, <2>3, ProgramsAdded DEF OpenClReport, ExplicitMove
  <2> QED
    BY <2>2, <2>3
<1>5. CASE \E S \in SUBSET Source : restore_program_binary_archive(S)
  BY <1>5, ProgramsAdded DEF restore_program_binary_archive, ExplicitMove
<1>6. CASE OpenClClear
  BY <1>6, ClearBegun DEF OpenClClear, ExplicitMove
<1>7. CASE ClearPool
  BY <1>7, PoolCleared DEF ExplicitMove
<1>8. CASE DropContext
  BY <1>8 DEF DropsContext, ExplicitMove
<1> QED
  BY <1>2, <1>3, <1>4, <1>5, <1>6, <1>7, <1>8
  DEF OpenClStep, CommonStep, OpenClTicketStep

LEMMA ExplicitMoves ==
    ASSUME Inv, Explicit, Next
    PROVE  ExplicitMove
<1>1. Types /\ Control
  BY DEF Inv
<1>2. backend \in {"Hip", "Cuda", "OpenCl"}
  BY DEF Inv, Types, FreeTypes, Backend, Explicit
<1>3. CASE Step
  <2>1. CASE \E j \in Job : DeviceEnds(j)
    BY <2>1 DEF ExplicitMove, TicketMove
  <2> QED
    BY <1>2, <1>3, <2>1, HipMoves, CudaMoves, OpenClMoves DEF Step
<1>4. CASE Failure
  <2>1. CASE \E j \in Job : SubmitFails(j) \/ FinishFails(j)
    <3>1. PICK j \in Job : SubmitFails(j) \/ FinishFails(j)
      BY <2>1
    <3>2. UNCHANGED active
      BY <3>1 DEF SubmitFails, FinishFails
    <3> QED
      BY <1>1, <3>1, <3>2, PlainMovesOn DEF Plain, TicketMove, ExplicitMove
  <2>2. CASE \E j \in Job : CudaLoadFails(j)
    <3>1. PICK j \in Job : CudaLoadFails(j)
      BY <2>2
    <3>2. UNCHANGED active
      BY <3>1 DEF CudaLoadFails
    <3> QED
      BY <1>1, <3>1, <3>2, CompiledMovesOn DEF TicketMove, ExplicitMove
  <2>3. CASE ClearPoolFails
    BY <2>3, PoolCleared DEF ExplicitMove
  <2>4. CASE \E j \in Job : DropWaitFails(j)
    <3>1. PICK j \in Job : DropWaitFails(j)
      BY <2>4
    <3>2. UNCHANGED active
      BY <3>1 DEF DropWaitFails, DropGoesOn
    <3> QED
      BY <1>1, <3>1, <3>2, TurnMovesOn DEF Turns, TicketMove, ExplicitMove
  <2>5. CASE \E j \in Job : \E i \in pending[j] : FreeDuplicateFails(j, i)
    BY <2>5 DEF TicketMove, ExplicitMove
  <2> QED
    BY <1>2, <1>4, <2>1, <2>2, <2>3, <2>4, <2>5 DEF Failure
<1> QED
  BY <1>3, <1>4 DEF Next

-----------------------------------------------------------------------------
(* A ticket's move leaves the other tickets alone.                         *)

Others(j) ==
    \A i \in Job \ {j} :
       /\ phase'[i] = phase[i] /\ chain'[i] = chain[i] /\ stage'[i] = stage[i]
       /\ count'[i] = count[i] /\ held'[i] = held[i] /\ memory'[i] = memory[i]
       /\ pending'[i] = pending[i] /\ resident'[i] = resident[i]
       /\ loaded'[i] = loaded[i] /\ uses'[i] = uses[i] /\ results'[i] = results[i]
       /\ i \in running' <=> i \in running

LEMMA MovesAlone ==
    ASSUME Types, NEW j \in Job, TicketMove(j)
    PROVE  Others(j)
<1> USE DEF Types, CallTypes, HandleTypes, DataTypes, CodeTypes, GpuTypes, RestTypes
<1>1. ASSUME NEW c \in Chains[j], Submit(j, c, "queue") PROVE Others(j)
  BY <1>1 DEF Submit, Others, Goto, handleVars, dataVars, codeVars, gpuVars
<1>2. CASE TakesQueue(j)
  BY <1>2 DEF TakesQueue, Obtains, Others, Continue, Goto, dataVars, gpuVars, restVars
<1>3. CASE cached_table(j)
  BY <1>3 DEF cached_table, Place, Others, handleVars, codeVars, gpuVars, restVars
<1>4. CASE Uploads(j)
  BY <1>4 DEF Uploads, Obtains, Place, Others, gpuVars, restVars
<1>5. CASE TakesTransient(j)
  BY <1>5 DEF TakesTransient, Obtains, Place, Others, gpuVars, restVars
<1>6. CASE take_resident(j)
  BY <1>6 DEF take_resident, Place, Others, handleVars, codeVars, gpuVars, restVars
<1>7. CASE MovesOn(j)
  BY <1>7 DEF MovesOn, Others, handleVars, dataVars, gpuVars
<1>8. CASE LoadsShared(j)
  BY <1>8 DEF LoadsShared, LoadsPass, Loaded, Continue, Goto, Others, handleVars,
     dataVars, gpuVars, restVars
<1>9. CASE LoadsCached(j)
  BY <1>9 DEF LoadsCached, LoadsPass, Loaded, Continue, Goto, Others, dataVars,
     gpuVars, restVars
<1>10. CASE LoadsOwn(j)
  BY <1>10 DEF LoadsOwn, LoadsPass, Loaded, Obtains, Continue, Goto, Others,
     dataVars, gpuVars, restVars
<1>11. CASE launch(j)
  BY <1>11 DEF launch, Others, handleVars, dataVars, codeVars, restVars
<1>12. CASE DeviceEnds(j)
  BY <1>12 DEF DeviceEnds, Others, flowVars, handleVars, codeVars, restVars
<1>13. ASSUME NEW i \in pending[j], insert_lut(j, i) PROVE Others(j)
  BY <1>13 DEF insert_lut, Others, flowVars, gpuVars, restVars
<1>14. ASSUME NEW i \in pending[j], FreeDuplicateFails(j, i) PROVE Others(j)
  BY <1>14 DEF FreeDuplicateFails, Continue, Goto, Others, codeVars, gpuVars
<1>15. CASE Recycles(j)
  BY <1>15 DEF Recycles, recycle, Continue, Goto, Others, codeVars, gpuVars, restVars
<1>16. CASE Ends(j)
  <2>1. CASE DropEnds(j)
    BY <2>1 DEF DropEnds, Returns, Forgets, Goto, Others, gpuVars
  <2>2. CASE Unwinds(j)
    BY <2>2 DEF Unwinds, Returns, Forgets, Goto, Others, gpuVars
  <2> QED
    BY <1>16, <2>1, <2>2 DEF Ends
<1>17. CASE Unloads(j)
  BY <1>17 DEF Unloads, hip_unload, Others, flowVars, gpuVars, restVars
<1> QED
  BY <1>1, <1>2, <1>3, <1>4, <1>5, <1>6, <1>7, <1>8, <1>9, <1>10, <1>11, <1>12,
     <1>13, <1>14, <1>15, <1>16, <1>17 DEF TicketMove

-----------------------------------------------------------------------------
(* Types.                                                                  *)

MoveTypes ==
    /\ CallTypes /\ HandleTypes /\ DataTypes /\ CodeTypes /\ GpuTypes
    /\ RestTypes

\* The output of a program has memory.
LEMMA OutputPlaced ==
    ASSUME Inv, NEW j \in Job, phase[j] \in Allocated
    PROVE  /\ Output(j) \in Device /\ Len(Plan(j)) \in DOMAIN memory[j]
           /\ Transient(j, Len(Plan(j))) /\ (Explicit => Output(j) \in held[j])
<1>1. phase[j] # "idle" /\ phase[j] \in Working
  BY DEF Allocated, Working
<1>2. /\ Len(Plan(j)) \in Nat \ {0} /\ Plan(j)[Len(Plan(j))] = "device"
      /\ Len(memory[j]) = Len(Plan(j)) /\ DOMAIN memory[j] = 1 .. Len(memory[j])
  BY <1>1, CurrentProgram, TicketSequences DEF Inv, Control, Flow
<1>3. Len(Plan(j)) \in DOMAIN memory[j]
  BY <1>2
<1>4. Transient(j, Len(Plan(j)))
  BY <1>2, <1>3, NativeAssumption DEF Transient
<1>5. Output(j) \in Device \cup {None}
  BY <1>3, TicketSequences DEF Inv, Output
<1>6. CASE Explicit
  <2>1. Output(j) \in held[j]
    BY <1>1, <1>3, <1>4, <1>6 DEF Inv, ExplicitOwned, TicketOwns, Output
  <2>2. held[j] \subseteq Handle
    BY DEF Inv, Types, HandleTypes
  <2> QED
    BY <1>3, <1>4, <1>5, <2>1, <2>2, NativeAssumption
<1>7. CASE ~Explicit
  <2>1. phase[j] # "free"
    BY DEF Allocated
  <2>2. Output(j) \in Device
    BY <1>3, <1>4, <1>7, <2>1 DEF Inv, MetalCounted, MetalTicket, Output
  <2> QED
    BY <1>3, <1>4, <1>7, <2>2
<1> QED
  BY <1>6, <1>7

LEMMA PlacedTyped ==
    ASSUME Types, NEW j \in Job, NEW d \in Device, Place(j, d)
    PROVE  /\ memory' \in [Job -> Seq(Device \cup {None})]
           /\ count' \in [Job -> Nat]
<1>1. Append(memory[j], d) \in Seq(Device \cup {None})
  BY TicketSequences, AppendProperties
<1> QED
  BY <1>1 DEF Place, Types, DataTypes, CallTypes

LEMMA LoadedTyped ==
    ASSUME Types, NEW j \in Job, NEW h \in Module \cup Kernel, Loaded(j, h)
    PROVE  /\ loaded' \in [Job -> Seq(Module \cup Kernel)] /\ CallTypes'
<1>1. Append(loaded[j], h) \in Seq(Module \cup Kernel)
  BY TicketSequences, AppendProperties
<1> QED
  BY <1>1 DEF Loaded, Continue, Goto, Types, CodeTypes, CallTypes, Phases, SubmitPhases

\* Steps that the ticket of Metal takes as well.
LEMMA SubmitTypes ==
    ASSUME Types, NEW j \in Job, NEW c \in Chains[j], NEW p \in Phases,
           Submit(j, c, p)
    PROVE  MoveTypes'
<1>1. c \in Seq(Program)
  BY NativeAssumption
<1>2. None \in Contents
  BY DEF Contents
<1> QED
  BY <1>1, <1>2 DEF Types, MoveTypes, CallTypes, HandleTypes, DataTypes, CodeTypes,
     GpuTypes, RestTypes, Submit, Goto, handleVars, dataVars, codeVars, gpuVars

LEMMA MovesOnTypes ==
    ASSUME Inv, NEW j \in Job, MovesOn(j)
    PROVE  MoveTypes'
<1>1. PICK q \in Phases, n \in Nat :
       /\ Passage(j, q, n)
       /\ call' = IF q = "pending" THEN None ELSE j
       /\ phase' = [phase EXCEPT ![j] = q]
       /\ count' = [count EXCEPT ![j] = n]
       /\ results' = IF phase[j] = "read" /\ q = "tables"
                     THEN [results EXCEPT ![j] = content[Output(j)]] ELSE results
       /\ active' = IF backend = "Hip" /\ phase[j] = "launch" /\ q # "unwind"
                    THEN active + 1 ELSE active
       /\ UNCHANGED <<chain, stage, handleVars, dataVars, loaded, made,
                      moduleCache, gpuVars, clearing, alive>>
  BY DEF MovesOn
<1>2. Types
  BY DEF Inv
<1>3. results' \in [Job -> Contents]
  <2>1. CASE phase[j] = "read" /\ q = "tables"
    <3>1. Output(j) \in Device
      BY <2>1, OutputPlaced DEF Allocated
    <3>2. content[Output(j)] \in Contents
      BY <1>2, <3>1 DEF Types, DataTypes
    <3> QED
      BY <1>1, <1>2, <2>1, <3>2 DEF Types, RestTypes
  <2> QED
    BY <1>1, <1>2, <2>1 DEF Types, RestTypes
<1>4. CallTypes'
  BY <1>1, <1>2 DEF Types, CallTypes
<1>5. HandleTypes' /\ DataTypes' /\ CodeTypes' /\ GpuTypes'
  BY <1>1, <1>2 DEF Types, HandleTypes, DataTypes, CodeTypes, GpuTypes, handleVars,
     dataVars, gpuVars
<1>6. RestTypes'
  BY <1>1, <1>2, <1>3 DEF Types, RestTypes
<1> QED
  BY <1>4, <1>5, <1>6 DEF MoveTypes

LEMMA DeviceEndsTypes ==
    ASSUME Types, NEW j \in Job, DeviceEnds(j)
    PROVE  MoveTypes'
<1>1. <<j, stage[j]>> \in Contents /\ None \in Contents
  BY DEF Types, CallTypes, Contents
<1>2. content' \in [Device -> Contents]
  BY <1>1 DEF DeviceEnds, Types, DataTypes
<1> QED
  BY <1>2 DEF DeviceEnds, Types, MoveTypes, CallTypes, HandleTypes, DataTypes,
     CodeTypes, GpuTypes, RestTypes, flowVars, handleVars, codeVars, restVars

\* What a ticket remembers of its programs.
LEMMA ForgetsTyped ==
    ASSUME Types, NEW j \in Job, Forgets(j)
    PROVE  /\ results' \in [Job -> Contents] /\ count' \in [Job -> Nat]
           /\ memory' \in [Job -> Seq(Device \cup {None})]
           /\ pending' \in [Job -> SUBSET Nat]
           /\ loaded' \in [Job -> Seq(Module \cup Kernel)]
<1>1. << >> \in Seq(Device \cup {None}) /\ << >> \in Seq(Module \cup Kernel)
      /\ None \in Contents
  BY EmptySeq DEF Contents
<1> QED
  BY <1>1 DEF Forgets, Types, RestTypes, DataTypes, CodeTypes, CallTypes

LEMMA ReturnsTyped ==
    ASSUME Types, NEW j \in Job, Returns(j)
    PROVE  /\ call' \in Job \cup {Maint, None} /\ phase' \in [Job -> Phases]
           /\ stage' \in [Job -> Nat] /\ chain' \in [Job -> Seq(Program)]
<1>1. << >> \in Seq(Program)
  BY EmptySeq
<1> QED
  BY <1>1 DEF Returns, Goto, Types, CallTypes, Phases

LEMMA ScrubbedTyped ==
    ASSUME Types, NEW lost, NEW r
    PROVE  /\ Scrubbed(content, r, lost) \in [Device -> Contents]
           /\ Scrubbed(made, r, lost) \in [Module \cup Kernel -> Source \cup {None}]
<1>1. None \in Contents /\ content \in [Device -> Contents]
      /\ made \in [Module \cup Kernel -> Source \cup {None}]
  BY DEF Types, DataTypes, CodeTypes, Contents
<1> QED
  BY <1>1 DEF Scrubbed

LEMMA ObtainsTyped ==
    ASSUME Types, NEW j \in Job, NEW h, Obtains(j, h)
    PROVE  HandleTypes'
  BY DEF Obtains, Types, HandleTypes

LEMMA CachesTyped ==
    ASSUME Types, NEW M, NEW new, Caches(M, new)
    PROVE  /\ refs' \in [Handle -> Nat]
           /\ made' \in [Module \cup Kernel -> Source \cup {None}]
           /\ IsCache(moduleCache', Source, Module)
  BY DEF Caches, Types, HandleTypes

LEMMA TicketTypes ==
    ASSUME Inv, Explicit, NEW j \in Job, TicketMove(j)
    PROVE  MoveTypes'
<1>1. Types /\ Control
  BY DEF Inv
<1> USE DEF MoveTypes
<1>2. ASSUME NEW c \in Chains[j], Submit(j, c, "queue") PROVE MoveTypes'
  BY <1>1, <1>2, SubmitTypes DEF Phases, SubmitPhases
<1>3. CASE TakesQueue(j)
  <2>1. HandleTypes'
    BY <1>1, <1>3, ObtainsTyped DEF TakesQueue
  <2>2. CallTypes'
    BY <1>1, <1>3 DEF TakesQueue, Continue, Goto, Types, CallTypes, Phases, SubmitPhases
  <2>3. DataTypes' /\ CodeTypes' /\ GpuTypes' /\ RestTypes'
    BY <1>1, <1>3 DEF TakesQueue, Types, DataTypes, CodeTypes, GpuTypes, RestTypes,
       dataVars, gpuVars, restVars
  <2> QED
    BY <2>1, <2>2, <2>3
<1>4. CASE cached_table(j)
  <2>1. lutCache.entries[TheEntry(j)] \in Device
    BY <1>1, <1>4, CacheEntries DEF cached_table, Types, DataTypes
  <2>2. memory' \in [Job -> Seq(Device \cup {None})] /\ count' \in [Job -> Nat]
    BY <1>1, <1>4, <2>1, PlacedTyped DEF cached_table
  <2> QED
    BY <1>1, <1>4, <2>2 DEF cached_table, Types, CallTypes, HandleTypes, DataTypes,
       CodeTypes, GpuTypes, RestTypes, handleVars, codeVars, gpuVars, restVars
<1>5. CASE Uploads(j) \/ TakesTransient(j)
  <2>1. PICK d \in Device : Obtains(j, d) /\ Place(j, d)
    BY <1>5 DEF Uploads, TakesTransient
  <2>2. HandleTypes'
    BY <1>1, <2>1, ObtainsTyped
  <2>3. memory' \in [Job -> Seq(Device \cup {None})] /\ count' \in [Job -> Nat]
    BY <1>1, <2>1, PlacedTyped
  <2>4. content' \in [Device -> Contents] /\ pending' \in [Job -> SUBSET Nat]
    <3>1. stage[j] - 1 \in Nat
      BY <1>1, <1>5, CurrentProgram DEF Uploads, TakesTransient, Allocating, At
    <3>2. Index(j) \in Nat
      BY <1>1 DEF Index, Types, CallTypes
    <3>3. <<j, stage[j] - 1>> \in Contents
      BY <3>1 DEF Contents
    <3>4. CASE Uploads(j)
      <4>1. TheEntry(j) \in Contents
        BY <3>4 DEF Uploads, Contents
      <4> QED
        BY <1>1, <3>2, <3>4, <4>1 DEF Uploads, Types, DataTypes
    <3>5. CASE TakesTransient(j)
      BY <1>1, <3>3, <3>5 DEF TakesTransient, Types, DataTypes
    <3> QED
      BY <1>5, <3>4, <3>5
  <2> QED
    BY <1>1, <1>5, <2>2, <2>3, <2>4 DEF Uploads, TakesTransient, Types, CallTypes,
       DataTypes, CodeTypes, GpuTypes, RestTypes, gpuVars, restVars
<1>6. CASE take_resident(j)
  <2>1. resident[j] \in Device
    BY <1>1, <1>6 DEF take_resident, Types, DataTypes
  <2>2. memory' \in [Job -> Seq(Device \cup {None})] /\ count' \in [Job -> Nat]
    BY <1>1, <1>6, <2>1, PlacedTyped DEF take_resident
  <2> QED
    BY <1>1, <1>6, <2>2 DEF take_resident, Types, CallTypes, HandleTypes, DataTypes,
       CodeTypes, GpuTypes, RestTypes, handleVars, codeVars, gpuVars, restVars
<1>7. CASE MovesOn(j)
  BY <1>7, MovesOnTypes
<1>8. CASE LoadsShared(j) \/ LoadsCached(j) \/ LoadsOwn(j)
  <2>1. PICK h \in Module \cup Kernel : Loaded(j, h)
    BY <1>8 DEF LoadsShared, LoadsCached, LoadsOwn, LoadsPass
  <2>2. loaded' \in [Job -> Seq(Module \cup Kernel)] /\ CallTypes'
    BY <1>1, <2>1, LoadedTyped
  <2>3. CASE LoadsShared(j)
    BY <1>1, <2>2, <2>3 DEF LoadsShared, Types, HandleTypes, DataTypes,
       CodeTypes, GpuTypes, RestTypes, handleVars, dataVars, gpuVars, restVars
  <2>4. CASE LoadsCached(j)
    <3>1. PICK new \in [{NextSource(j)} -> Module] : Caches({NextSource(j)}, new)
      BY <2>4 DEF LoadsCached
    <3>2. /\ refs' \in [Handle -> Nat]
          /\ made' \in [Module \cup Kernel -> Source \cup {None}]
          /\ IsCache(moduleCache', Source, Module)
      BY <1>1, <3>1, CachesTyped
    <3> QED
      BY <1>1, <2>2, <2>4, <3>2 DEF LoadsCached, Types, HandleTypes, DataTypes,
         CodeTypes, GpuTypes, RestTypes, dataVars, gpuVars, restVars
  <2>5. CASE LoadsOwn(j)
    <3>1. PICK x \in Module \cup Kernel : /\ Obtains(j, x) /\ LoadsPass(j, x)
                                          /\ made' = [made EXCEPT ![x] = NextSource(j)]
      BY <2>5 DEF LoadsOwn
    <3>2. HandleTypes'
      BY <1>1, <3>1, ObtainsTyped
    <3>3. NextSource(j) \in Source
      BY <1>1, <3>1, NextSourceTyped DEF LoadsPass
    <3> QED
      BY <1>1, <2>2, <2>5, <3>1, <3>2, <3>3 DEF LoadsOwn, Types, DataTypes,
         CodeTypes, GpuTypes, RestTypes, dataVars, gpuVars, restVars
  <2> QED
    BY <1>8, <2>3, <2>4, <2>5
<1>9. CASE launch(j)
  <2>1. ToSet(memory[j]) \subseteq Device
    BY DEF Inv, ExplicitOwned, TicketOwns, ToSet
  <2>2. ToSet(loaded[j]) \subseteq Module \cup Kernel /\ held[j] \subseteq Handle
    BY <1>1, TicketSequences DEF ToSet, Types, HandleTypes
  <2>3. Used(j) \subseteq Handle
    BY <2>1, <2>2 DEF Used, Handle
  <2>4. CallTypes' /\ GpuTypes'
    BY <1>1, <1>9, <2>3 DEF launch, Types, CallTypes, GpuTypes
  <2> QED
    BY <1>1, <1>9, <2>4 DEF launch, Types, HandleTypes, DataTypes,
       CodeTypes, RestTypes, handleVars, dataVars, codeVars, restVars
<1>10. CASE DeviceEnds(j)
  BY <1>1, <1>10, DeviceEndsTypes
<1>11. ASSUME NEW i \in pending[j], insert_lut(j, i) PROVE MoveTypes'
  <2>1. /\ i \in DOMAIN memory[j] /\ Plan(j)[i] \in Key /\ memory[j][i] \in Device
    BY DEF Inv, ExplicitOwned, TicketOwns
  <2>2. /\ held' \in [Job -> SUBSET Handle] /\ pending' \in [Job -> SUBSET Nat]
    BY <1>1, <1>11 DEF insert_lut, Types, HandleTypes, DataTypes
  <2>3. /\ refs' \in [Handle -> Nat] /\ content' \in [Device -> Contents]
        /\ made' \in [Module \cup Kernel -> Source \cup {None}]
        /\ IsCache(lutCache', Key, Device)
    <3>1. CASE Plan(j)[i] \in Keys(lutCache)
      <4>1. Destroy({memory[j][i]}) /\ UNCHANGED lutCache
        BY <1>11, <3>1 DEF insert_lut
      <4>2. refs' \in [Handle -> Nat]
        BY <1>1, <4>1 DEF Destroy, Types, HandleTypes
      <4> QED
        BY <1>1, <4>1, <4>2, ScrubbedTyped DEF Destroy, Scrub, Types, DataTypes, IsCache
    <3>2. CASE Plan(j)[i] \notin Keys(lutCache)
      <4>1. /\ lutCache' = InsertIfVacant(lutCache, Plan(j)[i], memory[j][i])
            /\ UNCHANGED <<refs, content, made>>
        BY <1>11, <3>2 DEF insert_lut
      <4>2. IsCache(lutCache, Key, Device)
        BY <1>1 DEF Types, DataTypes
      <4>3. IsCache(lutCache', Key, Device)
        BY <2>1, <3>2, <4>1, <4>2, InsertExtends
      <4> QED
        BY <1>1, <4>1, <4>3 DEF Types, HandleTypes, DataTypes, CodeTypes
    <3> QED
      BY <3>1, <3>2
  <2> QED
    BY <1>1, <1>11, <2>2, <2>3 DEF insert_lut, Types, CallTypes, HandleTypes, DataTypes,
       CodeTypes, GpuTypes, RestTypes, flowVars, gpuVars, restVars
<1>12. ASSUME NEW i \in pending[j], FreeDuplicateFails(j, i) PROVE MoveTypes'
  <2>1. i \in DOMAIN memory[j] /\ memory[j][i] \in Handle
    BY DEF Inv, ExplicitOwned, TicketOwns, Handle
  <2>2. HandleTypes'
    BY <1>1, <1>12, <2>1 DEF FreeDuplicateFails, Types, HandleTypes
  <2>3. CallTypes'
    BY <1>1, <1>12 DEF FreeDuplicateFails, Continue, Goto, Types, CallTypes, Phases
  <2> QED
    BY <1>1, <1>12, <2>2, <2>3 DEF FreeDuplicateFails, Types, DataTypes, CodeTypes,
       GpuTypes, RestTypes, codeVars, gpuVars
<1>13. CASE Recycles(j)
  <2>1. PICK others \in SUBSET (held[j] \cap Kernel) :
             recycle(j, others) /\ UNCHANGED active
    BY <1>13 DEF Recycles
  <2>2. Output(j) \in Device
    BY <2>1, OutputPlaced DEF recycle, At, Allocated
  <2>3. HandleTypes'
    BY <1>1, <2>1 DEF recycle, Types, HandleTypes
  <2>4. /\ content' \in [Device -> Contents]
        /\ resident' \in [Job -> Device \cup {None}]
    BY <1>1, <2>1, <2>2 DEF recycle, Types, DataTypes, Contents
  <2>5. CallTypes'
    BY <1>1, <2>1 DEF recycle, Continue, Goto, Types, CallTypes, Phases
  <2> QED
    BY <1>1, <2>1, <2>3, <2>4, <2>5 DEF recycle, Types, DataTypes, CodeTypes,
       GpuTypes, RestTypes, codeVars, gpuVars, restVars
<1>14. CASE Ends(j)
  <2>1. active' \in Int
    BY <1>1, <1>14 DEF Ends, Types, RestTypes
  <2>2. /\ HandleTypes' /\ content' \in [Device -> Contents]
        /\ made' \in [Module \cup Kernel -> Source \cup {None}]
        /\ resident' \in [Job -> Device \cup {None}]
    <3>1. CASE DropEnds(j)
      <4>1. /\ Destroy(held[j] \ {resident[j]}) /\ UNCHANGED <<pool, leaked, resident>>
            /\ held' = [held EXCEPT ![j] = @ \cap {resident[j]}]
        BY <3>1 DEF DropEnds
      <4>2. HandleTypes' /\ resident' \in [Job -> Device \cup {None}]
        BY <1>1, <4>1 DEF Destroy, Types, HandleTypes, DataTypes
      <4> QED
        BY <1>1, <4>1, <4>2, ScrubbedTyped DEF Destroy, Scrub
    <3>2. CASE Unwinds(j)
      <4>1. /\ Destroy(held[j]) /\ UNCHANGED <<pool, leaked>>
            /\ held' = [held EXCEPT ![j] = {}]
            /\ resident' = [resident EXCEPT ![j] = None]
        BY <3>2 DEF Unwinds
      <4>2. HandleTypes' /\ resident' \in [Job -> Device \cup {None}]
        BY <1>1, <4>1 DEF Destroy, Types, HandleTypes, DataTypes
      <4> QED
        BY <1>1, <4>1, <4>2, ScrubbedTyped DEF Destroy, Scrub
    <3> QED
      BY <1>14, <3>1, <3>2 DEF Ends
  <2>3. Forgets(j)
    BY <1>14 DEF Ends, DropEnds, Unwinds
  <2>4. CallTypes'
    <3>1. count' \in [Job -> Nat]
      BY <1>1, <2>3, ForgetsTyped
    <3>2. CASE Returns(j)
      BY <1>1, <3>1, <3>2, ReturnsTyped DEF CallTypes
    <3>3. CASE ~Returns(j)
      <4>1. /\ Goto(j, "queue") /\ stage' = [stage EXCEPT ![j] = @ + 1]
            /\ UNCHANGED <<call, chain>>
        BY <1>14, <3>3 DEF Ends, DropEnds, Unwinds
      <4> QED
        BY <1>1, <3>1, <4>1 DEF Goto, Types, CallTypes, Phases, SubmitPhases
    <3> QED
      BY <3>2, <3>3
  <2>5. UNCHANGED <<lutCache, moduleCache, gpuVars, clearing, alive>>
    BY <1>14 DEF Ends, DropEnds, Unwinds
  <2> QED
    BY <1>1, <2>1, <2>2, <2>3, <2>4, <2>5, ForgetsTyped DEF Types,
       DataTypes, CodeTypes, GpuTypes, RestTypes, gpuVars, IsCache
<1>15. CASE Unloads(j)
  <2>1. /\ Destroy(held[j] \cap Module) /\ held' = [held EXCEPT ![j] = @ \ Module]
        /\ loaded' = [loaded EXCEPT ![j] = << >>]
        /\ UNCHANGED <<flowVars, pool, leaked, memory, pending, resident, lutCache,
                       moduleCache, gpuVars, active, restVars>>
    BY <1>15 DEF Unloads, hip_unload
  <2>2. HandleTypes'
    BY <1>1, <2>1 DEF Destroy, Types, HandleTypes
  <2>3. /\ content' \in [Device -> Contents]
        /\ made' \in [Module \cup Kernel -> Source \cup {None}]
    BY <1>1, <2>1, ScrubbedTyped DEF Destroy, Scrub
  <2>4. loaded' \in [Job -> Seq(Module \cup Kernel)]
    BY <1>1, <2>1 DEF Types, CodeTypes
  <2> QED
    BY <1>1, <2>1, <2>2, <2>3, <2>4 DEF Types, CallTypes, DataTypes, CodeTypes, GpuTypes,
       RestTypes, flowVars, gpuVars, restVars
<1> QED
  BY <1>2, <1>3, <1>4, <1>5, <1>6, <1>7, <1>8, <1>9, <1>10, <1>11, <1>12, <1>13, <1>14, <1>15
  DEF TicketMove

LEMMA ContextTypes ==
    ASSUME Inv, Explicit, ExplicitMove, ~(\E j \in Job : TicketMove(j))
    PROVE  MoveTypes'
<1>1. Types /\ Control
  BY DEF Inv
<1> USE DEF MoveTypes
<1>2. CASE Builds
  <2>1. PICK M \in SUBSET Source : \E new \in [M -> Module] : Caches(M, new)
    BY <1>2 DEF Builds
  <2>2. /\ refs' \in [Handle -> Nat]
        /\ made' \in [Module \cup Kernel -> Source \cup {None}]
        /\ IsCache(moduleCache', Source, Module)
    BY <1>1, <2>1, CachesTyped
  <2> QED
    BY <1>1, <1>2, <2>2 DEF Builds, Types, CallTypes, HandleTypes, DataTypes,
       CodeTypes, GpuTypes, RestTypes, flowVars, dataVars, gpuVars, restVars
<1>3. CASE PoolsKernel
  <2>1. PICK k \in Kernel :
             /\ refs' = [refs EXCEPT ![k] = 1] /\ pool' = [pool EXCEPT ![k] = 1]
             /\ \E s \in Source : made' = [made EXCEPT ![k] = s]
    BY <1>3 DEF PoolsKernel
  <2>2. refs' \in [Handle -> Nat] /\ pool' \in [Handle -> Nat]
    BY <1>1, <2>1 DEF Types, HandleTypes
  <2>3. made' \in [Module \cup Kernel -> Source \cup {None}]
    BY <1>1, <2>1 DEF Types, CodeTypes
  <2> QED
    BY <1>1, <1>3, <2>2, <2>3 DEF PoolsKernel, Types, CallTypes, HandleTypes, DataTypes,
       CodeTypes, GpuTypes, RestTypes, flowVars, dataVars, gpuVars, restVars
<1>4. CASE KeepsStill
  BY <1>1, <1>4 DEF KeepsStill, Types, CallTypes, HandleTypes, DataTypes,
     CodeTypes, GpuTypes, RestTypes, flowVars, handleVars, dataVars, gpuVars, restVars
<1>5. CASE BeginsClear
  <2>1. PICK order \in Seq(PoolNames) : BeginClear(order)
    BY <1>5 DEF BeginsClear
  <2>2. CallTypes' /\ RestTypes'
    BY <1>1, <2>1 DEF BeginClear, Types, CallTypes, RestTypes
  <2> QED
    BY <1>1, <2>1, <2>2 DEF BeginClear, Types, HandleTypes, DataTypes,
       CodeTypes, GpuTypes, handleVars, dataVars, codeVars, gpuVars
<1>6. CASE Clears
  <2>1. PICK S \in SUBSET InPool(Head(clearing)) :
             Drain(Head(clearing), S) /\ (S # {} => clearing' = << >>)
    BY <1>6 DEF Clears
  <2>2. clearing \in Seq(PoolNames) /\ clearing # << >>
    BY <1>1, <1>6 DEF Clears, Types, RestTypes, Control
  <2>3. Head(clearing) \in PoolNames /\ Tail(clearing) \in Seq(PoolNames)
    BY <2>2, HeadTailProperties
  <2>4. InPool(Head(clearing)) \subseteq Handle
    <3>1. Values(lutCache) \subseteq Handle /\ Values(moduleCache) \subseteq Handle
      BY <1>1, CacheEntries DEF Types, DataTypes, CodeTypes, Handle
    <3> QED
      BY <2>3, <3>1 DEF InPool, PoolNames, Pooled, Handle
  <2>5. HandleTypes'
    BY <1>1, <2>1, <2>4 DEF Drain, Types, HandleTypes
  <2>6. content' \in [Device -> Contents]
        /\ made' \in [Module \cup Kernel -> Source \cup {None}]
    BY <1>1, <2>1, ScrubbedTyped DEF Drain, Scrub
  <2>7. IsCache(lutCache', Key, Device) /\ IsCache(moduleCache', Source, Module)
    BY <1>1, <2>1, EmptyIsCache DEF Drain, Types, DataTypes, CodeTypes, IsCache
  <2>8. clearing' \in Seq(PoolNames) /\ call' \in Job \cup {Maint, None}
    BY <1>6, <2>3, EmptySeq DEF Clears
  <2> QED
    BY <1>1, <2>1, <2>5, <2>6, <2>7, <2>8 DEF Drain, Types, CallTypes, DataTypes,
       CodeTypes, GpuTypes, RestTypes, gpuVars
<1>7. CASE DropsContext
  <2>1. DropContext
    BY <1>7 DEF DropsContext
  <2>2. HandleTypes'
    BY <1>1, <2>1 DEF DropContext, Destroy, Types, HandleTypes
  <2>3. content' \in [Device -> Contents]
        /\ made' \in [Module \cup Kernel -> Source \cup {None}]
    BY <1>1, <2>1, ScrubbedTyped DEF DropContext, Destroy, Scrub
  <2>4. IsCache(lutCache', Key, Device) /\ IsCache(moduleCache', Source, Module)
    BY <2>1, EmptyIsCache DEF DropContext
  <2> QED
    BY <1>1, <2>1, <2>2, <2>3, <2>4 DEF DropContext, Types, CallTypes, DataTypes,
       CodeTypes, GpuTypes, RestTypes, flowVars, gpuVars
<1> QED
  BY <1>2, <1>3, <1>4, <1>5, <1>6, <1>7 DEF ExplicitMove

LEMMA ExplicitTypes ==
    ASSUME Inv, Explicit, ExplicitMove
    PROVE  MoveTypes'
  BY TicketTypes, ContextTypes

-----------------------------------------------------------------------------
(* Where the calls are.                                                    *)

\* One more buffer.
LEMMA Placed ==
    ASSUME Types, NEW j \in Job, NEW d \in Device, Place(j, d)
    PROVE  /\ memory'[j] = Append(memory[j], d)
           /\ Len(memory'[j]) = Len(memory[j]) + 1
           /\ DOMAIN memory'[j] = DOMAIN memory[j] \cup {Len(memory[j]) + 1}
           /\ memory'[j][Len(memory[j]) + 1] = d
           /\ \A i \in DOMAIN memory[j] : memory'[j][i] = memory[j][i]
           /\ ToSet(memory'[j]) = ToSet(memory[j]) \cup {d}
           /\ count'[j] = count[j] + 1
<1>1. memory'[j] = Append(memory[j], d) /\ count'[j] = count[j] + 1
  BY DEF Place, Types, CallTypes, DataTypes
<1>2. memory[j] \in Seq(Device \cup {None}) /\ DOMAIN memory[j] = 1 .. Len(memory[j])
      /\ Len(memory[j]) \in Nat
  BY TicketSequences
<1>3. /\ memory'[j] \in Seq(Device \cup {None})
      /\ Len(memory'[j]) = Len(memory[j]) + 1
      /\ \A i \in 1 .. Len(memory[j]) : memory'[j][i] = memory[j][i]
      /\ memory'[j][Len(memory[j]) + 1] = d
  BY <1>1, <1>2, AppendProperties
<1>4. DOMAIN memory'[j] = 1 .. Len(memory'[j])
  BY <1>3, LenProperties
<1>5. DOMAIN memory'[j] = DOMAIN memory[j] \cup {Len(memory[j]) + 1}
  BY <1>2, <1>3, <1>4
<1>6. ToSet(memory'[j]) = ToSet(memory[j]) \cup {d}
  BY <1>1, <1>2, ToSetAppend
<1> QED
  BY <1>1, <1>2, <1>3, <1>5, <1>6

\* One more pass.
LEMMA PassLoaded ==
    ASSUME Types, NEW j \in Job, NEW h \in Module \cup Kernel, Loaded(j, h)
    PROVE  /\ loaded'[j] = Append(loaded[j], h)
           /\ Len(loaded'[j]) = Len(loaded[j]) + 1
           /\ DOMAIN loaded'[j] = DOMAIN loaded[j] \cup {Len(loaded[j]) + 1}
           /\ loaded'[j][Len(loaded[j]) + 1] = h
           /\ \A i \in DOMAIN loaded[j] : loaded'[j][i] = loaded[j][i]
           /\ ToSet(loaded'[j]) = ToSet(loaded[j]) \cup {h}
           /\ count'[j] = count[j] + 1 /\ phase'[j] = "module"
<1>1. /\ loaded'[j] = Append(loaded[j], h) /\ count'[j] = count[j] + 1
      /\ phase'[j] = "module"
  BY DEF Loaded, Continue, Goto, Types, CallTypes, CodeTypes
<1>2. loaded[j] \in Seq(Module \cup Kernel) /\ DOMAIN loaded[j] = 1 .. Len(loaded[j])
      /\ Len(loaded[j]) \in Nat
  BY TicketSequences
<1>3. /\ loaded'[j] \in Seq(Module \cup Kernel)
      /\ Len(loaded'[j]) = Len(loaded[j]) + 1
      /\ \A i \in 1 .. Len(loaded[j]) : loaded'[j][i] = loaded[j][i]
      /\ loaded'[j][Len(loaded[j]) + 1] = h
  BY <1>1, <1>2, AppendProperties
<1>4. DOMAIN loaded'[j] = 1 .. Len(loaded'[j])
  BY <1>3, LenProperties
<1>5. DOMAIN loaded'[j] = DOMAIN loaded[j] \cup {Len(loaded[j]) + 1}
  BY <1>2, <1>3, <1>4
<1>6. ToSet(loaded'[j]) = ToSet(loaded[j]) \cup {h}
  BY <1>1, <1>2, ToSetAppend
<1> QED
  BY <1>1, <1>2, <1>3, <1>5, <1>6

\* Ticket j, or nobody, is called before and after.
Turn(j) == \/ UNCHANGED <<call, lutCache, moduleCache>>
           \/ call \in {j, None} /\ call' \in {j, None}

LEMMA OthersFlow ==
    ASSUME Types, Control, NEW j \in Job, Others(j), Turn(j), UNCHANGED clearing,
           Flow(j)'
    PROVE  Control'
<1>1. ASSUME NEW i \in Job, i # j PROVE Flow(i)'
  <2>1. /\ phase'[i] = phase[i] /\ count'[i] = count[i] /\ memory'[i] = memory[i]
        /\ pending'[i] = pending[i] /\ resident'[i] = resident[i]
        /\ loaded'[i] = loaded[i] /\ stage'[i] = stage[i] /\ chain'[i] = chain[i]
    BY <1>1 DEF Others
  <2>2. Flow(i) /\ i # None
    BY NativeAssumption DEF Control
  <2>3. call = i <=> call' = i
    BY <1>1, <2>2 DEF Turn
  <2>4. /\ Plan(i)' = Plan(i) /\ Passes(i)' = Passes(i)
        /\ NextSource(i)' = NextSource(i)
    BY <2>1 DEF Plan, Passes, TheProgram, NextSource, Index
  <2>5. phase[i] = "compiled" => NextSource(i)' \notin Keys(moduleCache')
    BY <1>1, <2>2, <2>4 DEF Turn, Flow
  <2> QED
    BY <2>1, <2>2, <2>3, <2>4, <2>5 DEF Flow
<1>2. call' = Maint <=> clearing' # << >>
  BY NativeAssumption DEF Turn, Control
<1> QED
  BY <1>1, <1>2 DEF Control

LEMMA AllocFlow ==
    ASSUME Types, Control, NEW j \in Job, Allocating(j), NEW d \in Device,
           Place(j, d), UNCHANGED <<call, phase, chain, stage, loaded>>,
           pending'[j] \subseteq pending[j] \cup {Index(j)}
    PROVE  Flow(j)'
<1>1. /\ Flow(j) /\ call = j /\ phase[j] = "alloc" /\ count[j] < Len(Plan(j))
      /\ count[j] = Len(memory[j])
  BY DEF Control, Allocating, At, Flow
<1>2. /\ Len(memory'[j]) = Len(memory[j]) + 1
      /\ DOMAIN memory'[j] = DOMAIN memory[j] \cup {Len(memory[j]) + 1}
      /\ count'[j] = count[j] + 1
  BY Placed
<1>3. Plan(j)' = Plan(j) /\ Passes(j)' = Passes(j) /\ Len(Plan(j)) \in Nat
      /\ Len(memory[j]) \in Nat
  BY <1>1, CurrentProgram, TicketSequences DEF Plan, Passes, TheProgram
<1>4. pending'[j] \subseteq DOMAIN memory'[j]
  BY <1>1, <1>2 DEF Index, Flow
<1>5. Len(memory'[j]) <= Len(Plan(j)) /\ count'[j] = Len(memory'[j])
  BY <1>1, <1>2, <1>3
<1> QED
  BY <1>1, <1>3, <1>4, <1>5 DEF Flow, Allocated, LoadedAll

LEMMA LoadFlow ==
    ASSUME Types, Control, NEW j \in Job, NEW h \in Module \cup Kernel,
           LoadsPass(j, h), UNCHANGED <<memory, pending>>
    PROVE  Flow(j)'
<1>1. /\ Flow(j) /\ call = j /\ phase[j] \in {"module", "compiled"}
      /\ count[j] < Len(Passes(j)) /\ count[j] = Len(loaded[j])
  BY DEF Control, LoadsPass, Flow
<1>2. /\ Len(loaded'[j]) = Len(loaded[j]) + 1 /\ count'[j] = count[j] + 1
      /\ phase'[j] = "module"
  BY PassLoaded DEF LoadsPass
<1>3. UNCHANGED <<call, chain, stage>>
  BY DEF LoadsPass, Loaded, Continue
<1>4. Plan(j)' = Plan(j) /\ Passes(j)' = Passes(j) /\ Len(Passes(j)) \in Nat
      /\ Len(loaded[j]) \in Nat
  BY <1>1, <1>3, CurrentProgram, TicketSequences DEF Plan, Passes, TheProgram
<1>5. Len(loaded'[j]) <= Len(Passes(j)) /\ count'[j] = Len(loaded'[j])
  BY <1>1, <1>2, <1>4
<1> QED
  BY <1>1, <1>2, <1>3, <1>4, <1>5 DEF Flow, Allocated, LoadedAll

LEMMA PassageFlow ==
    ASSUME Inv, NEW j \in Job, MovesOn(j)
    PROVE  Flow(j)' /\ Turn(j) /\ UNCHANGED clearing
<1> USE DEF Inv
<1>1. PICK q \in Phases, n \in Nat :
       /\ Passage(j, q, n)
       /\ call \in {j, None} /\ (call = None <=> phase[j] = "pending")
       /\ call' = IF q = "pending" THEN None ELSE j
       /\ phase' = [phase EXCEPT ![j] = q]
       /\ count' = [count EXCEPT ![j] = n]
       /\ UNCHANGED <<chain, stage, handleVars, dataVars, loaded, made,
                      moduleCache, gpuVars, clearing, alive>>
  BY DEF MovesOn
<1>2. /\ phase'[j] = q /\ count'[j] = n /\ j # None
      /\ UNCHANGED <<memory, pending, loaded, resident, moduleCache, chain, stage>>
  BY <1>1, NativeAssumption DEF Types, CallTypes, dataVars
<1>3. /\ Plan(j)' = Plan(j) /\ Passes(j)' = Passes(j)
      /\ (n = count[j] => NextSource(j)' = NextSource(j))
  BY <1>2 DEF Plan, Passes, TheProgram, NextSource, Index
<1>4. Flow(j) /\ phase[j] # "idle"
  BY <1>1 DEF Control, Passage, SubmitPhases
<1>5. call' = j <=> phase'[j] \notin {"idle", "pending"}
  BY <1>1, <1>2 DEF Passage
<1>6. /\ Len(Plan(j)) \in Nat /\ Len(Passes(j)) \in Nat /\ count[j] \in Nat
      /\ Len(memory[j]) \in Nat /\ Len(loaded[j]) \in Nat
  BY <1>4, CurrentProgram, TicketSequences DEF Types, CallTypes
<1>7. Flow(j)'
  <2>1. CASE phase[j] = "alloc" /\ q = "module"
    BY <1>1, <1>2, <1>3, <1>4, <1>5, <1>6, <2>1
    DEF Passage, Flow, Allocated, LoadedAll, SubmitPhases
  <2>2. CASE phase[j] = "module" /\ q = "launch"
    BY <1>1, <1>2, <1>3, <1>4, <1>5, <1>6, <2>2
    DEF Passage, Flow, Allocated, LoadedAll, SubmitPhases
  <2>3. CASE phase[j] = "module" /\ q = "compiled"
    BY <1>1, <1>2, <1>3, <1>4, <1>5, <1>6, <2>3
    DEF Passage, Flow, Allocated, LoadedAll, SubmitPhases
  <2>4. CASE q = "unwind"
    BY <1>1, <1>2, <1>3, <1>4, <1>5, <1>6, <2>4
    DEF Passage, Flow, Allocated, LoadedAll, SubmitPhases
  <2>5. CASE phase[j] = "launch" /\ q \in {"pending", "sync"}
    BY <1>1, <1>2, <1>3, <1>4, <1>5, <1>6, <2>5
    DEF Passage, Flow, Allocated, LoadedAll, SubmitPhases
  <2>6. CASE phase[j] = "drop" /\ q = "dropQueue"
    BY <1>1, <1>2, <1>3, <1>4, <1>5, <1>6, <2>6
    DEF Passage, Flow, Allocated, LoadedAll, SubmitPhases
  <2>7. CASE phase[j] = "dropQueue" /\ q = "free"
    <3>1. resident[j] = None
      BY <2>7 DEF ExplicitOwned, TicketOwns, MetalCounted, MetalTicket
    <3> QED
      BY <1>1, <1>2, <1>3, <1>4, <1>5, <1>6, <2>7, <3>1
      DEF Passage, Flow, Allocated, LoadedAll, SubmitPhases
  <2>8. CASE phase[j] \in {"pending", "sync", "read"}
    BY <1>1, <1>2, <1>3, <1>4, <1>5, <1>6, <2>8
    DEF Passage, Flow, Allocated, LoadedAll, SubmitPhases
  <2> QED
    BY <1>1, <2>1, <2>2, <2>3, <2>4, <2>5, <2>6, <2>7, <2>8 DEF Passage
<1>8. Turn(j)
  BY <1>1 DEF Turn
<1> QED
  BY <1>1, <1>7, <1>8

LEMMA SubmitFlow ==
    ASSUME Inv, NEW j \in Job, NEW c \in Chains[j], NEW p \in {"queue", "alloc"},
           Submit(j, c, p)
    PROVE  Flow(j)' /\ Turn(j) /\ UNCHANGED clearing
<1>1. c \in Seq(Program) \ {<< >>} /\ j # None
  BY NativeAssumption
<1>2. Len(c) \in Nat \ {0}
  BY <1>1, EmptySeq
<1>3. /\ phase[j] = "idle" /\ Flow(j) /\ call = None /\ call' = j
      /\ phase'[j] = p /\ chain'[j] = c /\ stage'[j] = 1
      /\ UNCHANGED <<memory, loaded, pending, count, clearing>>
  BY DEF Submit, Goto, Inv, Control, Types, CallTypes, dataVars, codeVars
<1>4. /\ memory[j] = << >> /\ loaded[j] = << >> /\ pending[j] = {} /\ count[j] = 0
      /\ Len(memory[j]) = 0 /\ Len(loaded[j]) = 0
  BY <1>3, EmptySeq DEF Flow
<1>5. chain'[j][stage'[j]] \in Program
  BY <1>1, <1>2, <1>3, ElementOfSeq
<1>6. Len(Plan(j)') \in Nat /\ Len(Passes(j)') \in Nat
  <2>1. Entries[chain'[j][stage'[j]]] \in Seq(Key \cup {"input", "device"})
        /\ Shaders[chain'[j][stage'[j]]] \in Seq(Source)
    BY <1>5, NativeAssumption
  <2> QED
    BY <2>1, LenProperties DEF Plan, Passes, TheProgram
<1>7. Flow(j)'
  BY <1>1, <1>2, <1>3, <1>4, <1>6 DEF Flow, Allocated, LoadedAll
<1> QED
  BY <1>1, <1>3, <1>7 DEF Turn

LEMMA DeviceEndsFlow ==
    ASSUME Inv, NEW j \in Job, DeviceEnds(j)
    PROVE  Flow(j)' /\ Turn(j) /\ UNCHANGED clearing
<1>1. UNCHANGED <<call, phase, chain, stage, count, memory, loaded, pending,
                  resident, lutCache, moduleCache, clearing>>
  BY DEF DeviceEnds, flowVars, codeVars, restVars
<1>2. Plan(j)' = Plan(j) /\ Passes(j)' = Passes(j) /\ NextSource(j)' = NextSource(j)
  BY <1>1 DEF Plan, Passes, TheProgram, NextSource, Index
<1>3. Flow(j)
  BY DEF Inv, Control
<1> QED
  BY <1>1, <1>2, <1>3 DEF Flow, Turn

\* A ticket that returns has nothing any more.
LEMMA ReturnsFlow ==
    ASSUME Types, NEW j \in Job, Returns(j), Forgets(j)
    PROVE  Flow(j)'
<1>1. /\ phase'[j] = "idle" /\ call' = None /\ memory'[j] = << >>
      /\ loaded'[j] = << >> /\ pending'[j] = {} /\ count'[j] = 0 /\ j # None
  BY NativeAssumption DEF Returns, Forgets, Goto, Types, CallTypes, DataTypes, CodeTypes
<1> QED
  BY <1>1 DEF Flow, Allocated, LoadedAll

LEMMA TicketFlow ==
    ASSUME Inv, Explicit, NEW j \in Job, TicketMove(j)
    PROVE  Flow(j)' /\ Turn(j) /\ UNCHANGED clearing
<1>1. Types /\ Control /\ Flow(j) /\ j # None /\ TicketOwns(j)
  BY NativeAssumption DEF Inv, Control, ExplicitOwned
<1>2. ASSUME NEW c \in Chains[j], Submit(j, c, "queue")
      PROVE  Flow(j)' /\ Turn(j) /\ UNCHANGED clearing
  BY <1>2, SubmitFlow
<1>3. CASE TakesQueue(j)
  <2>1. /\ call = j /\ call' = j /\ phase[j] = "queue" /\ phase'[j] = "alloc"
        /\ UNCHANGED <<chain, stage, count, memory, pending, loaded, clearing>>
    BY <1>1, <1>3 DEF TakesQueue, At, Continue, Goto, Types, CallTypes, dataVars, restVars
  <2>2. Plan(j)' = Plan(j) /\ Passes(j)' = Passes(j) /\ Len(memory[j]) = 0
    BY <1>1, <2>1, EmptySeq DEF Plan, Passes, TheProgram, Flow
  <2> QED
    BY <1>1, <2>1, <2>2 DEF Flow, Allocated, LoadedAll, Turn
<1>4. CASE cached_table(j) \/ Uploads(j) \/ TakesTransient(j) \/ take_resident(j)
  <2>1. PICK d \in Device : Place(j, d)
    BY <1>1, <1>4, CacheEntries DEF cached_table, Uploads, TakesTransient,
       take_resident, Types, DataTypes
  <2>2. /\ Allocating(j) /\ UNCHANGED <<call, phase, chain, stage, loaded, clearing>>
        /\ pending'[j] \subseteq pending[j] \cup {Index(j)}
    BY <1>1, <1>4 DEF cached_table, Uploads, TakesTransient, take_resident,
       codeVars, restVars, Types, DataTypes
  <2>3. Turn(j)
    BY <2>2 DEF Turn, Allocating, At
  <2> QED
    BY <1>1, <2>1, <2>2, <2>3, AllocFlow
<1>5. CASE MovesOn(j)
  BY <1>5, PassageFlow
<1>6. CASE LoadsShared(j) \/ LoadsCached(j) \/ LoadsOwn(j)
  <2>1. PICK h \in Module \cup Kernel : LoadsPass(j, h)
    BY <1>6 DEF LoadsShared, LoadsCached, LoadsOwn, LoadsPass
  <2>2. UNCHANGED <<memory, pending, clearing>>
    BY <1>6 DEF LoadsShared, LoadsCached, LoadsOwn, dataVars, restVars
  <2>3. Turn(j)
    BY <2>1 DEF Turn, LoadsPass, Loaded, Continue
  <2> QED
    BY <1>1, <2>1, <2>2, <2>3, LoadFlow
<1>7. CASE launch(j)
  <2>1. /\ call = j /\ phase[j] = "launch" /\ count[j] < Len(Passes(j))
        /\ count'[j] = count[j] + 1
        /\ UNCHANGED <<call, phase, chain, stage, memory, pending, loaded, resident,
                       moduleCache, clearing>>
    BY <1>1, <1>7 DEF launch, At, Types, CallTypes, dataVars, codeVars, restVars
  <2>2. Plan(j)' = Plan(j) /\ Passes(j)' = Passes(j) /\ Len(Passes(j)) \in Nat
        /\ count[j] \in Nat
    BY <1>1, <2>1, CurrentProgram DEF Plan, Passes, TheProgram, Types, CallTypes
  <2> QED
    BY <1>1, <2>1, <2>2 DEF Flow, Allocated, LoadedAll, Turn
<1>8. CASE DeviceEnds(j)
  BY <1>8, DeviceEndsFlow
<1>9. ASSUME NEW i \in pending[j], insert_lut(j, i)
      PROVE  Flow(j)' /\ Turn(j) /\ UNCHANGED clearing
  <2>1. /\ call = j /\ phase[j] = "tables" /\ pending'[j] \subseteq pending[j]
        /\ UNCHANGED <<call, phase, chain, stage, count, memory, loaded, resident,
                       moduleCache, clearing>>
    BY <1>1, <1>9 DEF insert_lut, At, flowVars, restVars, Types, DataTypes
  <2>2. Plan(j)' = Plan(j) /\ Passes(j)' = Passes(j) /\ NextSource(j)' = NextSource(j)
    BY <2>1 DEF Plan, Passes, TheProgram, NextSource, Index
  <2> QED
    BY <1>1, <2>1, <2>2 DEF Flow, Turn
<1>10. ASSUME NEW i \in pending[j], FreeDuplicateFails(j, i)
       PROVE  Flow(j)' /\ Turn(j) /\ UNCHANGED clearing
  <2>1. /\ phase[j] = "tables" /\ phase'[j] = "drop" /\ pending'[j] = {} /\ call = j
        /\ UNCHANGED <<call, chain, stage, count, memory, loaded, resident,
                       moduleCache, clearing>>
    BY <1>1, <1>10 DEF FreeDuplicateFails, At, Continue, Goto, codeVars, Types,
       CallTypes, DataTypes
  <2>2. Plan(j)' = Plan(j) /\ Passes(j)' = Passes(j)
    BY <2>1 DEF Plan, Passes, TheProgram
  <2> QED
    BY <1>1, <2>1, <2>2 DEF Flow, Allocated, LoadedAll, Turn
<1>11. CASE Recycles(j)
  <2>1. /\ phase[j] = "tables" /\ phase'[j] = "free" /\ pending[j] = {} /\ call = j
        /\ resident'[j] = (IF LastStage(j) THEN None ELSE Output(j))
        /\ UNCHANGED <<call, chain, stage, count, memory, loaded, pending,
                       moduleCache, clearing>>
    BY <1>1, <1>11 DEF Recycles, recycle, At, Continue, Goto, codeVars, restVars, Types,
       CallTypes, DataTypes
  <2>2. Plan(j)' = Plan(j) /\ Passes(j)' = Passes(j)
    BY <2>1 DEF Plan, Passes, TheProgram
  <2>3. resident'[j] # None => stage[j] < Len(chain[j])
    <3>1. stage[j] \in 1 .. Len(chain[j]) /\ Len(chain[j]) \in Nat
      BY <1>1, <2>1, LenProperties DEF Flow, Types, CallTypes
    <3> QED
      BY <2>1, <3>1 DEF LastStage
  <2> QED
    BY <1>1, <2>1, <2>2, <2>3 DEF Flow, Allocated, LoadedAll, Turn
<1>12. CASE Ends(j)
  <2>1. /\ Forgets(j) /\ UNCHANGED <<moduleCache, clearing>>
        /\ call = j
    BY <1>12 DEF Ends, DropEnds, Unwinds, At
  <2>2. CASE Returns(j)
    BY <1>1, <2>1, <2>2, ReturnsFlow DEF Returns, Turn
  <2>3. CASE ~Returns(j)
    <3>1. /\ phase[j] = "free" /\ resident[j] # None /\ Goto(j, "queue")
          /\ stage' = [stage EXCEPT ![j] = @ + 1] /\ UNCHANGED <<call, chain>>
      BY <1>12, <2>3 DEF Ends, DropEnds, Unwinds, At
    <3>2. /\ phase'[j] = "queue" /\ stage'[j] = stage[j] + 1
          /\ memory'[j] = << >> /\ loaded'[j] = << >> /\ pending'[j] = {}
          /\ count'[j] = 0
      BY <1>1, <2>1, <3>1 DEF Goto, Forgets, Types, CallTypes, DataTypes, CodeTypes
    <3>3. stage'[j] \in 1 .. Len(chain'[j])
      <4>1. stage[j] \in 1 .. Len(chain[j]) /\ stage[j] < Len(chain[j])
            /\ Len(chain[j]) \in Nat
        BY <1>1, <3>1, LenProperties DEF Flow, Types, CallTypes
      <4> QED
        BY <3>1, <3>2, <4>1
    <3>4. Len(memory'[j]) = 0 /\ Len(loaded'[j]) = 0
      BY <3>2, EmptySeq
    <3>5. Len(Plan(j)') \in Nat /\ Len(Passes(j)') \in Nat
      <4>1. chain'[j][stage'[j]] \in Program
        BY <1>1, <3>1, <3>3, ElementOfSeq DEF Types, CallTypes
      <4>2. Entries[chain'[j][stage'[j]]] \in Seq(Key \cup {"input", "device"})
            /\ Shaders[chain'[j][stage'[j]]] \in Seq(Source)
        BY <4>1, NativeAssumption
      <4> QED
        BY <4>2, LenProperties DEF Plan, Passes, TheProgram
    <3> QED
      BY <1>1, <2>1, <3>1, <3>2, <3>3, <3>4, <3>5 DEF Flow, Allocated, LoadedAll, Turn
  <2> QED
    BY <2>2, <2>3
<1>13. CASE Unloads(j)
  <2>1. /\ call = j /\ phase[j] = "unwind" /\ loaded'[j] = << >>
        /\ UNCHANGED <<call, phase, chain, stage, count, memory, pending, resident,
                       moduleCache, clearing>>
    BY <1>1, <1>13 DEF Unloads, hip_unload, At, flowVars, restVars, Types, CodeTypes
  <2>2. Plan(j)' = Plan(j) /\ Passes(j)' = Passes(j)
    BY <2>1 DEF Plan, Passes, TheProgram
  <2>3. Len(loaded'[j]) = 0 /\ Len(Passes(j)) \in Nat
    BY <1>1, <2>1, EmptySeq, CurrentProgram, LenProperties DEF Types, CallTypes
  <2> QED
    BY <1>1, <2>1, <2>2, <2>3 DEF Flow, Allocated, LoadedAll, Turn
<1> QED
  BY <1>2, <1>3, <1>4, <1>5, <1>6, <1>7, <1>8, <1>9, <1>10, <1>11, <1>12, <1>13 DEF TicketMove

LEMMA ExplicitControl ==
    ASSUME Inv, Explicit, ExplicitMove
    PROVE  Control'
<1>1. Types /\ Control
  BY DEF Inv
<1>2. ASSUME NEW j \in Job, TicketMove(j) PROVE Control'
  BY <1>1, <1>2, TicketFlow, MovesAlone, OthersFlow
<1> DEFINE Keeps == UNCHANGED <<phase, chain, stage, count, memory, pending, resident,
                                loaded>>
<1>3. ASSUME Keeps, call' \notin Job, call \notin Job,
             call' = Maint <=> clearing' # << >>
      PROVE  Control'
  <2>1. ASSUME NEW j \in Job PROVE Flow(j)'
    <3>1. Flow(j) /\ call # j /\ call' # j
      BY <1>1, <1>3 DEF Control
    <3>2. phase[j] # "compiled"
      BY <3>1 DEF Flow
    <3>3. Plan(j)' = Plan(j) /\ Passes(j)' = Passes(j)
      BY <1>3 DEF Plan, Passes, TheProgram
    <3> QED
      BY <1>3, <3>1, <3>2, <3>3 DEF Flow
  <2> QED
    BY <1>3, <2>1 DEF Control
<1>4. CASE Builds \/ PoolsKernel \/ KeepsStill
  <2>1. Keeps /\ UNCHANGED <<call, clearing>>
    BY <1>4 DEF Builds, PoolsKernel, KeepsStill, flowVars, dataVars, restVars
  <2>2. UNCHANGED moduleCache \/ \A j \in Job : phase[j] # "compiled"
    BY <1>4 DEF Builds, PoolsKernel, KeepsStill
  <2>3. ASSUME NEW j \in Job PROVE Flow(j)'
    <3>1. Flow(j)
      BY <1>1 DEF Control
    <3>2. Plan(j)' = Plan(j) /\ Passes(j)' = Passes(j) /\ NextSource(j)' = NextSource(j)
      BY <2>1 DEF Plan, Passes, TheProgram, NextSource, Index
    <3> QED
      BY <2>1, <2>2, <3>1, <3>2 DEF Flow
  <2> QED
    BY <1>1, <2>1, <2>3 DEF Control
<1>5. None \notin Job /\ Maint \notin Job /\ Maint # None
  BY NativeAssumption
<1>6. CASE BeginsClear
  BY <1>3, <1>5, <1>6 DEF BeginsClear, BeginClear, dataVars, codeVars
<1>7. CASE Clears
  <2>1. Keeps
    BY <1>7 DEF Clears, Drain
  <2>2. call = Maint /\ call' = IF clearing' = << >> THEN None ELSE Maint
    BY <1>7 DEF Clears
  <2> QED
    BY <1>3, <1>5, <2>1, <2>2
<1>8. CASE DropsContext
  <2>1. Keeps /\ UNCHANGED <<call, clearing>> /\ call = None
    BY <1>8 DEF DropsContext, DropContext, flowVars
  <2> QED
    BY <1>1, <1>3, <1>5, <2>1 DEF Control
<1> QED
  BY <1>2, <1>4, <1>6, <1>7, <1>8 DEF ExplicitMove

-----------------------------------------------------------------------------
(* Who owns the handles of the explicit APIs.                              *)

Unowned(h) ==
    /\ h \notin leaked /\ h \notin Shared
    /\ \A j \in Job : h \notin held[j]

LEMMA AvailableUnowned ==
    ASSUME Inv, Explicit, NEW h \in Handle, Available(h)
    PROVE  Unowned(h)
<1>1. refs[h] \in Nat /\ pool[h] \in Nat /\ OnePlace(h)
  BY DEF Inv, Types, HandleTypes, ExplicitOwned, Ownership
<1> QED
  BY <1>1 DEF Available, New, OnePlace, Unowned

LEMMA OwnershipStays ==
    ASSUME Ownership, UNCHANGED <<handleVars, lutCache, moduleCache>>
    PROVE  Ownership'
  BY DEF Ownership, OnePlace, OneKeyEach, Shared, Values, Keys, handleVars

LEMMA ObtainsOwnership ==
    ASSUME Inv, Explicit, NEW j \in Job, NEW h, Obtains(j, h),
           UNCHANGED <<lutCache, moduleCache>>
    PROVE  Ownership'
<1>1. h \in Handle /\ Unowned(h)
  BY AvailableUnowned DEF Obtains
<1>2. /\ refs \in [Handle -> Nat] /\ pool \in [Handle -> Nat]
      /\ held \in [Job -> SUBSET Handle] /\ Ownership
  BY DEF Inv, Types, HandleTypes, ExplicitOwned
<1>3. /\ held' = [held EXCEPT ![j] = @ \cup {h}] /\ leaked' = leaked
      /\ refs' = [refs EXCEPT ![h] = 1] /\ pool' = [pool EXCEPT ![h] = 0]
  BY DEF Obtains
<1>4. Shared' = Shared
  BY DEF Shared, Values, Keys
<1>5. ASSUME NEW x \in Handle PROVE OnePlace(x)'
  <2>1. OnePlace(x)
    BY <1>2 DEF Ownership
  <2>2. CASE x = h
    BY <1>1, <1>2, <1>3, <1>4, <2>2 DEF OnePlace, Unowned
  <2>3. CASE x # h
    <3>1. refs'[x] = refs[x] /\ pool'[x] = pool[x]
          /\ \A i \in Job : x \in held'[i] <=> x \in held[i]
      BY <1>2, <1>3, <2>3
    <3> QED
      BY <1>3, <1>4, <2>1, <3>1 DEF OnePlace
  <2> QED
    BY <2>2, <2>3
<1> QED
  BY <1>2, <1>5 DEF Ownership, OneKeyEach, Keys

LEMMA CachesOwnership ==
    ASSUME Inv, Explicit, NEW M, NEW new, Caches(M, new),
           UNCHANGED <<pool, held, leaked, lutCache>>
    PROVE  /\ Ownership' /\ Values(moduleCache) \subseteq Values(moduleCache')
           /\ \A s \in M : new[s] \in Values(moduleCache')
<1> DEFINE added == {new[s] : s \in M}
<1>1. /\ refs \in [Handle -> Nat] /\ pool \in [Handle -> Nat]
      /\ held \in [Job -> SUBSET Handle] /\ Ownership
  BY DEF Inv, Types, HandleTypes, ExplicitOwned
<1>2. /\ M \subseteq Source \ Keys(moduleCache) /\ new \in [M -> Module]
      /\ \A s \in M : New(new[s])
      /\ \A s, t \in M : new[s] = new[t] => s = t
      /\ refs' = [h \in Handle |-> IF \E s \in M : new[s] = h THEN 1 ELSE refs[h]]
      /\ Keys(moduleCache') = Keys(moduleCache) \cup M
      /\ \A s \in M : moduleCache'.entries[s] = new[s]
      /\ \A s \in Keys(moduleCache) : moduleCache'.entries[s] = moduleCache.entries[s]
  BY DEF Caches
<1>3. \A h \in added : h \in Handle /\ Unowned(h)
  BY <1>2, AvailableUnowned DEF Available, Handle
<1>4. Values(moduleCache') = Values(moduleCache) \cup added
  BY <1>2 DEF Values
<1>5. Shared' = Shared \cup added
  BY <1>4 DEF Shared, Values, Keys
<1> HIDE DEF added
<1>6. ASSUME NEW x \in Handle PROVE OnePlace(x)'
  <2>1. OnePlace(x)
    BY <1>1 DEF Ownership
  <2>2. CASE x \in added
    <3>1. refs'[x] = 1 /\ New(x)
      BY <1>2, <2>2 DEF added
    <3>2. pool[x] = 0
      BY <1>1, <2>1, <3>1 DEF OnePlace, New
    <3> QED
      BY <1>1, <1>3, <1>5, <2>2, <3>1, <3>2 DEF OnePlace, Unowned
  <2>3. CASE x \notin added
    <3>1. refs'[x] = refs[x]
      BY <1>2, <2>3 DEF added
    <3> QED
      BY <1>5, <2>1, <2>3, <3>1 DEF OnePlace
  <2> QED
    BY <2>2, <2>3
<1>7. OneKeyEach(moduleCache')
  <2>1. \A s \in M : \A t \in Keys(moduleCache) : new[s] # moduleCache.entries[t]
    BY <1>3 DEF added, Unowned, Shared, Values
  <2>2. OneKeyEach(moduleCache)
    BY <1>1 DEF Ownership
  <2> QED
    BY <1>2, <2>1, <2>2 DEF OneKeyEach
<1>8. OneKeyEach(lutCache')
  BY <1>1 DEF Ownership, OneKeyEach, Keys
<1>9. \A s \in M : new[s] \in added
  BY DEF added
<1> QED
  BY <1>4, <1>6, <1>7, <1>8, <1>9 DEF Ownership

\* Handles of S go from ticket j to nobody, or to their pools.
LEMMA GivesUpOwnership ==
    ASSUME Inv, Explicit, NEW j \in Job, NEW S \in SUBSET held[j],
           held' = [held EXCEPT ![j] = @ \ S],
           \/ /\ refs' = [h \in Handle |-> IF h \in S THEN 0 ELSE refs[h]]
              /\ UNCHANGED pool
           \/ /\ pool' = [h \in Handle |-> pool[h] + (IF h \in S THEN 1 ELSE 0)]
              /\ UNCHANGED refs,
           UNCHANGED <<leaked, lutCache, moduleCache>>
    PROVE  Ownership'
<1>1. /\ refs \in [Handle -> Nat] /\ pool \in [Handle -> Nat]
      /\ held \in [Job -> SUBSET Handle] /\ Ownership
  BY DEF Inv, Types, HandleTypes, ExplicitOwned
<1>2. Shared' = Shared
  BY DEF Shared, Values, Keys
<1>3. ASSUME NEW x \in Handle PROVE OnePlace(x)'
  <2>1. OnePlace(x)
    BY <1>1 DEF Ownership
  <2>2. CASE x \in S
    <3>1. /\ x \in held[j] /\ refs[x] = 1 /\ pool[x] = 0 /\ x \notin leaked \cup Shared
          /\ \A i \in Job : x \in held[i] => i = j
      BY <2>1, <2>2 DEF OnePlace
    <3>2. \A i \in Job : x \notin held'[i]
      BY <1>1, <2>2, <3>1
    <3>3. (refs'[x] = 0 /\ pool'[x] = 0) \/ (refs'[x] = 1 /\ pool'[x] = 1)
      BY <1>1, <2>2, <3>1
    <3> QED
      BY <1>2, <3>1, <3>2, <3>3 DEF OnePlace
  <2>3. CASE x \notin S
    <3>1. refs'[x] = refs[x] /\ pool'[x] = pool[x]
          /\ \A i \in Job : x \in held'[i] <=> x \in held[i]
      BY <1>1, <2>3
    <3> QED
      BY <1>2, <2>1, <3>1 DEF OnePlace
  <2> QED
    BY <2>2, <2>3
<1> QED
  BY <1>1, <1>3 DEF Ownership, OneKeyEach, Keys

LEMMA CachedOwnership ==
    ASSUME Inv, Explicit, NEW j \in Job, NEW h \in held[j], h \in Device,
           NEW k \in Key \ Keys(lutCache),
           held' = [held EXCEPT ![j] = @ \ {h}],
           lutCache' = InsertIfVacant(lutCache, k, h),
           UNCHANGED <<refs, pool, leaked, moduleCache>>
    PROVE  Ownership'
<1>1. /\ refs \in [Handle -> Nat] /\ pool \in [Handle -> Nat]
      /\ held \in [Job -> SUBSET Handle] /\ Ownership /\ IsCache(lutCache, Key, Device)
  BY DEF Inv, Types, HandleTypes, DataTypes, ExplicitOwned
<1>2. Extends(lutCache', lutCache, k, h)
  BY <1>1, InsertExtends
<1>3. h \in Handle /\ OnePlace(h)
  BY <1>1 DEF Ownership
<1>4. Shared' = Shared \cup {h}
  BY <1>2 DEF Extends, Shared, Values, Keys
<1>5. ASSUME NEW x \in Handle PROVE OnePlace(x)'
  <2>1. OnePlace(x)
    BY <1>1 DEF Ownership
  <2>2. CASE x = h
    <3>1. \A i \in Job : x \notin held'[i]
      BY <1>1, <1>3, <2>2 DEF OnePlace
    <3> QED
      BY <1>3, <1>4, <2>2, <3>1 DEF OnePlace
  <2>3. CASE x # h
    <3>1. \A i \in Job : x \in held'[i] <=> x \in held[i]
      BY <1>1, <2>3
    <3> QED
      BY <1>4, <2>1, <2>3, <3>1 DEF OnePlace
  <2> QED
    BY <2>2, <2>3
<1>6. OneKeyEach(lutCache')
  <2>1. \A l \in Keys(lutCache) : lutCache.entries[l] # h
    BY <1>3 DEF OnePlace, Shared, Values
  <2>2. OneKeyEach(lutCache)
    BY <1>1 DEF Ownership
  <2> QED
    BY <1>2, <2>1, <2>2 DEF OneKeyEach, Extends
<1> QED
  BY <1>1, <1>5, <1>6 DEF Ownership, OneKeyEach, Keys

LEMMA LeaksOwnership ==
    ASSUME Inv, Explicit, NEW j \in Job, NEW h \in held[j],
           held' = [held EXCEPT ![j] = @ \ {h}], leaked' = leaked \cup {h},
           UNCHANGED <<refs, pool, lutCache, moduleCache>>
    PROVE  Ownership'
<1>1. /\ refs \in [Handle -> Nat] /\ pool \in [Handle -> Nat]
      /\ held \in [Job -> SUBSET Handle] /\ Ownership
  BY DEF Inv, Types, HandleTypes, ExplicitOwned
<1>2. h \in Handle /\ OnePlace(h)
  BY <1>1 DEF Ownership
<1>3. Shared' = Shared
  BY DEF Shared, Values, Keys
<1>4. ASSUME NEW x \in Handle PROVE OnePlace(x)'
  <2>1. OnePlace(x)
    BY <1>1 DEF Ownership
  <2>2. CASE x = h
    <3>1. \A i \in Job : x \notin held'[i]
      BY <1>1, <1>2, <2>2 DEF OnePlace
    <3> QED
      BY <1>2, <1>3, <2>2, <3>1 DEF OnePlace
  <2>3. CASE x # h
    <3>1. \A i \in Job : x \in held'[i] <=> x \in held[i]
      BY <1>1, <2>3
    <3> QED
      BY <1>3, <2>1, <2>3, <3>1 DEF OnePlace
  <2> QED
    BY <2>2, <2>3
<1> QED
  BY <1>1, <1>4 DEF Ownership, OneKeyEach, Keys

LEMMA KernelOwnership ==
    ASSUME Inv, Explicit, PoolsKernel
    PROVE  Ownership'
<1>1. PICK k \in Kernel :
       /\ New(k)
       /\ refs' = [refs EXCEPT ![k] = 1] /\ pool' = [pool EXCEPT ![k] = 1]
  BY DEF PoolsKernel
<1>2. k \in Handle /\ Unowned(k)
  BY <1>1, AvailableUnowned DEF Available, Handle
<1>3. /\ refs \in [Handle -> Nat] /\ pool \in [Handle -> Nat]
      /\ held \in [Job -> SUBSET Handle] /\ Ownership
  BY DEF Inv, Types, HandleTypes, ExplicitOwned
<1>4. UNCHANGED <<held, leaked, lutCache, moduleCache>> /\ Shared' = Shared
  BY DEF PoolsKernel, dataVars, Shared, Values, Keys
<1>5. ASSUME NEW x \in Handle PROVE OnePlace(x)'
  <2>1. OnePlace(x)
    BY <1>3 DEF Ownership
  <2>2. CASE x = k
    BY <1>1, <1>2, <1>3, <1>4, <2>2 DEF OnePlace, Unowned
  <2>3. CASE x # k
    <3>1. refs'[x] = refs[x] /\ pool'[x] = pool[x]
      BY <1>1, <1>3, <2>3
    <3> QED
      BY <1>4, <2>1, <3>1 DEF OnePlace
  <2> QED
    BY <2>2, <2>3
<1> QED
  BY <1>3, <1>4, <1>5 DEF Ownership, OneKeyEach, Keys

\* What a clear empties is in one pool, or in one of the caches.
LEMMA ClearsOwnership ==
    ASSUME Inv, Explicit, Clears
    PROVE  Ownership'
<1> DEFINE p == Head(clearing)
<1>1. PICK S \in SUBSET InPool(p) : Drain(p, S)
  BY DEF Clears
<1>2. /\ refs \in [Handle -> Nat] /\ pool \in [Handle -> Nat]
      /\ held \in [Job -> SUBSET Handle] /\ Ownership
      /\ IsCache(lutCache, Key, Device) /\ IsCache(moduleCache, Source, Module)
      /\ clearing \in Seq(PoolNames) /\ clearing # << >>
  BY DEF Inv, Types, HandleTypes, DataTypes, CodeTypes, RestTypes, ExplicitOwned,
     Clears, Control
<1>3. p \in PoolNames
  BY <1>2, HeadTailProperties
<1>4. Values(lutCache) \subseteq Device /\ Values(moduleCache) \subseteq Module
  BY <1>2, CacheEntries
<1>5. /\ refs' = [h \in Handle |-> IF h \in InPool(p) \ S THEN 0 ELSE refs[h]]
      /\ leaked' = leaked \cup S
      /\ pool' = [h \in Handle |-> IF h \in InPool(p) THEN 0 ELSE pool[h]]
      /\ lutCache' = (IF p = "lut" THEN EmptyCache ELSE lutCache)
      /\ moduleCache' = (IF p = "module" THEN EmptyCache ELSE moduleCache)
      /\ UNCHANGED held
  BY <1>1 DEF Drain
<1>6. Values(EmptyCache) = {} /\ Keys(EmptyCache) = {}
  BY EmptyIsCache DEF Values
<1> HIDE DEF p
<1>7. CASE p \in {"transient", "queue", "kernel"}
  <2>1. \A h \in InPool(p) : h \in Handle /\ pool[h] > 0
    BY <1>7 DEF InPool, Pooled, Handle
  <2>2. Shared' = Shared
    BY <1>5, <1>7 DEF Shared, Values, Keys
  <2>3. ASSUME NEW x \in Handle PROVE OnePlace(x)'
    <3>1. OnePlace(x)
      BY <1>2 DEF Ownership
    <3>2. CASE x \in InPool(p)
      <4>1. refs[x] = 1 /\ x \notin Shared /\ \A i \in Job : x \notin held[i]
        BY <1>2, <2>1, <3>1, <3>2 DEF OnePlace
      <4>2. pool'[x] = 0 /\ IF x \in S THEN refs'[x] = 1 ELSE refs'[x] = 0
        BY <1>5, <3>2, <4>1
      <4>3. x \in leaked' <=> x \in S
        BY <1>2, <1>5, <2>1, <3>1, <3>2 DEF OnePlace
      <4> QED
        BY <1>5, <2>2, <4>1, <4>2, <4>3 DEF OnePlace
    <3>3. CASE x \notin InPool(p)
      <4>1. refs'[x] = refs[x] /\ pool'[x] = pool[x] /\ x \notin S
        BY <1>5, <3>3
      <4> QED
        BY <1>5, <2>2, <3>1, <4>1 DEF OnePlace
    <3> QED
      BY <3>2, <3>3
  <2> QED
    BY <1>2, <1>5, <1>7, <2>3 DEF Ownership, OneKeyEach, Keys
<1>8. CASE p \in {"lut", "module"}
  <2>1. \A h \in InPool(p) : h \in Handle /\ h \in Shared
    BY <1>4, <1>8 DEF InPool, Shared, Handle
  <2>2. Values(lutCache) \cap Values(moduleCache) = {}
    BY <1>4, NativeAssumption
  <2>3. Shared' = Shared \ InPool(p)
    <3>1. CASE p = "lut"
      BY <1>5, <1>6, <2>2, <3>1 DEF InPool, Shared, Values, Keys
    <3>2. CASE p = "module"
      BY <1>5, <1>6, <2>2, <3>2 DEF InPool, Shared, Values, Keys
    <3> QED
      BY <1>8, <3>1, <3>2
  <2>4. ASSUME NEW x \in Handle PROVE OnePlace(x)'
    <3>1. OnePlace(x)
      BY <1>2 DEF Ownership
    <3>2. CASE x \in InPool(p)
      <4>1. /\ refs[x] = 1 /\ pool[x] = 0 /\ x \notin leaked
            /\ \A i \in Job : x \notin held[i]
        BY <2>1, <3>1, <3>2 DEF OnePlace
      <4>2. pool'[x] = 0 /\ IF x \in S THEN refs'[x] = 1 ELSE refs'[x] = 0
        BY <1>5, <3>2, <4>1
      <4>3. x \in leaked' <=> x \in S
        BY <1>5, <4>1
      <4> QED
        BY <1>5, <2>3, <3>2, <4>1, <4>2, <4>3 DEF OnePlace
    <3>3. CASE x \notin InPool(p)
      <4>1. refs'[x] = refs[x] /\ pool'[x] = pool[x] /\ x \notin S
        BY <1>5, <3>3
      <4> QED
        BY <1>5, <2>3, <3>1, <3>3, <4>1 DEF OnePlace
    <3> QED
      BY <3>2, <3>3
  <2>5. OneKeyEach(lutCache') /\ OneKeyEach(moduleCache')
    BY <1>2, <1>5, <1>6 DEF Ownership, OneKeyEach
  <2> QED
    BY <2>4, <2>5 DEF Ownership, OneKeyEach, Keys
<1> QED
  BY <1>3, <1>7, <1>8 DEF PoolNames

LEMMA DropsOwnership ==
    ASSUME Inv, Explicit, DropContext
    PROVE  Ownership'
<1>1. /\ refs \in [Handle -> Nat] /\ pool \in [Handle -> Nat]
      /\ held \in [Job -> SUBSET Handle] /\ Ownership
  BY DEF Inv, Types, HandleTypes, ExplicitOwned
<1>2. /\ refs' = [h \in Handle |-> IF h \in Owned THEN 0 ELSE refs[h]]
      /\ pool' = [h \in Handle |-> 0] /\ UNCHANGED <<held, leaked>>
      /\ lutCache' = EmptyCache /\ moduleCache' = EmptyCache
  BY DEF DropContext, Destroy
<1>3. Values(EmptyCache) = {} /\ Keys(EmptyCache) = {}
  BY EmptyIsCache DEF Values
<1>4. Shared' = {}
  BY <1>2, <1>3 DEF Shared, Values, Keys
<1>5. ASSUME NEW x \in Handle PROVE OnePlace(x)'
  <2>1. OnePlace(x) /\ (x \in Owned <=> pool[x] > 0 \/ x \in Shared)
    BY <1>1 DEF Ownership, Owned, Pooled, Shared
  <2>2. x \in Owned => x \notin leaked /\ \A i \in Job : x \notin held[i]
    BY <1>1, <2>1 DEF OnePlace
  <2>3. pool'[x] = 0 /\ IF x \in Owned THEN refs'[x] = 0 ELSE refs'[x] = refs[x]
    BY <1>2
  <2>4. CASE x \in Owned
    BY <1>2, <1>4, <2>2, <2>3, <2>4 DEF OnePlace
  <2>5. CASE x \notin Owned
    BY <1>1, <1>2, <1>4, <2>1, <2>3, <2>5 DEF OnePlace
  <2> QED
    BY <2>4, <2>5
<1> QED
  BY <1>2, <1>3, <1>5 DEF Ownership, OneKeyEach, Keys

\* The own handles of the other tickets.
LEMMA OthersOwn ==
    ASSUME Inv, Explicit, NEW j \in Job, TicketMove(j), NEW i \in Job, i # j
    PROVE  TicketOwns(i)' /\ Backed(i)'
<1>1. Types /\ Control /\ TicketOwns(i) /\ Backed(i)
  BY DEF Inv, ExplicitOwned
<1>2. /\ phase'[i] = phase[i] /\ chain'[i] = chain[i] /\ stage'[i] = stage[i]
      /\ held'[i] = held[i] /\ memory'[i] = memory[i] /\ pending'[i] = pending[i]
      /\ resident'[i] = resident[i] /\ loaded'[i] = loaded[i]
  BY <1>1, MovesAlone DEF Others
<1>3. Plan(i)' = Plan(i)
  BY <1>2 DEF Plan, TheProgram
<1>4. phase[i] \in Loads => call = i
  BY <1>1 DEF Control, Flow, Loads
<1>5. i # None
  BY NativeAssumption
<1>6. phase[i] \in Loads => UNCHANGED <<lutCache, moduleCache>>
  BY <1>4, <1>5, TicketFlow DEF Turn
<1>7. TicketOwns(i)'
  BY <1>1, <1>2, <1>3 DEF TicketOwns, Transient
<1>8. Backed(i)'
  BY <1>1, <1>2, <1>6 DEF Backed, Values, Keys
<1> QED
  BY <1>7, <1>8

\* What the ticket keeps for its own when an allocation gets d.
LEMMA PlacedOwn ==
    ASSUME Inv, Explicit, NEW j \in Job, Allocating(j), NEW d \in Device, Place(j, d),
           UNCHANGED <<call, phase, chain, stage, loaded, lutCache, moduleCache>>,
           held[j] \subseteq held'[j], d \in held'[j] \cup Values(lutCache),
           (\A l \in DOMAIN memory[j] : memory[j][l] # d) \/ d \notin held[j],
           TheEntry(j) \notin Key \/ Index(j) \in pending'[j]
             => d \in held'[j] /\ \A l \in DOMAIN memory[j] : memory[j][l] # d,
           pending'[j] \subseteq pending[j] \cup {Index(j)},
           Index(j) \in pending'[j] => TheEntry(j) \in Key,
           resident'[j] # None => /\ resident'[j] = resident[j] /\ resident[j] # d
                                  /\ TheEntry(j) # "input"
    PROVE  TicketOwns(j)' /\ Backed(j)'
<1> DEFINE n == Len(memory[j]) + 1
<1>1. Types /\ Control /\ TicketOwns(j) /\ Backed(j) /\ Flow(j) /\ phase[j] = "alloc"
  BY DEF Inv, ExplicitOwned, Control, Allocating, At
<1>2. /\ DOMAIN memory'[j] = DOMAIN memory[j] \cup {n} /\ memory'[j][n] = d
      /\ \A i \in DOMAIN memory[j] : memory'[j][i] = memory[j][i]
      /\ ToSet(memory'[j]) = ToSet(memory[j]) \cup {d}
  BY <1>1, Placed
<1>3. n = Index(j) /\ n \notin DOMAIN memory[j] /\ TheEntry(j) = Plan(j)[n]
  BY <1>1, EntryTyped, TicketSequences
<1>4. Plan(j)' = Plan(j) /\ phase'[j] = "alloc"
  BY <1>1 DEF Plan, TheProgram
<1> HIDE DEF n
<1>5. \A i \in DOMAIN memory'[j] : memory'[j][i] \in Device
  BY <1>1, <1>2 DEF TicketOwns
<1>6. ASSUME NEW i \in DOMAIN memory'[j], Plan(j)[i] \notin Key \/ i \in pending'[j]
      PROVE  /\ memory'[j][i] \in held'[j]
             /\ \A l \in DOMAIN memory'[j] : memory'[j][l] = memory'[j][i] => l = i
  <2>1. CASE i = n
    BY <1>2, <1>3, <1>6, <2>1
  <2>2. CASE i # n
    <3>1. i \in DOMAIN memory[j] /\ (Plan(j)[i] \notin Key \/ i \in pending[j])
      BY <1>2, <1>3, <1>6, <2>2
    <3>2. /\ memory[j][i] \in held[j]
          /\ \A l \in DOMAIN memory[j] : memory[j][l] = memory[j][i] => l = i
      BY <1>1, <3>1 DEF TicketOwns, Transient, Working
    <3>3. memory[j][i] # d
      BY <3>1, <3>2
    <3> QED
      BY <1>2, <3>1, <3>2, <3>3
  <2> QED
    BY <2>1, <2>2
<1>7. \A i \in pending'[j] : i \in DOMAIN memory'[j] /\ Plan(j)[i] \in Key
  BY <1>1, <1>2, <1>3 DEF TicketOwns
<1>8. resident'[j] # None => /\ resident'[j] \in held'[j]
                             /\ \A i \in DOMAIN memory'[j] : /\ memory'[j][i] # resident'[j]
                                                             /\ Plan(j)[i] # "input"
  BY <1>1, <1>2, <1>3 DEF TicketOwns
<1>9. TicketOwns(j)'
  BY <1>4, <1>5, <1>6, <1>7, <1>8 DEF TicketOwns, Transient
<1>10. Backed(j)'
  BY <1>1, <1>2, <1>4 DEF Backed, Loads, Values, Keys
<1> QED
  BY <1>9, <1>10

LEMMA TicketOwnership ==
    ASSUME Inv, Explicit, NEW j \in Job, TicketMove(j)
    PROVE  Ownership' /\ TicketOwns(j)' /\ Backed(j)'
<1>1. /\ Types /\ Control /\ TicketOwns(j) /\ Backed(j) /\ Flow(j) /\ j # None
      /\ Ownership
  BY NativeAssumption DEF Inv, ExplicitOwned, Control
<1>2. ASSUME NEW c \in Chains[j], Submit(j, c, "queue")
      PROVE  Ownership' /\ TicketOwns(j)' /\ Backed(j)'
  <2>1. /\ UNCHANGED <<handleVars, lutCache, moduleCache>>
        /\ UNCHANGED <<held, memory, pending, resident>>
        /\ phase[j] = "idle" /\ phase'[j] = "queue"
    BY <1>1, <1>2 DEF Submit, Goto, handleVars, dataVars, codeVars, Types, CallTypes
  <2>2. memory[j] = << >> /\ pending[j] = {} /\ held[j] = {} /\ resident[j] = None
    BY <1>1, <2>1 DEF TicketOwns, Flow
  <2> QED
    BY <1>1, <2>1, <2>2, OwnershipStays DEF TicketOwns, Backed, Loads, Working,
       Allocated, Transient
<1>3. CASE TakesQueue(j)
  <2>1. PICK q \in Queue : Obtains(j, q)
    BY <1>3 DEF TakesQueue
  <2>2. /\ phase[j] = "queue" /\ phase'[j] = "alloc" /\ UNCHANGED <<chain, stage>>
        /\ UNCHANGED <<memory, pending, resident, lutCache, moduleCache, loaded>>
    BY <1>1, <1>3 DEF TakesQueue, At, Continue, Goto, dataVars, Types, CallTypes
  <2>3. held[j] \subseteq held'[j]
    BY <1>1, <2>1 DEF Obtains, Types, HandleTypes
  <2>4. memory[j] = << >> /\ loaded[j] = << >> /\ pending[j] = {}
    BY <1>1, <2>2 DEF Flow
  <2>5. ToSet(memory'[j]) = {} /\ ToSet(loaded'[j]) = {} /\ DOMAIN memory'[j] = {}
    BY <2>2, <2>4 DEF ToSet
  <2>6. Ownership'
    BY <2>1, <2>2, ObtainsOwnership
  <2> QED
    BY <1>1, <2>2, <2>3, <2>4, <2>5, <2>6 DEF TicketOwns, Backed, Working, Transient
<1>4. CASE cached_table(j)
  <2> DEFINE d == lutCache.entries[TheEntry(j)]
  <2>1. /\ Allocating(j) /\ TheEntry(j) \in Keys(lutCache) /\ Place(j, d)
        /\ UNCHANGED <<call, phase, chain, stage, handleVars, pending, resident,
                       loaded, lutCache, moduleCache>>
        /\ UNCHANGED held
    BY <1>4 DEF cached_table, codeVars, handleVars
  <2>2. d \in Device /\ d \in Values(lutCache) /\ TheEntry(j) \in Key
    BY <1>1, <2>1, CacheEntries DEF Types, DataTypes
  <2>3. d \in Handle /\ d \notin held[j]
    BY <1>1, <2>2 DEF Ownership, OnePlace, Shared, Handle
  <2>4. Index(j) \notin pending'[j]
    BY <1>1, <2>1, EntryTyped, TicketSequences DEF Flow
  <2>5. resident'[j] # None => resident[j] # d /\ TheEntry(j) # "input"
    BY <1>1, <2>1, <2>2, <2>3, NativeAssumption DEF TicketOwns
  <2> HIDE DEF d
  <2>6. Ownership'
    BY <1>1, <2>1, OwnershipStays
  <2> QED
    BY <2>1, <2>2, <2>3, <2>4, <2>5, <2>6, PlacedOwn
<1>5. CASE Uploads(j) \/ TakesTransient(j)
  <2>1. PICK d \in Device :
             /\ Obtains(j, d) /\ Place(j, d)
             /\ Uploads(j) \/ TakesTransient(j)
    BY <1>5 DEF Uploads, TakesTransient
  <2>2. /\ Allocating(j) /\ phase[j] = "alloc"
        /\ UNCHANGED <<call, phase, chain, stage, resident, loaded, lutCache, moduleCache>>
    BY <1>5 DEF Uploads, TakesTransient, Allocating, At
  <2>3. d \in Handle /\ Unowned(d)
    BY <2>1, AvailableUnowned DEF Obtains
  <2>4. held'[j] = held[j] \cup {d}
    BY <1>1, <2>1 DEF Obtains, Types, HandleTypes
  <2>5. \A l \in DOMAIN memory[j] : memory[j][l] # d
    <3>1. ToSet(memory[j]) \subseteq held[j] \cup Shared
      BY <1>1, <2>2 DEF Backed, Loads, Shared
    <3> QED
      BY <2>3, <3>1 DEF Unowned, ToSet
  <2>6. \/ TheEntry(j) \in Key /\ pending'[j] = pending[j] \cup {Index(j)}
        \/ TheEntry(j) \notin Key /\ pending'[j] = pending[j]
    BY <1>1, <1>5 DEF Uploads, TakesTransient, Types, DataTypes
  <2>7. Index(j) \notin pending[j]
    BY <1>1, <2>2, EntryTyped, TicketSequences DEF Flow
  <2>8. resident'[j] # None => /\ resident'[j] = resident[j] /\ resident[j] # d
                               /\ TheEntry(j) # "input"
    <3>1. resident[j] # None => resident[j] # d
      BY <1>1, <2>3 DEF TicketOwns, Unowned
    <3>2. resident[j] # None => TheEntry(j) # "input"
      BY <1>5, NativeAssumption DEF Uploads, TakesTransient
    <3> QED
      BY <2>2, <3>1, <3>2
  <2>9. Ownership'
    BY <2>1, <2>2, ObtainsOwnership
  <2> QED
    BY <2>1, <2>2, <2>3, <2>4, <2>5, <2>6, <2>7, <2>8, <2>9, PlacedOwn
<1>6. CASE take_resident(j)
  <2>1. /\ Allocating(j) /\ phase[j] = "alloc" /\ Place(j, resident[j])
        /\ TheEntry(j) = "input" /\ resident[j] # None /\ resident'[j] = None
        /\ UNCHANGED <<call, phase, chain, stage, handleVars, pending,
                       loaded, lutCache, moduleCache>>
        /\ UNCHANGED held
    BY <1>1, <1>6 DEF take_resident, codeVars, handleVars, Allocating, At, Types, DataTypes
  <2>2. resident[j] \in Device /\ resident[j] \in held[j]
    BY <1>1, <2>1 DEF TicketOwns, Types, DataTypes
  <2>3. \A l \in DOMAIN memory[j] : memory[j][l] # resident[j]
    BY <1>1, <2>1 DEF TicketOwns
  <2>4. Index(j) \notin pending'[j]
    BY <1>1, <2>1, EntryTyped, TicketSequences DEF Flow
  <2>5. Ownership'
    BY <1>1, <2>1, OwnershipStays
  <2> QED
    BY <2>1, <2>2, <2>3, <2>4, <2>5, PlacedOwn
<1>7. CASE MovesOn(j)
  <2>1. PICK q \in Phases, n \in Nat :
         /\ Passage(j, q, n) /\ phase' = [phase EXCEPT ![j] = q]
         /\ UNCHANGED <<chain, stage, handleVars, dataVars, loaded, made, moduleCache>>
    BY <1>7 DEF MovesOn
  <2>2. /\ phase'[j] = q
        /\ UNCHANGED <<chain, stage, held, memory, pending, resident, loaded,
                       handleVars, lutCache, moduleCache>>
    BY <1>1, <2>1 DEF Types, CallTypes, dataVars, handleVars
  <2>3. Plan(j)' = Plan(j)
    BY <2>2 DEF Plan, TheProgram
  <2>4. phase[j] = "alloc" /\ q = "module" => resident[j] = None
    <3>1. SUFFICES ASSUME phase[j] = "alloc", q = "module" PROVE resident[j] = None
      OBVIOUS
    <3>2. count[j] = Len(Plan(j)) /\ count[j] = Len(memory[j])
      BY <1>1, <2>1, <3>1 DEF Passage, Flow, SubmitPhases
    <3>3. DOMAIN memory[j] = DOMAIN Plan(j) /\ \E i \in DOMAIN Plan(j) : Plan(j)[i] = "input"
      BY <1>1, <3>1, <3>2, CurrentProgram, TicketSequences
    <3> QED
      BY <1>1, <3>1, <3>3 DEF TicketOwns
  <2>5. /\ q \in Working => phase[j] \in Working
        /\ q \in Loads => phase[j] \in Loads
        /\ q \notin {"idle", "queue", "alloc"}
        /\ resident[j] # None => q \in {"unwind", "free"}
    <3>1. resident[j] # None => phase[j] \in {"queue", "alloc", "unwind", "free"}
      BY <1>1 DEF TicketOwns
    <3> QED
      BY <2>1, <2>4, <3>1 DEF Passage, Working, Allocated, Loads, SubmitPhases
  <2>6. Ownership'
    BY <1>1, <2>2, OwnershipStays
  <2>7. TicketOwns(j)'
    BY <1>1, <2>2, <2>3, <2>5 DEF TicketOwns, Transient
  <2>8. Backed(j)'
    BY <1>1, <2>2, <2>5 DEF Backed, Values, Keys
  <2> QED
    BY <2>6, <2>7, <2>8
<1>8. CASE LoadsShared(j) \/ LoadsCached(j) \/ LoadsOwn(j)
  <2>1. PICK h \in Module \cup Kernel :
             /\ LoadsPass(j, h) /\ Ownership' /\ held[j] \subseteq held'[j]
             /\ Values(moduleCache) \subseteq Values(moduleCache')
             /\ h \in held'[j] \cup Values(moduleCache')
    <3>1. CASE LoadsShared(j)
      <4>1. PICK s \in Keys(moduleCache) :
              /\ LoadsPass(j, moduleCache.entries[s])
              /\ UNCHANGED <<handleVars, dataVars, moduleCache>>
        BY <3>1 DEF LoadsShared
      <4>2. UNCHANGED <<handleVars, lutCache, moduleCache>> /\ UNCHANGED held
        BY <4>1 DEF dataVars, handleVars
      <4>3. moduleCache.entries[s] \in Values(moduleCache)
        BY DEF Values
      <4> QED
        BY <1>1, <4>1, <4>2, <4>3, OwnershipStays DEF LoadsPass
    <3>2. CASE LoadsCached(j)
      <4>1. PICK new \in [{NextSource(j)} -> Module] :
               /\ Caches({NextSource(j)}, new) /\ LoadsPass(j, new[NextSource(j)])
               /\ UNCHANGED <<pool, held, leaked, dataVars>>
        BY <3>2 DEF LoadsCached
      <4>2. UNCHANGED <<pool, held, leaked, lutCache>>
        BY <4>1 DEF dataVars
      <4> QED
        BY <4>1, <4>2, CachesOwnership DEF LoadsPass
    <3>3. CASE LoadsOwn(j)
      <4>1. PICK h \in Module \cup Kernel :
               /\ Obtains(j, h) /\ LoadsPass(j, h) /\ UNCHANGED <<dataVars, moduleCache>>
        BY <3>3 DEF LoadsOwn
      <4>2. UNCHANGED <<lutCache, moduleCache>> /\ held'[j] = held[j] \cup {h}
        BY <1>1, <4>1 DEF dataVars, Obtains, Types, HandleTypes
      <4> QED
        BY <4>1, <4>2, ObtainsOwnership
    <3> QED
      BY <1>8, <3>1, <3>2, <3>3
  <2>2. UNCHANGED <<memory, pending, resident, lutCache>>
    BY <1>8 DEF LoadsShared, LoadsCached, LoadsOwn, dataVars
  <2>3. /\ phase[j] \in {"module", "compiled"} /\ phase'[j] = "module"
        /\ ToSet(loaded'[j]) = ToSet(loaded[j]) \cup {h}
        /\ UNCHANGED <<chain, stage>>
    BY <1>1, <2>1, PassLoaded DEF LoadsPass, Loaded, Continue
  <2>4. Plan(j)' = Plan(j)
    BY <2>3 DEF Plan, TheProgram
  <2>5. resident[j] = None
    BY <1>1, <2>3 DEF TicketOwns
  <2>6. TicketOwns(j)'
    BY <1>1, <2>1, <2>2, <2>3, <2>4, <2>5 DEF TicketOwns, Transient, Working, Allocated
  <2>7. Backed(j)'
    BY <1>1, <2>1, <2>2, <2>3 DEF Backed, Loads, Values, Keys
  <2> QED
    BY <2>1, <2>6, <2>7
<1>9. CASE launch(j) \/ DeviceEnds(j)
  <2>1. /\ UNCHANGED <<phase, chain, stage, held, memory, pending, resident, loaded>>
        /\ UNCHANGED <<handleVars, lutCache, moduleCache>>
    BY <1>9 DEF launch, DeviceEnds, flowVars, dataVars, codeVars, handleVars
  <2>2. Plan(j)' = Plan(j)
    BY <2>1 DEF Plan, TheProgram
  <2> QED
    BY <1>1, <2>1, <2>2, OwnershipStays DEF TicketOwns, Backed, Transient, Values, Keys
<1>10. ASSUME NEW i \in pending[j], insert_lut(j, i) \/ FreeDuplicateFails(j, i)
       PROVE  Ownership' /\ TicketOwns(j)' /\ Backed(j)'
  <2> DEFINE h == memory[j][i]
  <2>1. /\ i \in DOMAIN memory[j] /\ Plan(j)[i] \in Key /\ h \in held[j]
        /\ \A l \in DOMAIN memory[j] : memory[j][l] = h => l = i
        /\ h \in Device
    BY <1>1, <1>10 DEF TicketOwns
  <2>2. /\ phase[j] = "tables" /\ phase'[j] \in {"tables", "drop"}
        /\ held' = [held EXCEPT ![j] = @ \ {h}] /\ pending'[j] \subseteq pending[j] \ {i}
        /\ UNCHANGED <<chain, stage, memory, resident, loaded, moduleCache, pool>>
    BY <1>1, <1>10 DEF insert_lut, FreeDuplicateFails, At, flowVars, codeVars,
       Continue, Goto, Types, CallTypes, DataTypes
  <2>3. held'[j] = held[j] \ {h} /\ Plan(j)' = Plan(j)
    BY <1>1, <2>2 DEF Plan, TheProgram, Types, HandleTypes
  <2>4. \A l \in DOMAIN memory[j] : l # i => memory[j][l] # h
    BY <2>1
  <2> HIDE DEF h
  <2>5. TicketOwns(j)'
    BY <1>1, <2>1, <2>2, <2>3, <2>4 DEF TicketOwns, Transient, Working, Allocated
  <2>6. Backed(j)'
    BY <2>2 DEF Backed, Loads
  <2>7. CASE insert_lut(j, i)
    <3>1. CASE Plan(j)[i] \in Keys(lutCache)
      <4>1. /\ refs' = [x \in Handle |-> IF x \in {h} THEN 0 ELSE refs[x]]
            /\ UNCHANGED <<pool, leaked, lutCache, moduleCache>>
        BY <2>7, <3>1 DEF insert_lut, Destroy, h
      <4>2. {h} \in SUBSET held[j]
        BY <2>1
      <4>3. Ownership'
        BY <2>2, <4>1, <4>2, GivesUpOwnership
      <4> QED
        BY <2>5, <2>6, <4>3
    <3>2. CASE Plan(j)[i] \notin Keys(lutCache)
      <4>1. /\ lutCache' = InsertIfVacant(lutCache, Plan(j)[i], h)
            /\ UNCHANGED <<refs, pool, leaked, moduleCache>>
        BY <2>7, <3>2 DEF insert_lut, h
      <4>2. Ownership'
        BY <2>1, <2>2, <3>2, <4>1, CachedOwnership
      <4> QED
        BY <2>5, <2>6, <4>2
    <3> QED
      BY <3>1, <3>2
  <2>8. CASE FreeDuplicateFails(j, i)
    <3>1. leaked' = leaked \cup {h} /\ UNCHANGED <<refs, pool, lutCache, moduleCache>>
      BY <2>8 DEF FreeDuplicateFails, codeVars, h
    <3>2. Ownership'
      BY <2>1, <2>2, <3>1, LeaksOwnership
    <3> QED
      BY <2>5, <2>6, <3>2
  <2> QED
    BY <1>10, <2>7, <2>8
<1>11. CASE Recycles(j)
  <2> DEFINE kept == IF LastStage(j) THEN {} ELSE {Output(j)}
  <2>1. PICK others \in SUBSET (held[j] \cap Kernel) : recycle(j, others)
    BY <1>11 DEF Recycles
  <2> DEFINE back == (Transients(j) \ kept) \cup (held[j] \cap Queue) \cup others
  <2>2. /\ phase[j] = "tables" /\ pending[j] = {} /\ phase'[j] = "free"
        /\ held' = [held EXCEPT ![j] = @ \ back]
        /\ pool' = [h \in Handle |-> pool[h] + (IF h \in back THEN 1 ELSE 0)]
        /\ resident'[j] = (IF LastStage(j) THEN None ELSE Output(j))
        /\ UNCHANGED <<refs, leaked, memory, pending, lutCache, moduleCache>>
    BY <1>1, <2>1 DEF recycle, At, Continue, Goto, codeVars, Types, CallTypes, DataTypes
  <2>3. Output(j) \in Device /\ Output(j) \in held[j]
    BY <2>2, OutputPlaced DEF Allocated
  <2>4. Transients(j) \subseteq held[j]
    BY <1>1, <2>2 DEF TicketOwns, Transients, Tables, Transient, Working, Allocated
  <2>5. back \in SUBSET held[j]
    BY <2>4
  <2>6. resident'[j] # None => resident'[j] \notin back
    <3>1. Output(j) \notin Queue \cup Kernel
      BY <2>3, NativeAssumption
    <3> QED
      BY <2>2, <3>1
  <2> HIDE DEF back, kept
  <2>7. held'[j] = held[j] \ back
    BY <1>1, <2>2 DEF Types, HandleTypes
  <2>8. Ownership'
    BY <2>2, <2>5, GivesUpOwnership
  <2>9. TicketOwns(j)'
    BY <1>1, <2>2, <2>3, <2>6, <2>7 DEF TicketOwns, Working, Allocated
  <2> QED
    BY <2>2, <2>8, <2>9 DEF Backed, Loads
<1>12. CASE Ends(j)
  <2>1. \E S \in SUBSET held[j] :
           /\ held' = [held EXCEPT ![j] = @ \ S]
           /\ refs' = [h \in Handle |-> IF h \in S THEN 0 ELSE refs[h]]
           /\ UNCHANGED <<pool, leaked, lutCache, moduleCache>>
    <3>1. CASE DropEnds(j)
      <4>1. /\ held' = [held EXCEPT ![j] = @ \cap {resident[j]}]
            /\ refs' = [h \in Handle |-> IF h \in held[j] \ {resident[j]} THEN 0 ELSE refs[h]]
            /\ UNCHANGED <<pool, leaked, lutCache, moduleCache>>
        BY <3>1 DEF DropEnds, Destroy
      <4>2. held[j] \cap {resident[j]} = held[j] \ (held[j] \ {resident[j]})
        OBVIOUS
      <4> QED
        BY <4>1, <4>2
    <3>2. CASE Unwinds(j)
      <4>1. /\ held' = [held EXCEPT ![j] = {}]
            /\ refs' = [h \in Handle |-> IF h \in held[j] THEN 0 ELSE refs[h]]
            /\ UNCHANGED <<pool, leaked, lutCache, moduleCache>>
        BY <3>2 DEF Unwinds, Destroy
      <4>2. {} = held[j] \ held[j]
        OBVIOUS
      <4> QED
        BY <4>1, <4>2
    <3> QED
      BY <1>12, <3>1, <3>2 DEF Ends
  <2>2. Ownership'
    BY <2>1, GivesUpOwnership
  <2>3. /\ memory'[j] = << >> /\ pending'[j] = {}
        /\ \/ /\ phase'[j] = "queue" /\ resident'[j] = resident[j] /\ resident[j] # None
              /\ held'[j] = held[j] \cap {resident[j]}
           \/ phase'[j] = "idle" /\ held'[j] = {} /\ resident'[j] = None
    <3>1. CASE DropEnds(j)
      <4>1. /\ memory'[j] = << >> /\ pending'[j] = {} /\ resident'[j] = resident[j]
            /\ held'[j] = held[j] \cap {resident[j]}
            /\ phase'[j] = IF resident[j] # None THEN "queue" ELSE "idle"
        BY <1>1, <3>1 DEF DropEnds, Forgets, Returns, Goto, Types, CallTypes, DataTypes,
           HandleTypes
      <4>2. None \notin held[j]
        BY <1>1, NativeAssumption DEF Types, HandleTypes
      <4> QED
        BY <4>1, <4>2
    <3>2. CASE Unwinds(j)
      BY <1>1, <3>2 DEF Unwinds, Forgets, Returns, Goto, Types, CallTypes, DataTypes,
         HandleTypes
    <3> QED
      BY <1>12, <3>1, <3>2 DEF Ends
  <2>4. resident[j] # None => resident[j] \in held[j]
    BY <1>1 DEF TicketOwns
  <2>5. TicketOwns(j)'
    BY <2>3, <2>4 DEF TicketOwns, Working, Allocated
  <2>6. Backed(j)'
    BY <2>3 DEF Backed, Loads
  <2> QED
    BY <2>2, <2>5, <2>6
<1>13. CASE Unloads(j)
  <2> DEFINE own == held[j] \cap Module
  <2>1. /\ phase[j] = "unwind" /\ own \in SUBSET held[j]
        /\ refs' = [h \in Handle |-> IF h \in own THEN 0 ELSE refs[h]]
        /\ held' = [held EXCEPT ![j] = @ \ own]
        /\ UNCHANGED <<phase, chain, stage, pool, leaked, memory, pending, resident,
                       lutCache, moduleCache>>
    BY <1>13 DEF Unloads, hip_unload, At, Destroy, flowVars
  <2>2. \A h \in Device : h \in held[j] <=> h \in held'[j]
    BY <1>1, <2>1, NativeAssumption DEF Types, HandleTypes
  <2> HIDE DEF own
  <2>3. Ownership'
    BY <2>1, GivesUpOwnership
  <2>4. Plan(j)' = Plan(j)
    BY <2>1 DEF Plan, TheProgram
  <2>5. TicketOwns(j)'
    BY <1>1, <2>1, <2>2, <2>4 DEF TicketOwns, Transient, Working, Types, DataTypes
  <2>6. Backed(j)'
    BY <2>1 DEF Backed, Loads
  <2> QED
    BY <2>3, <2>5, <2>6
<1> QED
  BY <1>2, <1>3, <1>4, <1>5, <1>6, <1>7, <1>8, <1>9, <1>10, <1>11, <1>12, <1>13 DEF TicketMove

LEMMA ExplicitOwnership ==
    ASSUME Inv, Explicit, ExplicitMove
    PROVE  ExplicitOwned'
<1>1. Types /\ Control /\ Ownership
  BY DEF Inv, ExplicitOwned
<1>2. ASSUME NEW j \in Job, TicketMove(j) PROVE ExplicitOwned'
  <2>1. Ownership' /\ TicketOwns(j)' /\ Backed(j)'
    BY <1>2, TicketOwnership
  <2>2. \A i \in Job : i # j => TicketOwns(i)' /\ Backed(i)'
    BY <1>2, OthersOwn
  <2> QED
    BY <2>1, <2>2 DEF ExplicitOwned
<1> DEFINE Keeps == UNCHANGED <<phase, chain, stage, held, memory, pending, resident, loaded>>
<1>3. ASSUME Keeps, Ownership',
             \/ \A j \in Job : phase[j] \notin Loads
             \/ UNCHANGED lutCache /\ Values(moduleCache) \subseteq Values(moduleCache')
      PROVE  ExplicitOwned'
  <2>1. ASSUME NEW j \in Job PROVE TicketOwns(j)' /\ Backed(j)'
    <3>1. TicketOwns(j) /\ Backed(j)
      BY DEF Inv, ExplicitOwned
    <3>2. Plan(j)' = Plan(j)
      BY <1>3 DEF Plan, TheProgram
    <3>3. TicketOwns(j)'
      BY <1>3, <3>1, <3>2 DEF TicketOwns, Transient
    <3>4. Backed(j)'
      BY <1>3, <3>1 DEF Backed, Values, Keys
    <3> QED
      BY <3>3, <3>4
  <2> QED
    BY <1>3, <2>1 DEF ExplicitOwned
<1>4. call \notin Job => \A j \in Job : phase[j] \notin Loads
  BY <1>1 DEF Control, Flow, Loads
<1>5. None \notin Job /\ Maint \notin Job
  BY NativeAssumption
<1>6. CASE Builds
  <2>1. PICK M \in SUBSET Source : \E new \in [M -> Module] : Caches(M, new)
    BY <1>6 DEF Builds
  <2>2. PICK new \in [M -> Module] : Caches(M, new)
    BY <2>1
  <2>3. Keeps /\ UNCHANGED <<pool, held, leaked, lutCache>>
    BY <1>6 DEF Builds, flowVars, dataVars
  <2>4. Ownership' /\ Values(moduleCache) \subseteq Values(moduleCache')
    BY <2>2, <2>3, CachesOwnership
  <2> QED
    BY <1>3, <2>3, <2>4
<1>7. CASE PoolsKernel
  <2>1. Keeps /\ UNCHANGED <<lutCache, moduleCache>>
    BY <1>7 DEF PoolsKernel, flowVars, dataVars
  <2> QED
    BY <1>3, <1>7, <2>1, KernelOwnership DEF Values, Keys
<1>8. CASE KeepsStill \/ BeginsClear
  <2>1. Keeps /\ UNCHANGED <<handleVars, lutCache, moduleCache>>
    BY <1>8 DEF KeepsStill, BeginsClear, BeginClear, flowVars, dataVars, codeVars, handleVars
  <2> QED
    BY <1>1, <1>3, <2>1, OwnershipStays DEF Values, Keys
<1>9. CASE Clears
  <2>1. Keeps /\ call = Maint
    BY <1>9 DEF Clears, Drain
  <2> QED
    BY <1>3, <1>4, <1>5, <1>9, <2>1, ClearsOwnership
<1>10. CASE DropsContext
  <2>1. Keeps /\ call = None /\ DropContext
    BY <1>10 DEF DropsContext, DropContext, flowVars
  <2> QED
    BY <1>3, <1>4, <1>5, <2>1, DropsOwnership
<1> QED
  BY <1>2, <1>6, <1>7, <1>8, <1>9, <1>10 DEF ExplicitMove

-----------------------------------------------------------------------------
(* The code that is compiled or restored, and the faults.                  *)

\* What a step may do to the cache of code.
CodeMove ==
    \/ UNCHANGED codeCache
    \/ codeCache' = EmptyCache
    \/ \E s \in Source, code \in {"compiled", "restored"} :
          \/ codeCache' = InsertIfVacant(codeCache, s, code)
          \/ /\ s \notin Keys(codeCache)
             /\ codeCache' = InsertCode(codeCache, s, code)

LEMMA CodeMoveTyped ==
    ASSUME Types, CodeMove
    PROVE  IsCache(codeCache', Source, {"compiled", "restored"})
<1>1. IsCache(codeCache, Source, {"compiled", "restored"})
  BY DEF Types, FreeTypes
<1>2. ASSUME NEW s \in Source, NEW code \in {"compiled", "restored"},
             codeCache' = InsertIfVacant(codeCache, s, code)
      PROVE  IsCache(codeCache', Source, {"compiled", "restored"})
  <2>1. CASE s \in Keys(codeCache)
    BY <1>1, <1>2, <2>1 DEF InsertIfVacant
  <2>2. CASE s \notin Keys(codeCache)
    BY <1>1, <1>2, <2>2, InsertExtends
  <2> QED
    BY <2>1, <2>2
<1>3. ASSUME NEW s \in Source, NEW code \in {"compiled", "restored"},
             s \notin Keys(codeCache), codeCache' = InsertCode(codeCache, s, code)
      PROVE  IsCache(codeCache', Source, {"compiled", "restored"})
  BY <1>1, <1>3, FifoReplaces DEF InsertCode
<1>4. UNCHANGED codeCache => IsCache(codeCache', Source, {"compiled", "restored"})
  BY <1>1
<1>5. codeCache' = EmptyCache => IsCache(codeCache', Source, {"compiled", "restored"})
  BY EmptyIsCache
<1> QED
  BY <1>2, <1>3, <1>4, <1>5 DEF CodeMove

LEMMA CodeMoves ==
    ASSUME Types, Control, Next
    PROVE  CodeMove
<1>1. CASE Failure
  <2>1. CASE \E j \in Job : SubmitFails(j)
    BY <2>1 DEF SubmitFails, codeVars, CodeMove
  <2>2. ASSUME NEW j \in Job, CudaLoadFails(j) PROVE CodeMove
    BY <2>2, NextSourceTyped DEF CudaLoadFails, Loading, At, CodeMove
  <2>3. CASE \E j \in Job : MetalCommandFails(j)
    BY <2>3 DEF MetalCommandFails, codeVars, CodeMove
  <2>4. CASE ClearPoolFails
    BY <2>4 DEF ClearPoolFails, CodeMove
  <2>5. CASE \E j \in Job : FinishFails(j) \/ DropWaitFails(j)
    BY <2>5 DEF FinishFails, DropWaitFails, DropGoesOn, codeVars, CodeMove
  <2>6. CASE \E j \in Job : \E i \in pending[j] : FreeDuplicateFails(j, i)
    BY <2>6 DEF FreeDuplicateFails, codeVars, CodeMove
  <2> QED
    BY <1>1, <2>1, <2>2, <2>3, <2>4, <2>5, <2>6 DEF Failure
<1>2. ASSUME NEW j \in Job, CommonStep(j) \/ DeviceEnds(j) PROVE CodeMove
  <2>1. CASE cached_table(j) \/ take_resident(j) \/ take_transient(j) \/ allocated(j)
             \/ all_loaded(j) \/ launch(j) \/ Wait(j) \/ DropTicket(j)
    BY <2>1 DEF cached_table, take_resident, take_transient, allocated, all_loaded,
       launch, Wait, DropTicket, codeVars, CodeMove
  <2>2. CASE synchronize(j) \/ read_output(j) \/ DropWaits(j) \/ DeviceEnds(j)
    BY <2>2 DEF synchronize, read_output, DropWaits, DropGoesOn, DeviceEnds, codeVars,
       CodeMove
  <2>3. CASE \E i \in pending[j] : insert_lut(j, i)
    BY <2>3 DEF insert_lut, CodeMove
  <2> QED
    BY <1>2, <2>1, <2>2, <2>3 DEF CommonStep
<1>3. ASSUME NEW j \in Job, NEW c, NEW p, Submit(j, c, p) PROVE CodeMove
  BY <1>3 DEF Submit, codeVars, CodeMove
<1>4. ASSUME NEW j \in Job, NEW S, \/ take_queue(j) \/ upload_table(j, S)
                                   \/ all_launched(j) \/ recycle(j, S)
                                   \/ DropEnds(j) \/ Unwinds(j) \/ hip_unload(j)
      PROVE  CodeMove
  BY <1>4 DEF take_queue, upload_table, all_launched, Submitted, recycle, DropEnds, Unwinds, hip_unload,
     codeVars, CodeMove
<1>5. CASE ClearPool \/ DropContext \/ \E order : BeginClear(order)
  BY <1>5 DEF ClearPool, DropContext, BeginClear, codeVars, CodeMove
<1>6. \A e \in Archive : e[1] \in Source /\ e[2] \in {"compiled", "restored"}
  BY NativeAssumption
<1>7. CASE HipStep
  <2>1. ASSUME NEW j \in Job, HipTicketStep(j) PROVE CodeMove
    <3>1. CASE hip_cached_module(j)
      BY <3>1 DEF hip_cached_module, CodeMove
    <3>2. CASE compile_shader_source(j)
      BY <3>2, NextSourceTyped DEF compile_shader_source, Loading, At, CodeMove
    <3>3. CASE load_module_function(j)
      BY <3>3 DEF load_module_function, CodeMove
    <3> QED
      BY <1>2, <1>3, <1>4, <2>1, <3>1, <3>2, <3>3 DEF HipTicketStep, HipSubmit,
         hip_take_stream, hip_allocate, CommonStep, hip_launch, hip_DropEnds, hip_Unwinds
  <2>2. ASSUME NEW s \in Source, HipReport(s) PROVE CodeMove
    BY <2>2 DEF HipReport, CodeMove
  <2>3. ASSUME NEW e \in Archive, restore_hiprtc_code_archive(e[1], e[2]) PROVE CodeMove
    BY <1>6, <2>3 DEF restore_hiprtc_code_archive, CodeMove
  <2> QED
    BY <1>2, <1>5, <1>7, <2>1, <2>2, <2>3 DEF HipStep, HipTicketStep, CommonStep, HipClear
<1>8. CASE CudaStep
  <2>1. ASSUME NEW s \in Source, CacheModule(s) PROVE CodeMove
    BY <2>1 DEF CacheModule, CodeMove
  <2>2. ASSUME NEW j \in Job, compile_and_load(j) PROVE CodeMove
    <3>1. CASE NextSource(j) \in Keys(moduleCache)
      BY <2>2, <3>1 DEF compile_and_load, CodeMove
    <3>2. CASE NextSource(j) \notin Keys(moduleCache)
      BY <2>1, <2>2, <3>2, NextSourceTyped DEF compile_and_load, Loading, At
    <3> QED
      BY <3>1, <3>2
  <2>3. ASSUME NEW s \in Source, CudaReport(s) PROVE CodeMove
    BY <2>1, <2>3 DEF CudaReport
  <2>4. ASSUME NEW e \in Archive, restore_ptx_cache_archive(e[1], e[2]) PROVE CodeMove
    BY <1>6, <2>4 DEF restore_ptx_cache_archive, CodeMove
  <2> QED
    BY <1>2, <1>3, <1>4, <1>5, <1>8, <2>2, <2>3, <2>4 DEF CudaStep, CommonStep, CudaSubmit,
       cuda_take_stream, cuda_allocate, cuda_launch, cuda_DropEnds, CudaClear
<1>9. CASE OpenClStep
  <2>1. ASSUME NEW j \in Job, get_or_build_program(j) \/ take_kernel(j) PROVE CodeMove
    BY <2>1 DEF get_or_build_program, take_kernel, CodeMove
  <2>2. ASSUME NEW s \in Source, OpenClReport(s) PROVE CodeMove
    BY <2>2 DEF OpenClReport, CodeMove
  <2>3. ASSUME NEW S, restore_program_binary_archive(S) PROVE CodeMove
    BY <2>3 DEF restore_program_binary_archive, CodeMove
  <2> QED
    BY <1>2, <1>3, <1>4, <1>5, <1>9, <2>1, <2>2, <2>3 DEF OpenClStep, CommonStep, OpenClSubmit,
       begin_submission, opencl_allocate, opencl_launch, opencl_recycle, opencl_DropEnds,
       opencl_Unwinds, OpenClClear
<1>10. CASE MetalStep
  <2>1. ASSUME NEW j \in Job, \/ metal_cached_table(j) \/ take_lookup_buffer(j)
                              \/ take_shared_buffer(j) \/ metal_cached_pipeline(j)
                              \/ compile_pipeline(j) \/ commit(j) \/ recycle_buffers(j)
                              \/ metal_unwinds(j) \/ MetalReleases(j)
        PROVE  CodeMove
    BY <2>1 DEF metal_cached_table, take_lookup_buffer, take_shared_buffer,
       metal_cached_pipeline, compile_pipeline, commit, recycle_buffers, metal_unwinds,
       MetalReleases, codeVars, CodeMove
  <2>2. CASE MetalDropContext \/ \E s \in Source : MetalReport(s)
    BY <2>2 DEF MetalDropContext, MetalReport, CodeMove
  <2> QED
    BY <1>2, <1>3, <1>10, <2>1, <2>2 DEF MetalStep, CommonStep, MetalSubmit
<1> QED
  BY <1>1, <1>2, <1>7, <1>8, <1>9, <1>10 DEF Next, Step

LEMMA FreeTypesKept ==
    ASSUME Types, Control, Next
    PROVE  FreeTypes' /\ UNCHANGED backend
<1>1. UNCHANGED backend /\ (UNCHANGED faults \/ InjectFault)
  BY DEF Next, Failure, SubmitFails, CudaLoadFails, MetalCommandFails, ClearPoolFails,
     FinishFails, DropWaitFails, FreeDuplicateFails
<1>2. backend \in Backend /\ faults \in 0 .. MaxFaults /\ MaxFaults \in Nat
  BY NativeAssumption DEF Types, FreeTypes
<1>3. faults' \in 0 .. MaxFaults
  BY <1>1, <1>2 DEF InjectFault
<1>4. IsCache(codeCache', Source, {"compiled", "restored"})
  BY CodeMoves, CodeMoveTyped
<1> QED
  BY <1>1, <1>2, <1>3, <1>4 DEF FreeTypes

LEMMA ExplicitStep ==
    ASSUME Inv, Explicit, Next
    PROVE  Inv'
<1>1. Types /\ Control /\ ExplicitMove
  BY ExplicitMoves DEF Inv
<1>2. FreeTypes' /\ UNCHANGED backend
  BY <1>1, FreeTypesKept
<1>3. MoveTypes' /\ Control' /\ ExplicitOwned'
  BY <1>1, ExplicitTypes, ExplicitControl, ExplicitOwnership
<1>4. Explicit'
  BY <1>2 DEF Explicit
<1> QED
  BY <1>2, <1>3, <1>4 DEF Inv, Types, MoveTypes

-----------------------------------------------------------------------------
(* Counting occurrences in the sequences of the tickets.                   *)

LEMMA OccurrenceIn ==
    ASSUME NEW f, NEW h
    PROVE  /\ \A p : p \in Occurrences(f, h) <=>
                 \E j \in Job : \E i \in DOMAIN f[j] : p = <<j, i>> /\ f[j][i] = h
           /\ \A j \in Job : \A i \in DOMAIN f[j] :
                 <<j, i>> \in Occurrences(f, h) <=> f[j][i] = h
  BY DEF Occurrences

LEMMA OccurrencesCount ==
    ASSUME NEW S, NEW f \in [Job -> Seq(S)], NEW h
    PROVE  /\ IsFiniteSet(Occurrences(f, h))
           /\ Cardinality(Occurrences(f, h)) \in Nat
<1> DEFINE part == [j \in Job |-> {j} \X DOMAIN f[j]]
           parts == {{j} \X DOMAIN f[j] : j \in Job}
<1>1. IsFiniteSet(Job)
  BY NativeAssumption
<1>2. part \in Surjection(Job, parts)
  BY Fun_IsSurj
<1>3. IsFiniteSet(parts)
  BY <1>1, <1>2, FS_Surjection
<1>4. ASSUME NEW T \in parts PROVE IsFiniteSet(T)
  <2>1. PICK j \in Job : T = {j} \X DOMAIN f[j]
    OBVIOUS
  <2>2. DOMAIN f[j] = 1 .. Len(f[j]) /\ Len(f[j]) \in Nat
    BY LenProperties
  <2>3. IsFiniteSet({j})
    BY FS_Singleton
  <2>4. IsFiniteSet(1 .. Len(f[j]))
    BY <2>2, FS_Interval
  <2>5. IsFiniteSet(DOMAIN f[j])
    BY <2>2, <2>4
  <2> QED
    BY <2>1, <2>3, <2>5, FS_Product
<1>5. IsFiniteSet(UNION parts)
  BY <1>3, <1>4, FS_UNION
<1>6. Occurrences(f, h) \subseteq UNION parts
  BY DEF Occurrences
<1> HIDE DEF parts
<1>7. IsFiniteSet(Occurrences(f, h))
  BY <1>5, <1>6, FS_Subset
<1> QED
  BY <1>7, FS_CardinalityType

\* One more element, at the end of the sequence of j.
Appended(S, f, g, j, e) ==
    /\ f \in [Job -> Seq(S)] /\ j \in Job /\ e \in S
    /\ g[j] = Append(f[j], e) /\ \A i \in Job \ {j} : g[i] = f[i]

LEMMA OccurrencesAppended ==
    ASSUME NEW S, NEW f, NEW j, NEW e, NEW g, Appended(S, f, g, j, e), NEW h
    PROVE  Cardinality(Occurrences(g, h)) =
              Cardinality(Occurrences(f, h)) + (IF h = e THEN 1 ELSE 0)
<1>0. /\ f \in [Job -> Seq(S)] /\ j \in Job /\ e \in S /\ g[j] = Append(f[j], e)
      /\ \A i \in Job \ {j} : g[i] = f[i]
  BY DEF Appended
<1> USE <1>0
<1> DEFINE n == Len(f[j]) + 1
<1>1. /\ g[j] = Append(f[j], e) /\ Len(f[j]) \in Nat /\ DOMAIN f[j] = 1 .. Len(f[j])
      /\ \A i \in Job : i # j => g[i] = f[i]
  BY LenProperties
<1>2. /\ Len(g[j]) = n /\ g[j][n] = e /\ g[j] \in Seq(S)
      /\ \A i \in 1 .. Len(f[j]) : g[j][i] = f[j][i]
  BY <1>1, AppendProperties
<1>3. DOMAIN g[j] = DOMAIN f[j] \cup {n} /\ n \notin DOMAIN f[j]
  <2>1. DOMAIN g[j] = 1 .. n
    BY <1>2, LenProperties
  <2> QED
    BY <1>1, <2>1
<1> HIDE DEF n
<1>4. /\ \A i \in Job \ {j} : g[i] = f[i]
      /\ \A i \in DOMAIN f[j] : g[j][i] = f[j][i]
  BY <1>1, <1>2
<1>5. ASSUME NEW p PROVE p \in Occurrences(g, h) <=>
                            p \in Occurrences(f, h) \/ (p = <<j, n>> /\ h = e)
  <2>1. p \in Occurrences(g, h) <=>
           \E i \in Job : \E l \in DOMAIN g[i] : p = <<i, l>> /\ g[i][l] = h
    BY OccurrenceIn
  <2>2. p \in Occurrences(f, h) <=>
           \E i \in Job : \E l \in DOMAIN f[i] : p = <<i, l>> /\ f[i][l] = h
    BY OccurrenceIn
  <2>3. (\E i \in Job : \E l \in DOMAIN g[i] : p = <<i, l>> /\ g[i][l] = h)
          <=> \/ \E i \in Job \ {j} : \E l \in DOMAIN f[i] : p = <<i, l>> /\ f[i][l] = h
              \/ \E l \in DOMAIN f[j] : p = <<j, l>> /\ f[j][l] = h
              \/ p = <<j, n>> /\ h = e
    BY <1>2, <1>3, <1>4
  <2> QED
    BY <2>1, <2>2, <2>3
<1>6. <<j, n>> \notin Occurrences(f, h)
  BY <1>3, OccurrenceIn
<1>7. IsFiniteSet(Occurrences(f, h)) /\ Cardinality(Occurrences(f, h)) \in Nat
  BY OccurrencesCount
<1>8. CASE h = e
  <2>1. Occurrences(g, h) = Occurrences(f, h) \cup {<<j, n>>}
    BY <1>5, <1>8
  <2> QED
    BY <1>6, <1>7, <1>8, <2>1, FS_AddElement
<1>9. CASE h # e
  <2>1. Occurrences(g, h) = Occurrences(f, h)
    BY <1>5, <1>9
  <2> QED
    BY <1>7, <1>9, <2>1
<1> QED
  BY <1>8, <1>9

\* Nothing is left of the sequence of j.
Forgotten(S, f, g, j) ==
    /\ f \in [Job -> Seq(S)] /\ g \in [Job -> Seq(S)] /\ j \in Job
    /\ g[j] = << >> /\ \A i \in Job \ {j} : g[i] = f[i]

LEMMA OccurrencesForgotten ==
    ASSUME NEW S, NEW f, NEW j, NEW g, Forgotten(S, f, g, j), NEW h
    PROVE  /\ Cardinality(Occurrences(f, h)) =
                 Cardinality(Occurrences(g, h)) + Cardinality({i \in DOMAIN f[j] : f[j][i] = h})
           /\ Cardinality(Occurrences(g, h)) \in Nat
           /\ Cardinality({i \in DOMAIN f[j] : f[j][i] = h}) \in Nat
           /\ IsFiniteSet({i \in DOMAIN f[j] : f[j][i] = h})
<1>0. /\ f \in [Job -> Seq(S)] /\ g \in [Job -> Seq(S)] /\ j \in Job /\ g[j] = << >>
      /\ \A i \in Job \ {j} : g[i] = f[i]
  BY DEF Forgotten
<1> USE <1>0
<1> DEFINE I == {i \in DOMAIN f[j] : f[j][i] = h}
<1>1. DOMAIN f[j] = 1 .. Len(f[j]) /\ Len(f[j]) \in Nat
  BY LenProperties
<1>2. IsFiniteSet(I)
  <2>1. IsFiniteSet(DOMAIN f[j])
    BY <1>1, FS_Interval
  <2> QED
    BY <2>1, FS_Subset
<1>3. IsFiniteSet({j}) /\ Cardinality({j}) = 1
  BY FS_Singleton
<1>4. Cardinality(I) \in Nat
  BY <1>2, FS_CardinalityType
<1> HIDE DEF I
<1>5. IsFiniteSet({j} \X I) /\ Cardinality({j} \X I) = Cardinality(I)
  <2>1. IsFiniteSet({j} \X I) /\ Cardinality({j} \X I) = Cardinality({j}) * Cardinality(I)
    BY <1>2, <1>3, FS_Product
  <2> QED
    BY <1>3, <1>4, <2>1
<1>6. g[j] = << >> /\ DOMAIN << >> = {}
      /\ \A i \in Job : i # j => g[i] = f[i]
  OBVIOUS
<1>7. IsFiniteSet(Occurrences(g, h)) /\ Cardinality(Occurrences(g, h)) \in Nat
  BY OccurrencesCount
<1>8. ASSUME NEW p PROVE /\ p \in Occurrences(f, h) <=> p \in Occurrences(g, h) \/ p \in {j} \X I
                         /\ ~(p \in Occurrences(g, h) /\ p \in {j} \X I)
  <2>1. p \in Occurrences(g, h) <=>
           \E i \in Job : \E l \in DOMAIN g[i] : p = <<i, l>> /\ g[i][l] = h
    BY OccurrenceIn
  <2>2. p \in Occurrences(f, h) <=>
           \E i \in Job : \E l \in DOMAIN f[i] : p = <<i, l>> /\ f[i][l] = h
    BY OccurrenceIn
  <2>3. p \in {j} \X I <=> \E l \in DOMAIN f[j] : p = <<j, l>> /\ f[j][l] = h
    BY DEF I
  <2> QED
    BY <1>6, <2>1, <2>2, <2>3
<1>9. /\ Occurrences(f, h) = Occurrences(g, h) \cup ({j} \X I)
      /\ Occurrences(g, h) \cap ({j} \X I) = {}
  BY <1>8
<1>10. Cardinality(Occurrences(f, h)) =
          Cardinality(Occurrences(g, h)) + Cardinality({j} \X I) - Cardinality({})
  BY <1>5, <1>7, <1>9, FS_Union
<1> QED
  BY <1>2, <1>4, <1>5, <1>7, <1>10, FS_EmptySet DEF I

\* The elements at R of the sequence of j become None.
LEMMA OccurrencesErased ==
    ASSUME NEW f, NEW j \in Job, NEW R \in SUBSET DOMAIN f[j],
           NEW g, g[j] = [i \in DOMAIN f[j] |-> IF i \in R THEN None ELSE f[j][i]],
           \A i \in Job \ {j} : g[i] = f[i], NEW h, h # None
    PROVE  Occurrences(g, h) = {p \in Occurrences(f, h) : ~(p[1] = j /\ p[2] \in R)}
<1>1. ASSUME NEW p PROVE p \in Occurrences(g, h) <=>
                            p \in Occurrences(f, h) /\ ~(p[1] = j /\ p[2] \in R)
  <2>1. p \in Occurrences(g, h) <=>
           \E i \in Job : \E l \in DOMAIN g[i] : p = <<i, l>> /\ g[i][l] = h
    BY OccurrenceIn
  <2>2. p \in Occurrences(f, h) <=>
           \E i \in Job : \E l \in DOMAIN f[i] : p = <<i, l>> /\ f[i][l] = h
    BY OccurrenceIn
  <2>3. DOMAIN g[j] = DOMAIN f[j]
        /\ \A l \in DOMAIN f[j] : g[j][l] = IF l \in R THEN None ELSE f[j][l]
    OBVIOUS
  <2>4. ASSUME p \in Occurrences(g, h)
        PROVE  p \in Occurrences(f, h) /\ ~(p[1] = j /\ p[2] \in R)
    <3>0. PICK i \in Job : \E l \in DOMAIN g[i] : p = <<i, l>> /\ g[i][l] = h
      BY <2>1, <2>4
    <3>1. PICK l \in DOMAIN g[i] : p = <<i, l>> /\ g[i][l] = h
      BY <3>0
    <3>2. p[1] = i /\ p[2] = l
      BY <3>1
    <3> QED
      BY <2>2, <2>3, <3>1, <3>2
  <2>5. ASSUME p \in Occurrences(f, h), ~(p[1] = j /\ p[2] \in R)
        PROVE  p \in Occurrences(g, h)
    <3>0. PICK i \in Job : \E l \in DOMAIN f[i] : p = <<i, l>> /\ f[i][l] = h
      BY <2>2, <2>5
    <3>1. PICK l \in DOMAIN f[i] : p = <<i, l>> /\ f[i][l] = h
      BY <3>0
    <3>2. p[1] = i /\ p[2] = l
      BY <3>1
    <3> QED
      BY <2>1, <2>3, <2>5, <3>1, <3>2
  <2> QED
    BY <2>4, <2>5
<1> QED
  BY <1>1

\* All sequences are empty.
LEMMA OccurrencesNone ==
    ASSUME NEW f, \A j \in Job : f[j] = << >>, NEW h
    PROVE  Cardinality(Occurrences(f, h)) = 0
<1>1. Occurrences(f, h) = {}
  BY OccurrenceIn
<1> QED
  BY <1>1, FS_EmptySet

-----------------------------------------------------------------------------
(* The steps of Metal.                                                     *)

MetalMove(j) ==
    \/ \E c \in Chains[j] : Submit(j, c, "alloc")
    \/ MovesOn(j) \/ commit(j) \/ DeviceEnds(j)
    \/ metal_cached_table(j) \/ take_lookup_buffer(j) \/ take_shared_buffer(j)
    \/ metal_cached_pipeline(j) \/ compile_pipeline(j)
    \/ recycle_buffers(j) \/ metal_unwinds(j) \/ MetalReleases(j)

LEMMA CommandFailsMovesOn ==
    ASSUME Types, Control, NEW j \in Job, MetalCommandFails(j)
    PROVE  MovesOn(j)
<1> DEFINE n == count[j]
<1>1. /\ phase \in [Job -> Phases] /\ n \in Nat /\ count' = [count EXCEPT ![j] = n]
      /\ j # None /\ call = j /\ call' = j /\ phase[j] = "sync"
      /\ phase' = [phase EXCEPT ![j] = "drop"]
      /\ UNCHANGED <<chain, stage, handleVars, dataVars, loaded, made, moduleCache,
                     gpuVars, clearing, alive, results, active>>
  BY NativeAssumption DEF Types, CallTypes, MetalCommandFails, Continue, Goto, At,
     codeVars, restVars
<1>2. "drop" \in Phases
  BY DEF Phases
<1> HIDE DEF n
<1>3. Passage(j, "drop", n)
  BY <1>1 DEF Passage, n
<1> QED
  BY <1>1, <1>2, <1>3 DEF MovesOn

LEMMA MetalMoves ==
    ASSUME Inv, ~Explicit, Next
    PROVE  \/ \E j \in Job : MetalMove(j)
           \/ \E s \in Source : MetalReport(s)
           \/ MetalDropContext
<1>1. Types /\ Control /\ backend = "Metal"
  BY DEF Inv, Explicit
<1>2. ASSUME NEW j \in Job, Plain(j) PROVE MetalMove(j)
  <2>1. UNCHANGED active
    BY <1>2 DEF Plain, Wait, DropTicket, synchronize, read_output, SubmitFails, FinishFails
  <2> QED
    BY <1>1, <1>2, <2>1, PlainMovesOn DEF MetalMove
<1>3. ASSUME NEW j \in Job, allocated(j) PROVE MetalMove(j)
  <2>1. UNCHANGED active
    BY <1>3 DEF allocated
  <2> QED
    BY <1>1, <1>3, <2>1, TurnMovesOn DEF MetalMove, Turns
<1>4. CASE MetalStep
  BY <1>2, <1>3, <1>4 DEF MetalStep, MetalMove, MetalSubmit, Plain
<1>5. CASE Failure
  BY <1>1, <1>2, <1>5, CommandFailsMovesOn DEF Failure, Plain, MetalMove
<1>6. CASE \E j \in Job : DeviceEnds(j)
  BY <1>6 DEF MetalMove
<1> QED
  BY <1>1, <1>4, <1>5, <1>6 DEF Next, Step

LEMMA MetalAlone ==
    ASSUME Types, NEW j \in Job, MetalMove(j)
    PROVE  Others(j)
<1> USE DEF Types, CallTypes, HandleTypes, DataTypes, CodeTypes, GpuTypes, RestTypes
<1>1. ASSUME NEW c \in Chains[j], Submit(j, c, "alloc") PROVE Others(j)
  BY <1>1 DEF Submit, Others, Goto, handleVars, dataVars, codeVars, gpuVars
<1>2. CASE MovesOn(j)
  BY <1>2 DEF MovesOn, Others, handleVars, dataVars, gpuVars
<1>3. CASE commit(j)
  BY <1>3 DEF commit, Goto, Others, handleVars, dataVars, codeVars, restVars
<1>4. CASE DeviceEnds(j)
  BY <1>4 DEF DeviceEnds, Others, flowVars, handleVars, codeVars, restVars
<1>5. CASE metal_cached_table(j)
  BY <1>5 DEF metal_cached_table, Place, Others, codeVars, gpuVars, restVars
<1>6. CASE take_lookup_buffer(j) \/ take_shared_buffer(j)
  BY <1>6 DEF take_lookup_buffer, take_shared_buffer, Place, Others, codeVars, gpuVars,
     restVars
<1>7. CASE metal_cached_pipeline(j)
  BY <1>7 DEF metal_cached_pipeline, Loaded, Continue, Goto, Others, dataVars, gpuVars,
     restVars
<1>8. CASE compile_pipeline(j)
  <2>1. call = j /\ CompilePipeline(NextSource(j), 1)
    BY <1>8 DEF compile_pipeline, Loading, At
  <2>2. PICK m \in OneOf(Fresh(Module)) :
             loaded' = IF 1 = 0 THEN loaded ELSE [loaded EXCEPT ![call] = Append(@, m)]
    BY <2>1 DEF CompilePipeline
  <2>3. loaded' = [loaded EXCEPT ![j] = Append(@, m)]
    BY <2>1, <2>2
  <2> QED
    BY <1>8, <2>3 DEF compile_pipeline, Others, dataVars, gpuVars, restVars
<1>9. CASE recycle_buffers(j) \/ metal_unwinds(j)
  BY <1>9 DEF recycle_buffers, metal_unwinds, Continue, Goto, Others, codeVars, gpuVars,
     restVars
<1>10. CASE MetalReleases(j)
  BY <1>10 DEF MetalReleases, Returns, Forgets, Goto, Others, gpuVars
<1> QED
  BY <1>1, <1>2, <1>3, <1>4, <1>5, <1>6, <1>7, <1>8, <1>9, <1>10 DEF MetalMove

\* A buffer that a ticket has for itself.
LEMMA SoleUse ==
    ASSUME Inv, ~Explicit, NEW j \in Job, NEW i, Transient(j, i), phase[j] # "free"
    PROVE  /\ memory[j][i] \in Device /\ refs[memory[j][i]] = 1 /\ pool[memory[j][i]] = 0
           /\ memory[j][i] \notin Shared
           /\ Occurrences(memory, memory[j][i]) = {<<j, i>>}
           /\ Occurrences(loaded, memory[j][i]) = {}
<1> DEFINE h == memory[j][i]
<1>1. i \in DOMAIN memory[j] /\ h \in Device /\ refs[h] = 1 /\ pool[h] = 0
  BY DEF Inv, MetalCounted, MetalTicket, Transient
<1>2. <<j, i>> \in Occurrences(memory, h)
  BY <1>1, OccurrenceIn
<1>3. h \in Handle
  BY <1>1 DEF Handle
<1>4. memory \in [Job -> Seq(Device \cup {None})] /\ loaded \in [Job -> Seq(Module \cup Kernel)]
  BY DEF Inv, Types, DataTypes, CodeTypes
<1> HIDE DEF h
<1>5. /\ IsFiniteSet(Occurrences(memory, h)) /\ Cardinality(Occurrences(memory, h)) \in Nat
      /\ IsFiniteSet(Occurrences(loaded, h)) /\ Cardinality(Occurrences(loaded, h)) \in Nat
  BY <1>4, OccurrencesCount
<1>6. Cardinality(Occurrences(memory, h)) # 0
  BY <1>2, <1>5, FS_EmptySet
<1>7. Counted(h)
  BY <1>3 DEF Inv, MetalCounted
<1>8. /\ Cardinality(Occurrences(memory, h)) = 1 /\ Cardinality(Occurrences(loaded, h)) = 0
      /\ h \notin Shared
  BY <1>1, <1>5, <1>6, <1>7 DEF Counted, Cached
<1>9. Occurrences(loaded, h) = {}
  BY <1>5, <1>8, FS_EmptySet
<1>10. PICK x : Occurrences(memory, h) = {x}
  BY <1>5, <1>8, FS_Singleton
<1>11. Occurrences(memory, h) = {<<j, i>>}
  BY <1>2, <1>10
<1> QED
  BY <1>1, <1>8, <1>9, <1>11 DEF h

\* A handle that is in its pool, or new.
LEMMA Unused ==
    ASSUME Inv, ~Explicit, NEW h \in Handle, Available(h)
    PROVE  /\ refs[h] = pool[h] /\ pool[h] \in {0, 1} /\ h \notin Shared
           /\ Occurrences(memory, h) = {} /\ Occurrences(loaded, h) = {}
           /\ pool[h] = 1 => h \in Device
<1>1. memory \in [Job -> Seq(Device \cup {None})] /\ loaded \in [Job -> Seq(Module \cup Kernel)]
      /\ refs[h] \in Nat /\ pool[h] \in Nat
  BY DEF Inv, Types, DataTypes, CodeTypes, HandleTypes
<1>2. /\ IsFiniteSet(Occurrences(memory, h)) /\ Cardinality(Occurrences(memory, h)) \in Nat
      /\ IsFiniteSet(Occurrences(loaded, h)) /\ Cardinality(Occurrences(loaded, h)) \in Nat
  BY <1>1, OccurrencesCount
<1>3. Counted(h)
  BY DEF Inv, MetalCounted
<1>4. (refs[h] = 0 \/ pool[h] > 0) /\ Cached(h) \in {0, 1}
  BY DEF Available, New, Cached
<1>5. /\ Cardinality(Occurrences(memory, h)) = 0 /\ Cardinality(Occurrences(loaded, h)) = 0
      /\ Cached(h) = 0 /\ refs[h] = pool[h] /\ pool[h] \in {0, 1}
      /\ (pool[h] = 1 => h \in Device)
  BY <1>1, <1>2, <1>3, <1>4 DEF Counted
<1>6. h \notin Shared
  BY <1>5 DEF Cached
<1> QED
  BY <1>2, <1>5, <1>6, FS_EmptySet

LEMMA BufferTaken ==
    ASSUME Inv, ~Explicit, NEW d \in Obtainable(Device)
    PROVE  /\ d \in Device /\ d \in Handle /\ d \notin Shared
           /\ Occurrences(memory, d) = {} /\ Occurrences(loaded, d) = {}
           /\ TakeBuffer(d) = [refs EXCEPT ![d] = 1]
           /\ refs[d] = pool[d] /\ pool[d] \in {0, 1}
<1>1. d \in Device /\ d \in Handle /\ Available(d)
  BY Obtained DEF Handle
<1>2. /\ refs[d] = pool[d] /\ pool[d] \in {0, 1} /\ d \notin Shared
      /\ Occurrences(memory, d) = {} /\ Occurrences(loaded, d) = {}
  BY <1>1, Unused
<1>3. TakeBuffer(d) = [refs EXCEPT ![d] = 1]
  <2>1. refs \in [Handle -> Nat]
    BY DEF Inv, Types, HandleTypes
  <2>2. (IF pool[d] > 0 THEN refs[d] ELSE 1) = 1
    BY <1>2
  <2> QED
    BY <2>1, <2>2 DEF TakeBuffer
<1> QED
  BY <1>1, <1>2, <1>3

\* What an insertion into a bounded cache gives up.
LEMMA DroppedValues ==
    ASSUME NEW K, NEW V, NEW c, IsCache(c, K, V), OneKeyEach(c),
           NEW k, k \notin Keys(c), NEW v, v \notin Values(c),
           NEW d, d = c \/ Replaces(d, c, k, v)
    PROVE  /\ Dropped(c, d) = Values(c) \ Values(d)
           /\ Values(d) \subseteq Values(c) \cup {v}
           /\ v \in Values(d) <=> k \in Keys(d)
           /\ OneKeyEach(d)
<1>1. CASE d = c
  BY <1>1 DEF Dropped, Values
<1>2. CASE Replaces(d, c, k, v)
  <2>1. /\ k \in Keys(d) /\ d.entries[k] = v /\ Keys(d) \subseteq Keys(c) \cup {k}
        /\ \A x \in Keys(d) \ {k} : x \in Keys(c) /\ d.entries[x] = c.entries[x]
    BY <1>2 DEF Replaces
  <2>2. \A x \in Keys(c) : c.entries[x] \in Values(c) /\ c.entries[x] # v /\ x # k
    BY DEF Values
  <2>3. \A x \in Keys(c) : c.entries[x] \in Values(d) <=> x \in Keys(d)
    BY <2>1, <2>2 DEF Values, OneKeyEach
  <2>4. Dropped(c, d) = Values(c) \ Values(d)
    <3>1. \A x \in Keys(c) : (x \notin Keys(d) \/ d.entries[x] # c.entries[x])
                               <=> c.entries[x] \notin Values(d)
      BY <2>1, <2>2, <2>3
    <3> QED
      BY <3>1 DEF Dropped, Values
  <2>5. Values(d) \subseteq Values(c) \cup {v} /\ v \in Values(d)
    BY <2>1 DEF Values
  <2>6. OneKeyEach(d)
    BY <2>1, <2>2 DEF OneKeyEach
  <2> QED
    BY <2>1, <2>4, <2>5, <2>6
<1> QED
  BY <1>1, <1>2

\* One reference each for m and for the caches, and one less for what is dropped.
Counts(h, m, own, old, new) ==
    IF h = m THEN own + (IF m \in new THEN 1 ELSE 0)
    ELSE IF h \in old \ new THEN refs[h] - 1 ELSE refs[h]

LEMMA InsertionCounts ==
    ASSUME Inv, ~Explicit, NEW m \in Handle, m \notin Shared, NEW own \in {0, 1},
           NEW old, old \subseteq Shared, NEW new, NEW h \in Handle
    PROVE  /\ Counts(h, m, own, old, new) =
                 Minus((IF h = m THEN own ELSE refs[h]) + (IF h = m /\ m \in new THEN 1 ELSE 0),
                       IF h \in old \ new THEN 1 ELSE 0)
           /\ Counts(h, m, own, old, new) \in Nat
<1>1. refs \in [Handle -> Nat] /\ pool \in [Handle -> Nat]
      /\ memory \in [Job -> Seq(Device \cup {None})] /\ loaded \in [Job -> Seq(Module \cup Kernel)]
  BY DEF Inv, Types, HandleTypes, DataTypes, CodeTypes
<1>2. ASSUME h \in old PROVE refs[h] \in Nat \ {0} /\ h # m
  <2>1. Counted(h) /\ Cached(h) = 1
    BY <1>2 DEF Inv, MetalCounted, Cached
  <2>2. Cardinality(Occurrences(memory, h)) \in Nat /\ Cardinality(Occurrences(loaded, h)) \in Nat
    BY <1>1, OccurrencesCount
  <2> QED
    BY <1>1, <1>2, <2>1, <2>2 DEF Counted
<1>3. CASE h = m
  BY <1>3 DEF Counts, Minus
<1>4. CASE h # m
  BY <1>1, <1>2, <1>4 DEF Counts, Minus
<1> QED
  BY <1>3, <1>4

\* What compiling a pipeline changes.
Pipeline(s, m, own) ==
    /\ m \in Module /\ New(m) /\ m \notin Shared
    /\ refs' = [h \in Handle |-> Counts(h, m, own, Values(moduleCache), Values(moduleCache'))]
    /\ refs' \in [Handle -> Nat]
    /\ made' \in [Module \cup Kernel -> Source \cup {None}]
    /\ \A h \in Module \cup Kernel :
          made'[h] = IF refs'[h] = 0 THEN None ELSE IF h = m THEN s ELSE made[h]
    /\ IsCache(moduleCache', Source, Module) /\ OneKeyEach(moduleCache')
    /\ moduleCache' = moduleCache \/ Replaces(moduleCache', moduleCache, s, m)
    /\ Values(moduleCache') \subseteq Values(moduleCache) \cup {m}
    /\ loaded' = IF own = 0 THEN loaded ELSE [loaded EXCEPT ![call] = Append(@, m)]

LEMMA PipelineCompiled ==
    ASSUME Inv, ~Explicit, NEW s \in Source \ Keys(moduleCache), NEW own \in {0, 1},
           CompilePipeline(s, own)
    PROVE  \E m \in Module : Pipeline(s, m, own)
<1>1. PICK m \in OneOf(Fresh(Module)) :
       /\ moduleCache' = FifoInsert(moduleCache, s, m, NoBytes, MaxPipelines, 0)
       /\ refs' = Referenced([refs EXCEPT ![m] = own], CachedReference(m, moduleCache'),
                             Dropped(moduleCache, moduleCache'))
       /\ made' = Scrubbed([made EXCEPT ![m] = s], refs', {})
       /\ loaded' = IF own = 0 THEN loaded
                    ELSE [loaded EXCEPT ![call] = Append(@, m)]
  BY DEF CompilePipeline
<1>2. m \in Module /\ m \in Handle /\ New(m)
  BY FreshNew DEF Handle
<1>3. m \notin Shared
  BY <1>2, Unused DEF Available
<1>4. IsCache(moduleCache, Source, Module) /\ OneKeyEach(moduleCache)
      /\ made \in [Module \cup Kernel -> Source \cup {None}]
  BY DEF Inv, Types, CodeTypes, MetalCounted
<1>5. /\ IsCache(moduleCache', Source, Module)
      /\ moduleCache' = moduleCache \/ Replaces(moduleCache', moduleCache, s, m)
  BY <1>1, <1>2, <1>4, FifoReplaces
<1>6. m \notin Values(moduleCache) /\ Values(moduleCache) \in SUBSET Shared
  BY <1>3 DEF Shared
<1>7. /\ Dropped(moduleCache, moduleCache') = Values(moduleCache) \ Values(moduleCache')
      /\ Values(moduleCache') \subseteq Values(moduleCache) \cup {m}
      /\ OneKeyEach(moduleCache')
  BY <1>4, <1>5, <1>6, DroppedValues
<1>8. /\ refs' = [h \in Handle |-> Counts(h, m, own, Values(moduleCache), Values(moduleCache'))]
      /\ refs' \in [Handle -> Nat]
  <2> DEFINE old == Values(moduleCache)
             new == Values(moduleCache')
             r == [refs EXCEPT ![m] = own]
             kept == CachedReference(m, moduleCache')
  <2>1. refs' = Referenced(r, kept, old \ new)
    BY <1>1, <1>7
  <2>2. \A h : h \in kept <=> h = m /\ m \in new
    BY <1>7 DEF CachedReference
  <2>3. old \subseteq Shared
    BY <1>6
  <2>4. \A h \in Handle : r[h] = IF h = m THEN own ELSE refs[h]
    BY <1>2, <1>3 DEF Inv, Types, HandleTypes
  <2> HIDE DEF old, new, r, kept
  <2>5. ASSUME NEW h \in Handle
        PROVE  /\ Counts(h, m, own, old, new) \in Nat
               /\ Minus(r[h] + (IF h \in kept THEN 1 ELSE 0), IF h \in old \ new THEN 1 ELSE 0)
                   = Counts(h, m, own, old, new)
    <3>1. /\ Counts(h, m, own, old, new) =
                Minus((IF h = m THEN own ELSE refs[h]) + (IF h = m /\ m \in new THEN 1 ELSE 0),
                      IF h \in old \ new THEN 1 ELSE 0)
          /\ Counts(h, m, own, old, new) \in Nat
      BY <1>2, <1>3, <2>3, InsertionCounts
    <3>2. (h \in kept <=> h = m /\ m \in new) /\ r[h] = IF h = m THEN own ELSE refs[h]
      BY <2>2, <2>4
    <3> QED
      BY <3>1, <3>2
  <2> QED
    BY <2>1, <2>5 DEF Referenced, old, new
<1>9. /\ made' \in [Module \cup Kernel -> Source \cup {None}]
      /\ \A h \in Module \cup Kernel :
            made'[h] = IF refs'[h] = 0 THEN None ELSE IF h = m THEN s ELSE made[h]
  BY <1>1, <1>2, <1>4 DEF Scrubbed
<1> QED
  BY <1>1, <1>2, <1>3, <1>5, <1>7, <1>8, <1>9 DEF Pipeline

\* What taking a buffer for a new table changes.
Lookup(j, d) ==
    LET k == TheEntry(j) IN
    /\ d \in Device /\ d \notin Shared /\ Place(j, d)
    /\ Occurrences(memory, d) = {} /\ Occurrences(loaded, d) = {}
    /\ refs' = [h \in Handle |-> Counts(h, d, 1, Values(lutCache), Values(lutCache'))]
    /\ refs' \in [Handle -> Nat]
    /\ pool' = [pool EXCEPT ![d] = 0]
    /\ content' \in [Device -> Contents]
    /\ \A h \in Device :
          content'[h] = IF refs'[h] = 0 THEN None ELSE IF h = d THEN k ELSE content[h]
    /\ IsCache(lutCache', Key, Device) /\ OneKeyEach(lutCache')
    /\ lutCache' = lutCache \/ Replaces(lutCache', lutCache, k, d)
    /\ Values(lutCache') \subseteq Values(lutCache) \cup {d}

LEMMA Unpooled ==
    ASSUME Inv, NEW d \in Handle, pool[d] \in {0, 1}, Unpool({d})
    PROVE  pool' = [pool EXCEPT ![d] = 0]
<1>1. pool \in [Handle -> Nat]
  BY DEF Inv, Types, HandleTypes
<1>2. \A x \in Handle : Minus(pool[x], IF x \in {d} THEN 1 ELSE 0) =
                        IF x = d THEN 0 ELSE pool[x]
  BY <1>1 DEF Minus
<1> QED
  BY <1>1, <1>2 DEF Unpool

LEMMA LookupTaken ==
    ASSUME Inv, ~Explicit, NEW j \in Job, take_lookup_buffer(j)
    PROVE  \E d \in Device : Lookup(j, d)
<1> DEFINE k == TheEntry(j)
<1>1. k \in Key /\ k \notin Keys(lutCache)
  BY DEF take_lookup_buffer
<1>2. PICK d \in Obtainable(Device) :
       /\ lutCache' = FifoInsert(lutCache, k, d, TableBytes, MaxTables, MaxTableBytes)
       /\ Place(j, d) /\ Unpool({d})
       /\ refs' = Referenced(TakeBuffer(d), IF k \in Keys(lutCache') THEN {d} ELSE {},
                             Dropped(lutCache, lutCache'))
       /\ content' = Scrubbed([content EXCEPT ![d] = k], refs', {})
  BY DEF take_lookup_buffer
<1>3. /\ d \in Device /\ d \in Handle /\ d \notin Shared
      /\ Occurrences(memory, d) = {} /\ Occurrences(loaded, d) = {}
      /\ TakeBuffer(d) = [refs EXCEPT ![d] = 1]
      /\ pool[d] \in {0, 1}
  BY BufferTaken
<1>4. IsCache(lutCache, Key, Device) /\ OneKeyEach(lutCache)
      /\ content \in [Device -> Contents] /\ Key \subseteq Contents /\ None \in Contents
  BY DEF Inv, Types, DataTypes, MetalCounted, Contents
<1> HIDE DEF k
<1>5. /\ IsCache(lutCache', Key, Device)
      /\ lutCache' = lutCache \/ Replaces(lutCache', lutCache, k, d)
  BY <1>1, <1>2, <1>3, <1>4, FifoReplaces
<1>6. d \notin Values(lutCache) /\ Values(lutCache) \in SUBSET Shared
  BY <1>3 DEF Shared
<1>7. /\ Dropped(lutCache, lutCache') = Values(lutCache) \ Values(lutCache')
      /\ Values(lutCache') \subseteq Values(lutCache) \cup {d}
      /\ d \in Values(lutCache') <=> k \in Keys(lutCache')
      /\ OneKeyEach(lutCache')
  BY <1>1, <1>4, <1>5, <1>6, DroppedValues
<1>8. /\ refs' = [h \in Handle |-> Counts(h, d, 1, Values(lutCache), Values(lutCache'))]
      /\ refs' \in [Handle -> Nat]
  <2> DEFINE old == Values(lutCache)
             new == Values(lutCache')
             r == [refs EXCEPT ![d] = 1]
             kept == IF k \in Keys(lutCache') THEN {d} ELSE {}
  <2>1. refs' = Referenced(r, kept, old \ new)
    BY <1>2, <1>3, <1>7
  <2>2. \A h : h \in kept <=> h = d /\ d \in new
    BY <1>7 DEF CachedReference
  <2>3. old \subseteq Shared
    BY <1>6
  <2>4. \A h \in Handle : r[h] = IF h = d THEN 1 ELSE refs[h]
    BY <1>3 DEF Inv, Types, HandleTypes
  <2> HIDE DEF old, new, r, kept
  <2>5. ASSUME NEW h \in Handle
        PROVE  /\ Counts(h, d, 1, old, new) \in Nat
               /\ Minus(r[h] + (IF h \in kept THEN 1 ELSE 0), IF h \in old \ new THEN 1 ELSE 0)
                   = Counts(h, d, 1, old, new)
    <3>1. /\ Counts(h, d, 1, old, new) =
                Minus((IF h = d THEN 1 ELSE refs[h]) + (IF h = d /\ d \in new THEN 1 ELSE 0),
                      IF h \in old \ new THEN 1 ELSE 0)
          /\ Counts(h, d, 1, old, new) \in Nat
      BY <1>3, <2>3, InsertionCounts
    <3>2. (h \in kept <=> h = d /\ d \in new) /\ r[h] = IF h = d THEN 1 ELSE refs[h]
      BY <2>2, <2>4
    <3> QED
      BY <3>1, <3>2
  <2> QED
    BY <2>1, <2>5 DEF Referenced, old, new
<1>9. pool' = [pool EXCEPT ![d] = 0]
  BY <1>2, <1>3, Unpooled
<1>10. /\ content' \in [Device -> Contents]
       /\ \A h \in Device :
             content'[h] = IF refs'[h] = 0 THEN None ELSE IF h = d THEN k ELSE content[h]
  BY <1>1, <1>2, <1>3, <1>4 DEF Scrubbed
<1> QED
  BY <1>2, <1>3, <1>5, <1>7, <1>8, <1>9, <1>10 DEF Lookup, k

-----------------------------------------------------------------------------
(* The types and the calls of Metal.                                       *)

\* A ticket forgets the buffers at R.
LEMMA BuffersErased ==
    ASSUME Types, NEW j \in Job, NEW R \in SUBSET DOMAIN memory[j],
           memory' = [memory EXCEPT ![j] =
                         [i \in DOMAIN memory[j] |-> IF i \in R THEN None ELSE memory[j][i]]]
    PROVE  /\ memory' \in [Job -> Seq(Device \cup {None})]
           /\ Len(memory'[j]) = Len(memory[j]) /\ DOMAIN memory'[j] = DOMAIN memory[j]
           /\ \A i \in DOMAIN memory[j] : memory'[j][i] = IF i \in R THEN None ELSE memory[j][i]
<1> DEFINE n == Len(memory[j])
           s == [i \in DOMAIN memory[j] |-> IF i \in R THEN None ELSE memory[j][i]]
<1>1. n \in Nat /\ DOMAIN memory[j] = 1 .. n
      /\ \A i \in DOMAIN memory[j] : memory[j][i] \in Device \cup {None}
  BY TicketSequences
<1>2. s \in [1 .. n -> Device \cup {None}]
  BY <1>1
<1>3. memory \in [Job -> Seq(Device \cup {None})]
  BY DEF Types, DataTypes
<1>4. memory'[j] = s
  BY <1>3
<1> HIDE DEF s, n
<1>5. s \in Seq(Device \cup {None}) /\ Len(s) = n
  BY <1>1, <1>2
<1>6. memory' = [memory EXCEPT ![j] = s]
  BY DEF s
<1>7. memory' \in [Job -> Seq(Device \cup {None})]
  BY <1>3, <1>5, <1>6
<1> QED
  BY <1>1, <1>4, <1>5, <1>7 DEF s, n

LEMMA SubsetOfSize ==
    ASSUME NEW S, IsFiniteSet(S), NEW n \in Nat, n <= Cardinality(S)
    PROVE  \E T \in SUBSET S : Cardinality(T) = n
<1> DEFINE c == Cardinality(S)
<1>1. c \in Nat /\ ExistsBijection(1 .. c, S)
  BY FS_CardinalityType
<1>2. PICK f \in Bijection(1 .. c, S) : TRUE
  BY <1>1 DEF ExistsBijection
<1>3. /\ f \in [1 .. c -> S]
      /\ \A x, y \in 1 .. c : f[x] = f[y] => x = y
  BY <1>2 DEF Bijection, Injection, IsInjective
<1>4. 1 .. n \subseteq 1 .. c
  BY <1>1
<1> HIDE DEF c
<1> DEFINE T == {f[x] : x \in 1 .. n}
           g == [x \in 1 .. n |-> f[x]]
<1>5. g \in [1 .. n -> T] /\ T \subseteq S
  BY <1>3, <1>4
<1>6. /\ \A x, y \in 1 .. n : g[x] = g[y] => x = y
      /\ \A t \in T : \E x \in 1 .. n : g[x] = t
  BY <1>3, <1>4
<1> HIDE DEF g
<1>7. g \in Bijection(1 .. n, T)
  BY <1>5, <1>6 DEF Bijection, Injection, Surjection, IsInjective
<1>8. ExistsBijection(1 .. n, T)
  BY <1>7 DEF ExistsBijection
<1>9. IsFiniteSet(1 .. n) /\ Cardinality(1 .. n) = n
  BY FS_Interval
<1>10. Cardinality(T) = n
  BY <1>8, <1>9, FS_Bijection
<1> QED
  BY <1>5, <1>10

Offered(j) == {memory[j][i] : i \in Recyclable(j)}

\* The buffers of a ticket and of the pool of which `gone` are released.
Recycled(j, gone) ==
    /\ gone \subseteq Pooled(Device) \cup Offered(j)
    /\ pool' = [h \in Handle |-> IF h \in gone THEN 0
                                 ELSE pool[h] + (IF h \in Offered(j) \ gone THEN 1 ELSE 0)]
    /\ refs' = Referenced(refs, {}, gone)
    /\ content' = [d \in Device |-> IF d \in Offered(j) \cup gone THEN None ELSE content[d]]

LEMMA BuffersRecycled ==
    ASSUME Inv, NEW j \in Job, recycle_buffers(j)
    PROVE  \E gone : Recycled(j, gone)
<1> DEFINE all == Pooled(Device) \cup Offered(j)
           room == MaxBuffers - Cardinality(all)
           gone == IF room >= 0 THEN {}
                   ELSE CHOOSE S \in SUBSET all : Cardinality(S) = 0 - room
<1>1. IsFiniteSet(all) /\ Cardinality(all) \in Nat /\ MaxBuffers \in Nat
  <2>1. IsFiniteSet(Handle) /\ Pooled(Device) \subseteq Handle
    BY NativeAssumption DEF Pooled, Handle
  <2>2. IsFiniteSet(Handle \cup {None})
    BY <2>1, FS_AddElement
  <2>3. Offered(j) \subseteq Handle \cup {None}
    BY TicketSequences DEF Inv, Offered, Recyclable, Handle
  <2>4. all \in SUBSET (Handle \cup {None})
    BY <2>1, <2>3
  <2> QED
    BY <2>2, <2>4, FS_Subset, FS_CardinalityType, MetalAssumption
<1>2. gone \subseteq all
  <2>1. CASE room >= 0
    BY <2>1
  <2>2. CASE ~(room >= 0)
    <3>1. 0 - room \in Nat /\ 0 - room <= Cardinality(all)
      BY <1>1, <2>2
    <3> HIDE DEF all, room
    <3>2. \E S \in SUBSET all : Cardinality(S) = 0 - room
      BY <1>1, <3>1, SubsetOfSize
    <3> QED
      BY <2>2, <3>2
  <2> QED
    BY <2>1, <2>2
<1>3. /\ pool' = [h \in Handle |-> IF h \in gone THEN 0
                                   ELSE pool[h] + (IF h \in Offered(j) \ gone THEN 1 ELSE 0)]
      /\ refs' = Referenced(refs, {}, gone)
      /\ content' = [d \in Device |-> IF d \in Offered(j) \cup gone THEN None ELSE content[d]]
  BY DEF recycle_buffers, Offered
<1> HIDE DEF gone, all
<1>4. Recycled(j, gone)
  BY <1>2, <1>3 DEF Recycled, all
<1> QED
  BY <1>4

LEMMA ReferencedTyped ==
    ASSUME NEW r \in [Handle -> Nat], NEW old
    PROVE  Referenced(r, {}, old) \in [Handle -> Nat]
<1>1. \A h \in Handle : r[h] \in Nat
  OBVIOUS
<1> QED
  BY <1>1 DEF Referenced, Minus

\* A pipeline compiled for a ticket is loaded.
LEMMA CompiledLoaded ==
    ASSUME Inv, ~Explicit, NEW j \in Job, compile_pipeline(j)
    PROVE  /\ \E m \in Module : Pipeline(NextSource(j), m, 1) /\ LoadsPass(j, m)
           /\ UNCHANGED <<pool, held, leaked, dataVars, gpuVars, active, restVars>>
<1>1. /\ Loading(j) /\ CompilePipeline(NextSource(j), 1)
      /\ NextSource(j) \notin Keys(moduleCache) /\ count' = [count EXCEPT ![j] = @ + 1]
      /\ UNCHANGED <<call, phase, chain, stage, pool, held, leaked, dataVars, codeCache,
                     gpuVars, active, restVars>>
  BY DEF compile_pipeline
<1>2. call = j /\ phase[j] = "module" /\ count[j] < Len(Passes(j)) /\ Types /\ Control
  BY <1>1 DEF Loading, At, Inv
<1>3. NextSource(j) \in Source \ Keys(moduleCache)
  BY <1>1, <1>2, NextSourceTyped
<1>4. PICK m \in Module : Pipeline(NextSource(j), m, 1)
  BY <1>1, <1>3, PipelineCompiled
<1>5. loaded' = [loaded EXCEPT ![j] = Append(@, m)]
  BY <1>2, <1>4 DEF Pipeline
<1>6. phase' = [phase EXCEPT ![j] = "module"]
  BY <1>1, <1>2 DEF Types, CallTypes
<1>7. LoadsPass(j, m)
  BY <1>1, <1>2, <1>5, <1>6 DEF LoadsPass, Loaded, Continue, Goto
<1> QED
  BY <1>1, <1>4, <1>7

LEMMA MetalTicketTypes ==
    ASSUME Inv, ~Explicit, NEW j \in Job, MetalMove(j)
    PROVE  MoveTypes'
<1>1. Types /\ Control
  BY DEF Inv
<1> USE DEF MoveTypes
<1>2. ASSUME NEW c \in Chains[j], Submit(j, c, "alloc") PROVE MoveTypes'
  BY <1>1, <1>2, SubmitTypes DEF Phases, SubmitPhases
<1>3. CASE MovesOn(j)
  BY <1>3, MovesOnTypes
<1>4. CASE commit(j)
  <2>1. phase[j] # "free"
    BY <1>4 DEF commit, At
  <2>2. \A i \in DOMAIN memory[j] : memory[j][i] \in Device
    BY <2>1 DEF Inv, MetalCounted, MetalTicket
  <2>3. ToSet(memory[j]) \subseteq Device
    BY <2>2 DEF ToSet
  <2>4. ToSet(loaded[j]) \subseteq Module \cup Kernel /\ held[j] \subseteq Handle
    BY <1>1, TicketSequences DEF ToSet, Types, HandleTypes
  <2>5. Used(j) \subseteq Handle
    BY <2>3, <2>4 DEF Used, Handle
  <2>6. CallTypes' /\ GpuTypes'
    BY <1>1, <1>4, <2>5 DEF commit, Goto, Types, CallTypes, GpuTypes, Phases
  <2> QED
    BY <1>1, <1>4, <2>6 DEF commit, Types, HandleTypes, DataTypes, CodeTypes, RestTypes,
       handleVars, dataVars, codeVars, restVars
<1>5. CASE DeviceEnds(j)
  BY <1>1, <1>5, DeviceEndsTypes
<1>6. CASE metal_cached_table(j)
  <2>1. lutCache.entries[TheEntry(j)] \in Device
    BY <1>1, <1>6, CacheEntries DEF metal_cached_table, Types, DataTypes
  <2>2. memory' \in [Job -> Seq(Device \cup {None})] /\ count' \in [Job -> Nat]
    BY <1>1, <1>6, <2>1, PlacedTyped DEF metal_cached_table
  <2>3. refs' \in [Handle -> Nat]
    BY <1>1, <1>6, <2>1 DEF metal_cached_table, Types, HandleTypes, Handle
  <2> QED
    BY <1>1, <1>6, <2>2, <2>3 DEF metal_cached_table, Types, CallTypes, HandleTypes,
       DataTypes, CodeTypes, GpuTypes, RestTypes, codeVars, gpuVars, restVars
<1>7. CASE take_lookup_buffer(j)
  <2>1. PICK d \in Device : Lookup(j, d)
    BY <1>7, LookupTaken
  <2>2. memory' \in [Job -> Seq(Device \cup {None})] /\ count' \in [Job -> Nat]
    BY <1>1, <2>1, PlacedTyped DEF Lookup
  <2>3. HandleTypes' /\ content' \in [Device -> Contents] /\ IsCache(lutCache', Key, Device)
    BY <1>1, <1>7, <2>1 DEF Lookup, take_lookup_buffer, Types, HandleTypes
  <2> QED
    BY <1>1, <1>7, <2>2, <2>3 DEF take_lookup_buffer, Types, CallTypes, DataTypes,
       CodeTypes, GpuTypes, RestTypes, codeVars, gpuVars, restVars
<1>8. CASE take_shared_buffer(j)
  <2>1. PICK d \in Obtainable(Device) :
          /\ refs' = TakeBuffer(d) /\ Place(j, d) /\ Unpool({d})
          /\ content' = IF TheEntry(j) = "input"
                        THEN [content EXCEPT ![d] = <<j, stage[j] - 1>>]
                        ELSE content
    BY <1>8 DEF take_shared_buffer
  <2>2. d \in Device /\ d \in Handle /\ TakeBuffer(d) = [refs EXCEPT ![d] = 1]
        /\ pool[d] \in {0, 1}
    BY BufferTaken
  <2>3. HandleTypes'
    BY <1>1, <1>8, <2>1, <2>2, Unpooled DEF take_shared_buffer, Types, HandleTypes
  <2>4. memory' \in [Job -> Seq(Device \cup {None})] /\ count' \in [Job -> Nat]
    BY <1>1, <2>1, <2>2, PlacedTyped
  <2>5. stage[j] - 1 \in Nat
    BY <1>1, <1>8, CurrentProgram DEF take_shared_buffer, Allocating, At
  <2>6. <<j, stage[j] - 1>> \in Contents
    BY <2>5 DEF Contents
  <2>7. content' \in [Device -> Contents]
    BY <1>1, <2>1, <2>6 DEF Types, DataTypes
  <2> QED
    BY <1>1, <1>8, <2>3, <2>4, <2>7 DEF take_shared_buffer, Types, CallTypes,
       DataTypes, CodeTypes, GpuTypes, RestTypes, codeVars, gpuVars, restVars
<1>9. CASE metal_cached_pipeline(j)
  <2>1. moduleCache.entries[NextSource(j)] \in Module
    BY <1>1, <1>9, CacheEntries DEF metal_cached_pipeline, Types, CodeTypes
  <2>2. loaded' \in [Job -> Seq(Module \cup Kernel)] /\ CallTypes'
    BY <1>1, <1>9, <2>1, LoadedTyped DEF metal_cached_pipeline
  <2>3. refs' \in [Handle -> Nat]
    BY <1>1, <1>9, <2>1 DEF metal_cached_pipeline, Types, HandleTypes, Handle
  <2> QED
    BY <1>1, <1>9, <2>2, <2>3 DEF metal_cached_pipeline, Types, HandleTypes,
       DataTypes, CodeTypes, GpuTypes, RestTypes, dataVars, gpuVars, restVars
<1>10. CASE compile_pipeline(j)
  <2>1. PICK m \in Module : Pipeline(NextSource(j), m, 1) /\ LoadsPass(j, m)
    BY <1>10, CompiledLoaded
  <2>2. UNCHANGED <<pool, held, leaked, dataVars, gpuVars, active, restVars>>
    BY <1>10, CompiledLoaded
  <2>3. loaded' \in [Job -> Seq(Module \cup Kernel)] /\ CallTypes'
    BY <1>1, <2>1, LoadedTyped DEF LoadsPass
  <2>4. CodeTypes' /\ HandleTypes'
    BY <1>1, <2>1, <2>2, <2>3 DEF Pipeline, Types, HandleTypes, CodeTypes
  <2> QED
    BY <1>1, <2>2, <2>3, <2>4 DEF Types, DataTypes, GpuTypes, RestTypes, dataVars,
       gpuVars, restVars
<1>11. CASE recycle_buffers(j)
  <2>1. PICK gone : Recycled(j, gone)
    BY <1>11, BuffersRecycled
  <2>2. HandleTypes'
    BY <1>1, <1>11, <2>1, ReferencedTyped DEF recycle_buffers, Recycled, Types, HandleTypes
  <2>3. content' \in [Device -> Contents]
    BY <1>1, <2>1 DEF Recycled, Types, DataTypes, Contents
  <2>4. memory' \in [Job -> Seq(Device \cup {None})]
    BY <1>1, <1>11, BuffersErased DEF recycle_buffers, Recyclable
  <2>5. CallTypes'
    BY <1>1, <1>11 DEF recycle_buffers, Continue, Goto, Types, CallTypes, Phases
  <2> QED
    BY <1>1, <1>11, <2>2, <2>3, <2>4, <2>5 DEF recycle_buffers, Types, DataTypes,
       CodeTypes, GpuTypes, RestTypes, codeVars, gpuVars, restVars
<1>12. CASE metal_unwinds(j)
  <2>1. \E S : ReleaseAll(refs, S)
    BY <1>12 DEF metal_unwinds
  <2>2. HandleTypes'
    BY <1>1, <1>12, <2>1, ReferencedTyped DEF metal_unwinds, ReleaseAll, Types, HandleTypes
  <2>3. /\ content' \in [Device -> Contents]
        /\ made' \in [Module \cup Kernel -> Source \cup {None}]
    BY <1>1, <2>1, ScrubbedTyped DEF ReleaseAll, Scrub
  <2>4. memory' \in [Job -> Seq(Device \cup {None})]
    BY <1>1, <1>12, BuffersErased DEF metal_unwinds, Recyclable
  <2>5. CallTypes'
    BY <1>1, <1>12 DEF metal_unwinds, Continue, Goto, Types, CallTypes, Phases
  <2> QED
    BY <1>1, <1>12, <2>2, <2>3, <2>4, <2>5 DEF metal_unwinds, Types, DataTypes,
       CodeTypes, GpuTypes, RestTypes, gpuVars, restVars
<1>13. CASE MetalReleases(j)
  <2>1. refs' \in [Handle -> Nat]
    <3>1. refs' = [h \in Handle |-> Minus(refs[h], HeldReferences(j, h))]
      BY <1>13 DEF MetalReleases
    <3>2. ASSUME NEW h \in Handle PROVE Minus(refs[h], HeldReferences(j, h)) \in Nat
      <4>1. /\ Cardinality({i \in DOMAIN memory[j] : memory[j][i] = h}) \in Nat
            /\ Cardinality({i \in DOMAIN loaded[j] : loaded[j][i] = h}) \in Nat
        <5>1. ASSUME NEW n \in Nat, NEW S, S \subseteq 1 .. n PROVE Cardinality(S) \in Nat
          <6>1. IsFiniteSet(1 .. n) /\ S \in SUBSET (1 .. n)
            BY <5>1, FS_Interval
          <6> QED
            BY <6>1, FS_Subset, FS_CardinalityType
        <5>2. /\ {i \in DOMAIN memory[j] : memory[j][i] = h} \subseteq 1 .. Len(memory[j])
              /\ {i \in DOMAIN loaded[j] : loaded[j][i] = h} \subseteq 1 .. Len(loaded[j])
          BY <1>1, TicketSequences
        <5> QED
          BY <1>1, <5>1, <5>2, TicketSequences
      <4>2. refs[h] \in Nat
        BY <1>1 DEF Types, HandleTypes
      <4> QED
        BY <4>1, <4>2 DEF HeldReferences, Minus
    <3> QED
      BY <3>1, <3>2
  <2>2. /\ content' \in [Device -> Contents]
        /\ made' \in [Module \cup Kernel -> Source \cup {None}]
    BY <1>1, <1>13, ScrubbedTyped DEF MetalReleases, Scrub
  <2>3. Returns(j) /\ Forgets(j)
    BY <1>13 DEF MetalReleases
  <2>4. CallTypes'
    BY <1>1, <2>3, ReturnsTyped, ForgetsTyped DEF CallTypes
  <2>5. DataTypes' /\ RestTypes'
    BY <1>1, <1>13, <2>2, <2>3, ForgetsTyped DEF MetalReleases, Types, DataTypes, RestTypes
  <2>6. CodeTypes'
    BY <1>1, <1>13, <2>2, <2>3, ForgetsTyped DEF MetalReleases, Types, CodeTypes
  <2> QED
    BY <1>1, <1>13, <2>1, <2>4, <2>5, <2>6 DEF MetalReleases, Types, HandleTypes,
       GpuTypes, gpuVars
<1> QED
  BY <1>2, <1>3, <1>4, <1>5, <1>6, <1>7, <1>8, <1>9, <1>10, <1>11, <1>12, <1>13
  DEF MetalMove


LEMMA MetalTypes ==
    ASSUME Inv, ~Explicit, Next
    PROVE  MoveTypes'
<1>1. Types /\ Control
  BY DEF Inv
<1> USE DEF MoveTypes
<1>2. ASSUME NEW s \in Source, MetalReport(s) PROVE MoveTypes'
  <2>1. PICK m \in Module : Pipeline(s, m, 0)
    BY <1>2, PipelineCompiled DEF MetalReport
  <2>2. UNCHANGED loaded
    BY <2>1 DEF Pipeline
  <2>3. CodeTypes' /\ HandleTypes'
    BY <1>1, <1>2, <2>1, <2>2 DEF MetalReport, Pipeline, Types, HandleTypes, CodeTypes
  <2> QED
    BY <1>1, <1>2, <2>3 DEF MetalReport, Types, CallTypes, DataTypes, GpuTypes, RestTypes,
       flowVars, dataVars, gpuVars, restVars
<1>3. CASE MetalDropContext
  <2>1. refs' \in [Handle -> Nat]
    <3>1. refs \in [Handle -> Nat]
      BY <1>1 DEF Types, HandleTypes
    <3>2. Referenced(refs, {}, Pooled(Device)) \in [Handle -> Nat]
      BY <3>1, ReferencedTyped
    <3> QED
      BY <1>3, <3>2, ReferencedTyped DEF MetalDropContext
  <2>2. HandleTypes'
    BY <1>1, <1>3, <2>1 DEF MetalDropContext, Types, HandleTypes
  <2>3. content' \in [Device -> Contents]
        /\ made' \in [Module \cup Kernel -> Source \cup {None}]
    BY <1>1, <1>3, ScrubbedTyped DEF MetalDropContext, Scrub
  <2>4. IsCache(lutCache', Key, Device) /\ IsCache(moduleCache', Source, Module)
    BY <1>3, EmptyIsCache DEF MetalDropContext
  <2> QED
    BY <1>1, <1>3, <2>2, <2>3, <2>4 DEF MetalDropContext, Types, CallTypes, DataTypes,
       CodeTypes, GpuTypes, RestTypes, flowVars, gpuVars
<1> QED
  BY <1>2, <1>3, MetalMoves, MetalTicketTypes

LEMMA MetalFlow ==
    ASSUME Inv, ~Explicit, NEW j \in Job, MetalMove(j)
    PROVE  Flow(j)' /\ Turn(j) /\ UNCHANGED clearing
<1>1. Types /\ Control /\ Flow(j) /\ j # None /\ MetalTicket(j)
  BY NativeAssumption DEF Inv, Control, MetalCounted
<1>2. ASSUME NEW c \in Chains[j], Submit(j, c, "alloc")
      PROVE  Flow(j)' /\ Turn(j) /\ UNCHANGED clearing
  BY <1>2, SubmitFlow
<1>3. CASE MovesOn(j)
  BY <1>3, PassageFlow
<1>4. CASE commit(j)
  <2>1. /\ call = j /\ call' = None /\ phase[j] = "module" /\ phase'[j] = "pending"
        /\ count[j] = Len(Passes(j))
        /\ UNCHANGED <<chain, stage, count, memory, pending, loaded, resident, moduleCache,
                       clearing>>
    BY <1>1, <1>4 DEF commit, At, Goto, Types, CallTypes, dataVars, codeVars, restVars
  <2>2. Plan(j)' = Plan(j) /\ Passes(j)' = Passes(j)
    BY <2>1 DEF Plan, Passes, TheProgram
  <2> QED
    BY <1>1, <2>1, <2>2 DEF Flow, Allocated, LoadedAll, Turn
<1>5. CASE DeviceEnds(j)
  BY <1>5, DeviceEndsFlow
<1>6. CASE metal_cached_table(j) \/ take_lookup_buffer(j) \/ take_shared_buffer(j)
  <2>1. PICK d \in Device : Place(j, d)
    <3>1. CASE metal_cached_table(j)
      BY <1>1, <3>1, CacheEntries DEF metal_cached_table, Types, DataTypes
    <3>2. CASE take_lookup_buffer(j)
      BY <3>2, LookupTaken DEF Lookup
    <3>3. CASE take_shared_buffer(j)
      BY <3>3, BufferTaken DEF take_shared_buffer
    <3> QED
      BY <1>6, <3>1, <3>2, <3>3
  <2>2. /\ Allocating(j) /\ UNCHANGED <<call, phase, chain, stage, loaded, clearing>>
        /\ pending' = pending
    BY <1>6 DEF metal_cached_table, take_lookup_buffer, take_shared_buffer, codeVars, restVars
  <2>3. Turn(j)
    BY <2>2 DEF Turn, Allocating, At
  <2> QED
    BY <1>1, <2>1, <2>2, <2>3, AllocFlow
<1>7. CASE metal_cached_pipeline(j) \/ compile_pipeline(j)
  <2>1. /\ \E h \in Module \cup Kernel : LoadsPass(j, h)
        /\ UNCHANGED <<memory, pending, clearing>>
    <3>1. CASE metal_cached_pipeline(j)
      <4>1. moduleCache.entries[NextSource(j)] \in Module
        BY <1>1, <3>1, CacheEntries DEF metal_cached_pipeline, Types, CodeTypes
      <4> QED
        BY <3>1, <4>1 DEF metal_cached_pipeline, Loading, At, LoadsPass, dataVars, restVars
    <3>2. CASE compile_pipeline(j)
      BY <3>2, CompiledLoaded DEF dataVars, restVars
    <3> QED
      BY <1>7, <3>1, <3>2
  <2>2. PICK h \in Module \cup Kernel : LoadsPass(j, h)
    BY <2>1
  <2>3. Turn(j)
    BY <2>2 DEF Turn, LoadsPass, Loaded, Continue
  <2> QED
    BY <1>1, <2>1, <2>2, <2>3, LoadFlow
<1>8. CASE recycle_buffers(j) \/ metal_unwinds(j)
  <2>1. /\ phase[j] \in {"tables", "drop", "unwind"} /\ phase'[j] = "free" /\ call = j
        /\ UNCHANGED <<call, chain, stage, count, pending, loaded, resident, moduleCache,
                       clearing>>
    BY <1>1, <1>8 DEF recycle_buffers, metal_unwinds, At, Continue, Goto, Types, CallTypes,
       codeVars, restVars
  <2>2. Plan(j)' = Plan(j) /\ Passes(j)' = Passes(j)
    BY <2>1 DEF Plan, Passes, TheProgram
  <2>3. Len(memory'[j]) = Len(memory[j]) /\ DOMAIN memory'[j] = DOMAIN memory[j]
    BY <1>1, <1>8, BuffersErased DEF recycle_buffers, metal_unwinds, Recyclable
  <2> QED
    BY <1>1, <2>1, <2>2, <2>3 DEF Flow, MetalTicket, Allocated, LoadedAll, Turn
<1>9. CASE MetalReleases(j)
  BY <1>1, <1>9, ReturnsFlow DEF MetalReleases, Returns, At, Turn
<1> QED
  BY <1>2, <1>3, <1>4, <1>5, <1>6, <1>7, <1>8, <1>9 DEF MetalMove

LEMMA MetalControl ==
    ASSUME Inv, ~Explicit, Next
    PROVE  Control'
<1>1. Types /\ Control
  BY DEF Inv
<1>2. ASSUME NEW j \in Job, MetalMove(j) PROVE Control'
  BY <1>1, <1>2, MetalFlow, MetalAlone, OthersFlow
<1>3. CASE MetalDropContext \/ \E s \in Source : MetalReport(s)
  <2>1. UNCHANGED <<call, phase, chain, stage, count, memory, pending, resident, clearing>>
    BY <1>3 DEF MetalDropContext, MetalReport, flowVars, dataVars, restVars
  <2>2. UNCHANGED loaded
    BY <1>3 DEF MetalDropContext, MetalReport, CompilePipeline
  <2>3. ASSUME NEW j \in Job PROVE Flow(j)'
    <3>1. Flow(j) /\ phase[j] # "compiled"
      BY <1>1 DEF Control, Inv, MetalCounted, MetalTicket
    <3>2. Plan(j)' = Plan(j) /\ Passes(j)' = Passes(j)
      BY <2>1 DEF Plan, Passes, TheProgram
    <3> QED
      BY <2>1, <2>2, <3>1, <3>2 DEF Flow
  <2> QED
    BY <1>1, <2>1, <2>3 DEF Control
<1> QED
  BY <1>2, <1>3, MetalMoves

-----------------------------------------------------------------------------
(* The references of Metal.                                                *)

\* How often the tickets have h, in both kinds of sequences.
Kept(m, l, h) == Cardinality(Occurrences(m, h)) + Cardinality(Occurrences(l, h))

LEMMA CountsOf ==
    ASSUME Inv, ~Explicit, NEW h \in Handle
    PROVE  /\ refs[h] \in Nat /\ pool[h] \in Nat /\ Cached(h) \in {0, 1}
           /\ Kept(memory, loaded, h) \in Nat
           /\ refs[h] = pool[h] + Cached(h) + Kept(memory, loaded, h)
           /\ pool[h] > 0 => h \in Device /\ pool[h] = 1 /\ refs[h] = 1
<1>1. memory \in [Job -> Seq(Device \cup {None})] /\ loaded \in [Job -> Seq(Module \cup Kernel)]
      /\ refs[h] \in Nat /\ pool[h] \in Nat
  BY DEF Inv, Types, DataTypes, CodeTypes, HandleTypes
<1>2. Cardinality(Occurrences(memory, h)) \in Nat /\ Cardinality(Occurrences(loaded, h)) \in Nat
  BY <1>1, OccurrencesCount
<1>3. Counted(h)
  BY DEF Inv, MetalCounted
<1> QED
  BY <1>1, <1>2, <1>3 DEF Counted, Cached, Kept

SequencesTyped ==
    /\ memory \in [Job -> Seq(Device \cup {None})]
    /\ loaded \in [Job -> Seq(Module \cup Kernel)]

LEMMA CountedNext ==
    ASSUME SequencesTyped', NEW h \in Handle, pool'[h] \in Nat,
           refs'[h] = pool'[h] + Cached(h)' + Kept(memory', loaded', h),
           pool'[h] > 0 => h \in Device /\ pool'[h] = 1 /\ refs'[h] = 1
    PROVE  Counted(h)'
<1>1. Cardinality(Occurrences(memory', h)) \in Nat /\ Cardinality(Occurrences(loaded', h)) \in Nat
  BY OccurrencesCount DEF SequencesTyped
<1>2. Cached(h)' \in {0, 1}
  BY DEF Cached
<1> QED
  BY <1>1, <1>2 DEF Counted, Kept

\* Nothing changes for h.
LEMMA SameCounted ==
    ASSUME Inv, ~Explicit, SequencesTyped', NEW h \in Handle,
           refs'[h] = refs[h], pool'[h] = pool[h], Shared' = Shared,
           Kept(memory', loaded', h) = Kept(memory, loaded, h)
    PROVE  Counted(h)'
  BY CountsOf, CountedNext DEF Cached

\* A reference more to what is cached.
LEMMA RetainedCounted ==
    ASSUME Inv, ~Explicit, SequencesTyped', NEW d \in Handle, d \in Shared,
           NEW h \in Handle, pool'[h] = pool[h], Shared' = Shared,
           refs'[h] = refs[h] + (IF h = d THEN 1 ELSE 0),
           Kept(memory', loaded', h) =
              Kept(memory, loaded, h) + (IF h = d THEN 1 ELSE 0)
    PROVE  Counted(h)'
<1>1. /\ refs[h] \in Nat /\ pool[h] \in Nat /\ Cached(h) \in {0, 1}
      /\ Kept(memory, loaded, h) \in Nat
      /\ refs[h] = pool[h] + Cached(h) + Kept(memory, loaded, h)
      /\ pool[h] > 0 => h \in Device /\ pool[h] = 1 /\ refs[h] = 1
  BY CountsOf
<1>2. h = d => Cached(h) = 1
  BY DEF Cached
<1>3. Cached(h)' = Cached(h)
  BY DEF Cached
<1>4. refs'[h] = pool'[h] + Cached(h)' + Kept(memory', loaded', h)
  BY <1>1, <1>3
<1>5. pool'[h] > 0 => h \in Device /\ pool'[h] = 1 /\ refs'[h] = 1
  BY <1>1, <1>2
<1> QED
  BY <1>1, <1>4, <1>5, CountedNext

\* A handle that was unused is taken and perhaps cached; what the cache gives
\* up is released.
LEMMA InsertionCounted ==
    ASSUME Inv, ~Explicit, SequencesTyped', NEW m \in Handle, m \notin Shared,
           NEW own \in {0, 1}, NEW old, NEW new, NEW rest,
           Shared = old \cup rest, old \cap rest = {}, new \subseteq old \cup {m},
           Shared' = new \cup rest, NEW h \in Handle,
           refs'[h] = Counts(h, m, own, old, new),
           pool'[h] = IF h = m THEN 0 ELSE pool[h],
           h = m => Kept(memory, loaded, h) = 0,
           Kept(memory', loaded', h) =
              Kept(memory, loaded, h) + (IF h = m THEN own ELSE 0)
    PROVE  Counted(h)'
<1>1. /\ refs[h] \in Nat /\ pool[h] \in Nat /\ Cached(h) \in {0, 1}
      /\ Kept(memory, loaded, h) \in Nat
      /\ refs[h] = pool[h] + Cached(h) + Kept(memory, loaded, h)
      /\ pool[h] > 0 => h \in Device /\ pool[h] = 1 /\ refs[h] = 1
  BY CountsOf
<1>2. CASE h = m
  <2>1. Cached(h)' = IF m \in new THEN 1 ELSE 0
    BY <1>2 DEF Cached
  <2>2. refs'[h] = own + Cached(h)' /\ Cached(h)' \in {0, 1}
    BY <1>2, <2>1 DEF Counts
  <2> QED
    BY <1>1, <1>2, <2>2, CountedNext
<1>3. CASE h # m /\ h \in old \ new
  <2>1. Cached(h) = 1 /\ Cached(h)' = 0 /\ refs'[h] = refs[h] - 1
    BY <1>3 DEF Cached, Counts
  <2> QED
    BY <1>1, <1>3, <2>1, CountedNext
<1>4. CASE h # m /\ h \notin old \ new
  <2>1. Cached(h)' = Cached(h) /\ refs'[h] = refs[h]
    BY <1>4 DEF Cached, Counts
  <2> QED
    BY <1>1, <1>4, <2>1, CountedNext
<1> QED
  BY <1>2, <1>3, <1>4

\* A handle keeps its reference and stays out of the pool.
Spared(h) == refs'[h] = refs[h] /\ pool'[h] = pool[h]

\* The tickets but j, when their own buffers are spared.
LEMMA OthersMetal ==
    ASSUME Inv, ~Explicit, NEW j \in Job, Others(j), NEW i \in Job \ {j},
           \A l : Transient(i, l) /\ phase[i] # "free" => Spared(memory[i][l])
    PROVE  MetalTicket(i)'
<1>1. /\ phase'[i] = phase[i] /\ held'[i] = held[i] /\ memory'[i] = memory[i]
      /\ pending'[i] = pending[i] /\ resident'[i] = resident[i]
      /\ stage'[i] = stage[i] /\ chain'[i] = chain[i]
  BY DEF Others
<1>2. Plan(i)' = Plan(i)
  BY <1>1 DEF Plan, TheProgram
<1>3. MetalTicket(i)
  BY DEF Inv, MetalCounted
<1>4. \A l : Transient(i, l)' <=> Transient(i, l)
  BY <1>1, <1>2 DEF Transient
<1>5. ASSUME NEW l \in DOMAIN memory[i]
      PROVE  IF Transient(i, l)' /\ phase'[i] = "free" THEN memory'[i][l] = None
             ELSE /\ memory'[i][l] \in Device
                  /\ Transient(i, l)' => /\ refs'[memory'[i][l]] = 1
                                         /\ pool'[memory'[i][l]] = 0
  BY <1>1, <1>3, <1>4, <1>5 DEF MetalTicket, Spared
<1> QED
  BY <1>1, <1>3, <1>5 DEF MetalTicket

\* The ticket that gets one more buffer.
LEMMA PlacedMetal ==
    ASSUME Inv, ~Explicit, NEW j \in Job, Allocating(j), NEW d \in Device, Place(j, d),
           UNCHANGED <<phase, chain, stage, held, pending, resident>>,
           \A l : Transient(j, l) => Spared(memory[j][l]),
           TheEntry(j) \notin Key => refs'[d] = 1 /\ pool'[d] = 0
    PROVE  MetalTicket(j)'
<1>1. Types /\ Control /\ MetalTicket(j) /\ phase[j] = "alloc"
  BY DEF Inv, MetalCounted, Allocating, At
<1> DEFINE n == Len(memory[j]) + 1
<1>2. /\ DOMAIN memory'[j] = DOMAIN memory[j] \cup {n}
      /\ memory'[j][n] = d
      /\ \A i \in DOMAIN memory[j] : memory'[j][i] = memory[j][i]
  BY <1>1, Placed
<1>3. TheEntry(j) = Plan(j)[n]
  BY <1>1, EntryTyped
<1> HIDE DEF n
<1>4. Plan(j)' = Plan(j)
  BY DEF Plan, TheProgram
<1>5. ASSUME NEW l \in DOMAIN memory'[j]
      PROVE  /\ memory'[j][l] \in Device
             /\ Transient(j, l)' => /\ refs'[memory'[j][l]] = 1
                                    /\ pool'[memory'[j][l]] = 0
  <2>1. CASE l = n
    BY <1>2, <1>3, <1>4, <2>1 DEF Transient
  <2>2. CASE l \in DOMAIN memory[j]
    <3>1. Transient(j, l)' <=> Transient(j, l)
      BY <1>2, <1>4, <2>2 DEF Transient
    <3> QED
      BY <1>1, <1>2, <2>2, <3>1 DEF MetalTicket, Spared
  <2> QED
    BY <1>2, <2>1, <2>2
<1> QED
  BY <1>1, <1>5 DEF MetalTicket

\* The ticket whose buffers stay what they are.
LEMMA SameMetal ==
    ASSUME Inv, ~Explicit, NEW j \in Job,
           UNCHANGED <<chain, stage, held, pending, resident, memory>>,
           \A l : Transient(j, l) => Spared(memory[j][l]),
           phase'[j] \notin {"queue", "compiled", "launch", "dropQueue"},
           phase'[j] = "free" <=> phase[j] = "free"
    PROVE  MetalTicket(j)'
<1>1. MetalTicket(j)
  BY DEF Inv, MetalCounted
<1>2. \A l : Transient(j, l)' <=> Transient(j, l)
  BY DEF Transient, Plan, TheProgram
<1> QED
  BY <1>1, <1>2 DEF MetalTicket, Spared

\* One more buffer, in the counts.
LEMMA PlacedKept ==
    ASSUME Inv, NEW j \in Job, NEW d \in Device, Place(j, d), UNCHANGED loaded, NEW h
    PROVE  Kept(memory', loaded', h) =
              Kept(memory, loaded, h) + (IF h = d THEN 1 ELSE 0)
<1>1. memory \in [Job -> Seq(Device \cup {None})] /\ loaded \in [Job -> Seq(Module \cup Kernel)]
  BY DEF Inv, Types, DataTypes, CodeTypes
<1>2. Appended(Device \cup {None}, memory, memory', j, d)
  BY <1>1 DEF Place, Appended
<1>3. Cardinality(Occurrences(memory', h)) =
         Cardinality(Occurrences(memory, h)) + (IF h = d THEN 1 ELSE 0)
  BY <1>1, <1>2, OccurrencesAppended
<1>4. Cardinality(Occurrences(memory, h)) \in Nat /\ Cardinality(Occurrences(loaded, h)) \in Nat
  BY <1>1, OccurrencesCount
<1> QED
  BY <1>3, <1>4 DEF Kept

\* One more pass, in the counts.
LEMMA LoadedKept ==
    ASSUME Inv, NEW j \in Job, NEW m \in Module, loaded' = [loaded EXCEPT ![j] = Append(@, m)],
           UNCHANGED memory, NEW h
    PROVE  Kept(memory', loaded', h) =
              Kept(memory, loaded, h) + (IF h = m THEN 1 ELSE 0)
<1>1. memory \in [Job -> Seq(Device \cup {None})] /\ loaded \in [Job -> Seq(Module \cup Kernel)]
  BY DEF Inv, Types, DataTypes, CodeTypes
<1>2. Appended(Module \cup Kernel, loaded, loaded', j, m)
  BY <1>1 DEF Appended
<1>3. Cardinality(Occurrences(loaded', h)) =
         Cardinality(Occurrences(loaded, h)) + (IF h = m THEN 1 ELSE 0)
  BY <1>1, <1>2, OccurrencesAppended
<1>4. Cardinality(Occurrences(memory, h)) \in Nat /\ Cardinality(Occurrences(loaded, h)) \in Nat
  BY <1>1, OccurrencesCount
<1> QED
  BY <1>3, <1>4 DEF Kept

\* The values of the two caches are of two kinds.
LEMMA SharedApart ==
    ASSUME Inv
    PROVE  /\ Values(lutCache) \subseteq Device /\ Values(moduleCache) \subseteq Module
           /\ Values(lutCache) \cap Values(moduleCache) = {}
           /\ Shared \subseteq Handle
<1>1. Values(lutCache) \subseteq Device /\ Values(moduleCache) \subseteq Module
  BY CacheEntries DEF Inv, Types, DataTypes, CodeTypes
<1> QED
  BY <1>1, NativeAssumption DEF Shared, Handle

\* What a step has to keep.
MetalKept ==
    /\ \A h \in Handle : Counted(h)
    /\ OneKeyEach(lutCache) /\ OneKeyEach(moduleCache)
    /\ \A j \in Job : MetalTicket(j)

\* Steps that leave the handles alone.
LEMMA QuietMetal ==
    ASSUME Inv, ~Explicit, SequencesTyped', NEW j \in Job,
           \/ \E c \in Chains[j] : Submit(j, c, "alloc")
           \/ MovesOn(j) \/ commit(j) \/ DeviceEnds(j)
    PROVE  MetalKept'
<1>1. Types /\ Control /\ MetalTicket(j) /\ MetalCounted
  BY DEF Inv, MetalCounted
<1>2. UNCHANGED <<refs, pool, memory, loaded, held, pending, resident, lutCache, moduleCache>>
  BY DEF Submit, MovesOn, commit, DeviceEnds, handleVars, dataVars, codeVars
<1>3. ASSUME NEW h \in Handle PROVE Counted(h)'
  <2>1. Shared' = Shared
    BY <1>2 DEF Shared, Values, Keys
  <2> QED
    BY <1>2, <2>1, SameCounted
<1>4. OneKeyEach(lutCache') /\ OneKeyEach(moduleCache')
  BY <1>1, <1>2 DEF MetalCounted
<1>5. Others(j)
  BY <1>1, MetalAlone DEF MetalMove
<1>6. ASSUME NEW i \in Job \ {j} PROVE MetalTicket(i)'
  <2>1. \A l : Transient(i, l) /\ phase[i] # "free" => Spared(memory[i][l])
    BY <1>2 DEF Spared
  <2> QED
    BY <1>5, <2>1, OthersMetal
<1>7. MetalTicket(j)'
  <2>1. \A l : Transient(j, l) => Spared(memory[j][l])
    BY <1>2 DEF Spared
  <2>2. ASSUME NEW c \in Chains[j], Submit(j, c, "alloc") PROVE MetalTicket(j)'
    <3>1. phase[j] = "idle" /\ phase'[j] = "alloc"
      BY <1>1, <2>2 DEF Submit, Goto, Types, CallTypes
    <3>2. memory[j] = << >>
      BY <1>1, <3>1 DEF Control, Flow
    <3>3. DOMAIN memory'[j] = {}
      BY <1>2, <3>2
    <3> QED
      BY <1>1, <1>2, <3>1, <3>3 DEF MetalTicket
  <2>3. CASE MovesOn(j)
    <3>1. PICK q \in Phases, n \in Nat : Passage(j, q, n) /\ phase' = [phase EXCEPT ![j] = q]
      BY <2>3 DEF MovesOn
    <3>2. phase'[j] = q
      BY <1>1, <3>1 DEF Types, CallTypes
    <3>3. /\ q \notin {"queue", "compiled", "launch", "dropQueue", "free"}
          /\ phase[j] # "free"
      BY <1>1, <3>1 DEF Passage, MetalTicket, SubmitPhases
    <3>4. UNCHANGED <<chain, stage>>
      BY <2>3 DEF MovesOn
    <3> QED
      BY <1>2, <2>1, <3>2, <3>3, <3>4, SameMetal
  <2>4. CASE commit(j)
    <3>1. phase[j] = "module" /\ phase'[j] = "pending" /\ UNCHANGED <<chain, stage>>
      BY <1>1, <2>4 DEF commit, At, Goto, Types, CallTypes
    <3> QED
      BY <1>2, <2>1, <3>1, SameMetal
  <2>5. CASE DeviceEnds(j)
    <3>1. UNCHANGED <<phase, chain, stage>>
      BY <2>5 DEF DeviceEnds, flowVars
    <3> QED
      BY <1>1, <1>2, <2>1, <3>1, SameMetal DEF MetalTicket
  <2> QED
    BY <2>2, <2>3, <2>4, <2>5
<1> QED
  BY <1>3, <1>4, <1>6, <1>7 DEF MetalKept

LEMMA CachedTableMetal ==
    ASSUME Inv, ~Explicit, SequencesTyped', NEW j \in Job, metal_cached_table(j)
    PROVE  MetalKept'
<1> DEFINE d == lutCache.entries[TheEntry(j)]
<1>1. Types /\ Control /\ MetalCounted
  BY DEF Inv
<1>2. /\ Allocating(j) /\ TheEntry(j) \in Keys(lutCache) /\ Place(j, d)
      /\ refs' = [refs EXCEPT ![d] = @ + 1] /\ Others(j)
      /\ UNCHANGED <<phase, chain, stage, pool, held, leaked, pending, resident, lutCache,
                     loaded, moduleCache>>
  BY <1>1, MetalAlone DEF metal_cached_table, MetalMove, codeVars
<1>3. d \in Device /\ d \in Values(lutCache) /\ TheEntry(j) \in Key
  BY <1>1, <1>2, CacheEntries DEF Types, DataTypes
<1>4. d \in Handle /\ d \in Shared
  BY <1>3 DEF Handle, Shared
<1> HIDE DEF d
<1>5. \A h \in Handle : refs'[h] = refs[h] + (IF h = d THEN 1 ELSE 0) /\ pool'[h] = pool[h]
  BY <1>1, <1>2, <1>4 DEF Types, HandleTypes
<1>6. ASSUME NEW h \in Handle PROVE Counted(h)'
  <2>1. Shared' = Shared
    BY <1>2 DEF Shared, Values, Keys
  <2>2. Kept(memory', loaded', h) = Kept(memory, loaded, h) + (IF h = d THEN 1 ELSE 0)
    BY <1>2, <1>3, PlacedKept
  <2> QED
    BY <1>4, <1>5, <2>1, <2>2, RetainedCounted
<1>7. ASSUME NEW i \in Job, NEW l, Transient(i, l), phase[i] # "free"
      PROVE  Spared(memory[i][l])
  <2>1. memory[i][l] \in Device /\ memory[i][l] \notin Shared
        /\ refs[memory[i][l]] = 1
    BY <1>7, SoleUse
  <2>2. memory[i][l] \in Handle /\ memory[i][l] # d
    BY <1>4, <2>1 DEF Handle
  <2> QED
    BY <1>5, <2>1, <2>2 DEF Spared
<1>8. ASSUME NEW i \in Job \ {j} PROVE MetalTicket(i)'
  BY <1>2, <1>7, OthersMetal
<1>9. MetalTicket(j)'
  <2>1. phase[j] # "free"
    BY <1>2 DEF Allocating, At
  <2> QED
    BY <1>2, <1>3, <1>7, <2>1, PlacedMetal
<1>10. OneKeyEach(lutCache') /\ OneKeyEach(moduleCache')
  BY <1>1, <1>2 DEF MetalCounted
<1> QED
  BY <1>6, <1>8, <1>9, <1>10 DEF MetalKept

LEMMA BufferTakenMetal ==
    ASSUME Inv, ~Explicit, SequencesTyped', NEW j \in Job,
           take_lookup_buffer(j) \/ take_shared_buffer(j)
    PROVE  MetalKept'
<1>1. Types /\ Control /\ MetalCounted
  BY DEF Inv
<1>2. /\ Allocating(j) /\ Others(j)
      /\ UNCHANGED <<phase, chain, stage, held, leaked, pending, resident, loaded, moduleCache>>
  BY <1>1, MetalAlone DEF take_lookup_buffer, take_shared_buffer, MetalMove, codeVars
<1>3. PICK d \in Device :
        /\ d \notin Shared /\ Place(j, d) /\ OneKeyEach(lutCache')
        /\ Occurrences(memory, d) = {} /\ Occurrences(loaded, d) = {}
        /\ \A h \in Handle : /\ refs'[h] = Counts(h, d, 1, Values(lutCache), Values(lutCache'))
                             /\ pool'[h] = IF h = d THEN 0 ELSE pool[h]
        /\ Values(lutCache') \subseteq Values(lutCache) \cup {d}
        /\ TheEntry(j) \notin Key => refs'[d] = 1
  <2>1. CASE take_lookup_buffer(j)
    <3>1. PICK d \in Device : Lookup(j, d)
      BY <2>1, LookupTaken
    <3>2. \A h \in Handle : pool'[h] = IF h = d THEN 0 ELSE pool[h]
      BY <1>1, <3>1 DEF Lookup, Types, HandleTypes
    <3> QED
      BY <2>1, <3>1, <3>2 DEF Lookup, take_lookup_buffer
  <2>2. CASE take_shared_buffer(j)
    <3>1. PICK d \in Obtainable(Device) : refs' = TakeBuffer(d) /\ Place(j, d) /\ Unpool({d})
      BY <2>2 DEF take_shared_buffer
    <3>2. /\ d \in Device /\ d \in Handle /\ d \notin Shared
          /\ Occurrences(memory, d) = {} /\ Occurrences(loaded, d) = {}
          /\ TakeBuffer(d) = [refs EXCEPT ![d] = 1] /\ pool[d] \in {0, 1}
      BY BufferTaken
    <3>3. pool' = [pool EXCEPT ![d] = 0]
      BY <3>1, <3>2, Unpooled
    <3>4. lutCache' = lutCache /\ OneKeyEach(lutCache) /\ d \notin Values(lutCache)
      BY <1>1, <2>2, <3>2 DEF take_shared_buffer, MetalCounted, Shared
    <3>5. \A h \in Handle : /\ refs'[h] = IF h = d THEN 1 ELSE refs[h]
                            /\ pool'[h] = IF h = d THEN 0 ELSE pool[h]
      BY <1>1, <3>1, <3>2, <3>3 DEF Types, HandleTypes
    <3>6. \A h \in Handle : Counts(h, d, 1, Values(lutCache), Values(lutCache')) =
                            IF h = d THEN 1 ELSE refs[h]
      BY <3>4 DEF Counts
    <3> QED
      BY <3>1, <3>2, <3>4, <3>5, <3>6
  <2> QED
    BY <2>1, <2>2
<1>4. d \in Handle
  BY DEF Handle
<1>5. ASSUME NEW h \in Handle PROVE Counted(h)'
  <2>1. /\ Shared = Values(lutCache) \cup Values(moduleCache)
        /\ Shared' = Values(lutCache') \cup Values(moduleCache)
    BY <1>2 DEF Shared
  <2>2. Values(lutCache) \cap Values(moduleCache) = {}
    BY SharedApart
  <2>3. Kept(memory', loaded', h) = Kept(memory, loaded, h) + (IF h = d THEN 1 ELSE 0)
    BY <1>2, <1>3, PlacedKept
  <2>4. h = d => Kept(memory, loaded, h) = 0
    BY <1>3, FS_EmptySet DEF Kept
  <2>5. Counts(h, d, 1, Values(lutCache), Values(lutCache')) = refs'[h]
        /\ pool'[h] = IF h = d THEN 0 ELSE pool[h]
    BY <1>3
  <2> QED
    BY <1>3, <1>4, <2>1, <2>2, <2>3, <2>4, <2>5, InsertionCounted
<1>6. ASSUME NEW i \in Job, NEW l, Transient(i, l), phase[i] # "free"
      PROVE  Spared(memory[i][l])
  <2>1. /\ memory[i][l] \in Device /\ memory[i][l] \notin Shared
        /\ Occurrences(memory, memory[i][l]) = {<<i, l>>}
    BY <1>6, SoleUse
  <2>2. memory[i][l] \in Handle /\ memory[i][l] # d /\ memory[i][l] \notin Values(lutCache)
    BY <1>3, <2>1 DEF Handle, Shared
  <2> QED
    BY <1>3, <2>2 DEF Spared, Counts
<1>7. ASSUME NEW i \in Job \ {j} PROVE MetalTicket(i)'
  BY <1>2, <1>6, OthersMetal
<1>8. MetalTicket(j)'
  <2>1. phase[j] # "free"
    BY <1>2 DEF Allocating, At
  <2>2. TheEntry(j) \notin Key => refs'[d] = 1 /\ pool'[d] = 0
    BY <1>3, <1>4
  <2> QED
    BY <1>2, <1>3, <1>6, <2>1, <2>2, PlacedMetal
<1>9. OneKeyEach(moduleCache')
  BY <1>1, <1>2 DEF MetalCounted
<1> QED
  BY <1>3, <1>5, <1>7, <1>8, <1>9 DEF MetalKept

\* Buffers are no pipelines.
LEMMA TransientSpared ==
    ASSUME Inv, ~Explicit, NEW i \in Job, NEW l, Transient(i, l), phase[i] # "free",
           \A h \in Device \ Shared : Spared(h)
    PROVE  Spared(memory[i][l])
  BY SoleUse

LEMMA CachedPipelineMetal ==
    ASSUME Inv, ~Explicit, SequencesTyped', NEW j \in Job, metal_cached_pipeline(j)
    PROVE  MetalKept'
<1> DEFINE m == moduleCache.entries[NextSource(j)]
<1>1. Types /\ Control /\ MetalCounted
  BY DEF Inv
<1>2. /\ Loading(j) /\ NextSource(j) \in Keys(moduleCache) /\ Loaded(j, m)
      /\ refs' = [refs EXCEPT ![m] = @ + 1] /\ Others(j)
      /\ UNCHANGED <<chain, stage, pool, held, leaked, pending, resident, memory, lutCache,
                     moduleCache>>
  BY <1>1, MetalAlone DEF metal_cached_pipeline, MetalMove, Loaded, Continue, dataVars
<1>3. m \in Module /\ m \in Values(moduleCache)
  BY <1>1, <1>2, CacheEntries DEF Types, CodeTypes
<1>4. m \in Handle /\ m \in Shared
  BY <1>3 DEF Handle, Shared
<1> HIDE DEF m
<1>5. \A h \in Handle : refs'[h] = refs[h] + (IF h = m THEN 1 ELSE 0) /\ pool'[h] = pool[h]
  BY <1>1, <1>2, <1>4 DEF Types, HandleTypes
<1>6. ASSUME NEW h \in Handle PROVE Counted(h)'
  <2>1. Shared' = Shared
    BY <1>2 DEF Shared, Values, Keys
  <2>2. loaded' = [loaded EXCEPT ![j] = Append(@, m)]
    BY <1>2 DEF Loaded
  <2>3. Kept(memory', loaded', h) = Kept(memory, loaded, h) + (IF h = m THEN 1 ELSE 0)
    BY <1>2, <1>3, <2>2, LoadedKept
  <2> QED
    BY <1>4, <1>5, <2>1, <2>3, RetainedCounted
<1>7. \A h \in Device \ Shared : Spared(h)
  <2>1. \A h \in Device \ Shared : h \in Handle /\ refs[h] \in Nat
    BY <1>1 DEF Handle, Types, HandleTypes
  <2> QED
    BY <1>4, <1>5, <2>1 DEF Spared
<1>8. ASSUME NEW i \in Job \ {j} PROVE MetalTicket(i)'
  BY <1>2, <1>7, TransientSpared, OthersMetal
<1>9. phase[j] = "module" /\ phase'[j] = "module"
  BY <1>1, <1>2 DEF Loading, At, Loaded, Continue, Goto, Types, CallTypes
<1>10. MetalTicket(j)'
  BY <1>2, <1>7, <1>9, TransientSpared, SameMetal
<1>11. OneKeyEach(lutCache') /\ OneKeyEach(moduleCache')
  BY <1>1, <1>2 DEF MetalCounted
<1> QED
  BY <1>6, <1>8, <1>10, <1>11 DEF MetalKept

\* Compiling a pipeline, in the counts.
LEMMA PipelineCounted ==
    ASSUME Inv, ~Explicit, SequencesTyped', NEW s, NEW m, NEW own \in {0, 1},
           Pipeline(s, m, own), UNCHANGED <<pool, memory, lutCache>>,
           own = 1 => call \in Job
    PROVE  /\ \A h \in Handle : Counted(h)'
           /\ OneKeyEach(lutCache') /\ OneKeyEach(moduleCache')
           /\ \A h \in Device \ Shared : Spared(h)
<1>1. /\ m \in Module /\ New(m) /\ m \notin Shared
      /\ refs' = [h \in Handle |-> Counts(h, m, own, Values(moduleCache), Values(moduleCache'))]
      /\ OneKeyEach(moduleCache')
      /\ Values(moduleCache') \subseteq Values(moduleCache) \cup {m}
      /\ loaded' = IF own = 0 THEN loaded ELSE [loaded EXCEPT ![call] = Append(@, m)]
  BY DEF Pipeline
<1>2. m \in Handle /\ m \notin Device
  BY <1>1, NativeAssumption DEF Handle
<1>3. /\ refs[m] = 0 /\ pool[m] = 0 /\ Occurrences(memory, m) = {} /\ Occurrences(loaded, m) = {}
  BY <1>1, <1>2, Unused DEF Available, New
<1>4. ASSUME NEW h \in Handle PROVE Counted(h)'
  <2>1. /\ Shared = Values(moduleCache) \cup Values(lutCache)
        /\ Shared' = Values(moduleCache') \cup Values(lutCache)
        /\ Values(moduleCache) \cap Values(lutCache) = {}
    BY SharedApart DEF Shared
  <2>2. Kept(memory', loaded', h) = Kept(memory, loaded, h) + (IF h = m THEN own ELSE 0)
    <3>1. CASE own = 0
      BY <1>1, <3>1, CountsOf DEF Kept
    <3>2. CASE own = 1
      <4>1. call \in Job /\ loaded' = [loaded EXCEPT ![call] = Append(@, m)]
        BY <1>1, <3>2
      <4>2. \A x : Kept(memory', loaded', x) =
                      Kept(memory, loaded, x) + (IF x = m THEN 1 ELSE 0)
        BY <1>1, <4>1, LoadedKept
      <4> QED
        BY <3>2, <4>2
    <3> QED
      BY <3>1, <3>2
  <2>3. h = m => Kept(memory, loaded, h) = 0
    BY <1>3, FS_EmptySet DEF Kept
  <2>4. refs'[h] = Counts(h, m, own, Values(moduleCache), Values(moduleCache'))
        /\ pool'[h] = IF h = m THEN 0 ELSE pool[h]
    BY <1>1, <1>3
  <2> QED
    BY <1>1, <1>2, <2>1, <2>2, <2>3, <2>4, InsertionCounted
<1>5. OneKeyEach(lutCache')
  BY DEF Inv, MetalCounted
<1>6. \A h \in Device \ Shared : Spared(h)
  <2>1. ASSUME NEW h \in Device \ Shared PROVE refs'[h] = refs[h]
    <3>1. h \in Handle /\ h # m /\ h \notin Values(moduleCache)
      BY <1>2 DEF Handle, Shared
    <3> QED
      BY <1>1, <3>1 DEF Counts
  <2> QED
    BY <2>1 DEF Spared
<1> QED
  BY <1>1, <1>4, <1>5, <1>6

LEMMA CompiledMetal ==
    ASSUME Inv, ~Explicit, SequencesTyped', NEW j \in Job, compile_pipeline(j)
    PROVE  MetalKept'
<1>1. PICK m \in Module : Pipeline(NextSource(j), m, 1) /\ LoadsPass(j, m)
  BY CompiledLoaded
<1>2. /\ call = j /\ Others(j) /\ phase[j] = "module" /\ phase'[j] = "module"
      /\ UNCHANGED <<chain, stage, pool, held, leaked, pending, resident, memory, lutCache>>
  BY <1>1, MetalAlone DEF compile_pipeline, Loading, At, MetalMove, Inv, Types, CallTypes, dataVars
<1>3. /\ \A h \in Handle : Counted(h)'
      /\ OneKeyEach(lutCache') /\ OneKeyEach(moduleCache')
      /\ \A h \in Device \ Shared : Spared(h)
  BY <1>1, <1>2, PipelineCounted
<1>4. ASSUME NEW i \in Job \ {j} PROVE MetalTicket(i)'
  BY <1>2, <1>3, TransientSpared, OthersMetal
<1>5. MetalTicket(j)'
  BY <1>2, <1>3, TransientSpared, SameMetal
<1> QED
  BY <1>3, <1>4, <1>5 DEF MetalKept

LEMMA ReportMetal ==
    ASSUME Inv, ~Explicit, SequencesTyped', NEW s \in Source, MetalReport(s)
    PROVE  MetalKept'
<1>1. PICK m \in Module : Pipeline(s, m, 0)
  BY PipelineCompiled DEF MetalReport
<1>2. UNCHANGED <<phase, chain, stage, pool, held, leaked, pending, resident, memory, lutCache>>
  BY DEF MetalReport, flowVars, dataVars
<1>3. /\ \A h \in Handle : Counted(h)'
      /\ OneKeyEach(lutCache') /\ OneKeyEach(moduleCache')
      /\ \A h \in Device \ Shared : Spared(h)
  BY <1>1, <1>2, PipelineCounted
<1>4. ASSUME NEW i \in Job PROVE MetalTicket(i)'
  <2>1. MetalTicket(i)
    BY DEF Inv, MetalCounted
  <2>2. \A l : Transient(i, l)' <=> Transient(i, l)
    BY <1>2 DEF Transient, Plan, TheProgram
  <2>3. \A l : Transient(i, l) /\ phase[i] # "free" => Spared(memory[i][l])
    BY <1>3, TransientSpared
  <2> QED
    BY <1>2, <2>1, <2>2, <2>3 DEF MetalTicket, Spared
<1> QED
  BY <1>3, <1>4 DEF MetalKept

LEMMA DropsMetal ==
    ASSUME Inv, ~Explicit, SequencesTyped', MetalDropContext
    PROVE  MetalKept'
<1>1. /\ \A j \in Job : phase[j] = "idle"
      /\ refs' = Referenced(Referenced(refs, {}, Pooled(Device)), {}, Shared)
      /\ pool' = [h \in Handle |-> 0]
      /\ lutCache' = EmptyCache /\ moduleCache' = EmptyCache
      /\ UNCHANGED <<phase, chain, stage, held, leaked, memory, pending, resident, loaded>>
  BY DEF MetalDropContext, Shared, flowVars
<1>2. \A j \in Job : memory[j] = << >> /\ loaded[j] = << >>
  BY <1>1 DEF Inv, Control, Flow
<1>3. Keys(EmptyCache) = {} /\ Values(EmptyCache) = {}
  BY EmptyIsCache DEF Values
<1>4. ASSUME NEW h \in Handle PROVE Counted(h)'
  <2>1. Kept(memory, loaded, h) = 0 /\ Kept(memory', loaded', h) = 0
    BY <1>1, <1>2, OccurrencesNone DEF Kept
  <2>2. /\ refs[h] \in Nat /\ pool[h] \in Nat /\ Cached(h) \in {0, 1}
        /\ refs[h] = pool[h] + Cached(h)
        /\ pool[h] > 0 => h \in Device /\ pool[h] = 1 /\ refs[h] = 1
    BY <2>1, CountsOf
  <2>3. Cached(h)' = 0
    BY <1>1, <1>3 DEF Cached, Shared
  <2>4. refs'[h] = Minus(Minus(refs[h] + 0, IF h \in Pooled(Device) THEN 1 ELSE 0) + 0,
                         IF h \in Shared THEN 1 ELSE 0)
    BY <1>1 DEF Referenced
  <2>5. h \in Pooled(Device) <=> pool[h] > 0
    BY <2>2 DEF Pooled
  <2>6. refs'[h] = 0
    BY <2>2, <2>4, <2>5 DEF Minus, Cached
  <2>7. pool'[h] = 0
    BY <1>1
  <2> QED
    BY <2>1, <2>3, <2>6, <2>7, CountedNext
<1>5. ASSUME NEW i \in Job PROVE MetalTicket(i)'
  <2>1. MetalTicket(i) /\ DOMAIN memory'[i] = {}
    BY <1>1, <1>2 DEF Inv, MetalCounted
  <2> QED
    BY <1>1, <2>1 DEF MetalTicket
<1>6. OneKeyEach(lutCache') /\ OneKeyEach(moduleCache')
  BY <1>1, <1>3 DEF OneKeyEach
<1> QED
  BY <1>4, <1>5, <1>6 DEF MetalKept

\* A ticket gives up its own buffers: `gone` lose their reference, and what
\* else it had is pooled.
GivesUp(j, gone) ==
    /\ phase[j] \notin {"idle", "free"} /\ phase'[j] = "free" /\ Others(j)
    /\ gone \subseteq Pooled(Device) \cup Offered(j)
    /\ \A h \in Handle :
          /\ refs'[h] = Minus(refs[h], IF h \in gone THEN 1 ELSE 0)
          /\ pool'[h] = IF h \in gone THEN 0
                        ELSE pool[h] + (IF h \in Offered(j) \ gone THEN 1 ELSE 0)
    /\ memory' = [memory EXCEPT ![j] =
                     [i \in DOMAIN memory[j] |->
                        IF i \in Recyclable(j) THEN None ELSE memory[j][i]]]
    /\ UNCHANGED <<chain, stage, held, pending, resident, loaded, lutCache, moduleCache>>

LEMMA GivenUpMetal ==
    ASSUME Inv, ~Explicit, SequencesTyped', NEW j \in Job, NEW gone, GivesUp(j, gone)
    PROVE  MetalKept'
<1>1. Types /\ MetalCounted /\ MetalTicket(j)
  BY DEF Inv, MetalCounted
<1> DEFINE R == Recyclable(j)
<1>2. /\ R \in SUBSET DOMAIN memory[j]
      /\ \A i \in R : Transient(j, i) /\ memory[j][i] \in Offered(j)
      /\ \A i \in DOMAIN memory[j] \ R : ~Transient(j, i)
  BY DEF Recyclable, Tables, Transient, Offered
<1>3. memory' = [memory EXCEPT ![j] =
                    [i \in DOMAIN memory[j] |-> IF i \in R THEN None ELSE memory[j][i]]]
  BY DEF GivesUp
<1> HIDE DEF R
<1>4. /\ DOMAIN memory'[j] = DOMAIN memory[j]
      /\ \A i \in DOMAIN memory[j] : memory'[j][i] = IF i \in R THEN None ELSE memory[j][i]
  BY <1>1, <1>2, <1>3, BuffersErased
<1>5. ASSUME NEW h, h \in Offered(j)
      PROVE  /\ h \in Device /\ refs[h] = 1 /\ pool[h] = 0 /\ h \notin Shared
             /\ Occurrences(loaded, h) = {}
             /\ \E i \in R : h = memory[j][i] /\ Occurrences(memory, h) = {<<j, i>>}
  <2>1. PICK i \in R : h = memory[j][i]
    BY <1>5 DEF Offered, R
  <2> QED
    BY <1>2, <2>1, SoleUse DEF GivesUp
<1>6. ASSUME NEW h \in Handle
      PROVE  Occurrences(memory', h) = {p \in Occurrences(memory, h) : ~(p[1] = j /\ p[2] \in R)}
  <2>1. memory'[j] = [i \in DOMAIN memory[j] |-> IF i \in R THEN None ELSE memory[j][i]]
    BY <1>1, <1>3 DEF Types, DataTypes
  <2>2. \A i \in Job \ {j} : memory'[i] = memory[i]
    BY <1>1, <1>3 DEF Types, DataTypes
  <2>3. h # None
    BY NativeAssumption
  <2> QED
    BY <1>2, <2>1, <2>2, <2>3, OccurrencesErased
<1>7. Shared' = Shared
  BY DEF GivesUp, Shared, Values, Keys
<1>8. ASSUME NEW h \in Handle PROVE Counted(h)'
  <2>1. /\ refs'[h] = Minus(refs[h], IF h \in gone THEN 1 ELSE 0)
        /\ pool'[h] = IF h \in gone THEN 0
                      ELSE pool[h] + (IF h \in Offered(j) \ gone THEN 1 ELSE 0)
        /\ gone \subseteq Pooled(Device) \cup Offered(j) /\ loaded' = loaded
    BY DEF GivesUp
  <2>2. Cached(h)' = Cached(h)
    BY <1>7 DEF Cached
  <2>3. CASE h \in Offered(j)
    <3>1. PICK i \in R : h = memory[j][i] /\ Occurrences(memory, h) = {<<j, i>>}
      BY <1>5, <2>3
    <3>2. \A p \in Occurrences(memory, h) : p[1] = j /\ p[2] \in R
      BY <3>1
    <3>3. Occurrences(memory', h) = {} /\ Occurrences(loaded', h) = {}
      BY <1>5, <1>6, <2>1, <2>3, <3>2
    <3>4. Kept(memory', loaded', h) = 0
      BY <3>3, FS_EmptySet DEF Kept
    <3>5. Cached(h)' = 0 /\ refs[h] = 1 /\ pool[h] = 0 /\ h \in Device
      BY <1>5, <2>2, <2>3 DEF Cached
    <3>6. refs'[h] = pool'[h] /\ pool'[h] \in {0, 1}
      BY <2>1, <2>3, <3>5 DEF Minus
    <3> QED
      BY <3>4, <3>5, <3>6, CountedNext
  <2>4. CASE h \notin Offered(j)
    <3>1. \A p \in Occurrences(memory, h) : ~(p[1] = j /\ p[2] \in R)
      <4>1. ASSUME NEW p \in Occurrences(memory, h), p[1] = j, p[2] \in R PROVE FALSE
        <5>1. PICK i \in Job : \E l \in DOMAIN memory[i] : p = <<i, l>> /\ memory[i][l] = h
          BY OccurrenceIn
        <5>2. PICK l \in DOMAIN memory[i] : p = <<i, l>> /\ memory[i][l] = h
          BY <5>1
        <5>3. i = j /\ l \in R
          BY <4>1, <5>2
        <5> QED
          BY <1>2, <2>4, <5>2, <5>3
      <4> QED
        BY <4>1
    <3>2. Occurrences(memory', h) = Occurrences(memory, h)
      BY <1>6, <3>1
    <3>3. Kept(memory', loaded', h) = Kept(memory, loaded, h)
      BY <2>1, <3>2 DEF Kept
    <3>4. /\ refs[h] \in Nat /\ pool[h] \in Nat /\ Cached(h) \in {0, 1}
          /\ Kept(memory, loaded, h) \in Nat
          /\ refs[h] = pool[h] + Cached(h) + Kept(memory, loaded, h)
          /\ pool[h] > 0 => h \in Device /\ pool[h] = 1 /\ refs[h] = 1
      BY CountsOf
    <3>5. CASE h \in gone
      <4>1. pool[h] = 1 /\ refs[h] = 1
        BY <2>1, <2>4, <3>4, <3>5 DEF Pooled
      <4>2. refs'[h] = 0 /\ pool'[h] = 0
        BY <2>1, <3>5, <4>1 DEF Minus
      <4> QED
        BY <2>2, <3>3, <3>4, <4>1, <4>2, CountedNext
    <3>6. CASE h \notin gone
      <4>1. refs'[h] = refs[h] /\ pool'[h] = pool[h]
        BY <2>1, <2>4, <3>4, <3>6 DEF Minus
      <4> QED
        BY <1>7, <3>3, <4>1, SameCounted
    <3> QED
      BY <3>5, <3>6
  <2> QED
    BY <2>3, <2>4
<1>9. ASSUME NEW i \in Job \ {j} PROVE MetalTicket(i)'
  <2>1. ASSUME NEW l, Transient(i, l), phase[i] # "free" PROVE Spared(memory[i][l])
    <3> DEFINE h == memory[i][l]
    <3>1. h \in Device /\ refs[h] = 1 /\ pool[h] = 0 /\ Occurrences(memory, h) = {<<i, l>>}
      BY <2>1, SoleUse
    <3> HIDE DEF h
    <3>2. ASSUME h \in Offered(j) PROVE FALSE
      <4>1. PICK x \in R : Occurrences(memory, h) = {<<j, x>>}
        BY <1>5, <3>2
      <4>2. <<i, l>> = <<j, x>>
        BY <3>1, <4>1
      <4> QED
        BY <4>2
    <3>3. h \notin gone /\ h \in Handle
      BY <3>1, <3>2 DEF GivesUp, Pooled, Handle
    <3>4. refs'[h] = Minus(refs[h], 0) /\ pool'[h] = pool[h] + 0
      BY <3>2, <3>3 DEF GivesUp
    <3>5. Spared(h)
      BY <3>1, <3>4 DEF Spared, Minus
    <3> QED
      BY <3>5 DEF h
  <2> QED
    BY <2>1, OthersMetal DEF GivesUp
<1>10. MetalTicket(j)'
  <2>1. \A i : Transient(j, i)' <=> Transient(j, i)
    BY <1>4 DEF GivesUp, Transient, Plan, TheProgram
  <2>2. ASSUME NEW i \in DOMAIN memory[j]
        PROVE  IF Transient(j, i)' THEN memory'[j][i] = None ELSE memory'[j][i] \in Device
    <3>1. CASE i \in R
      BY <1>2, <1>4, <2>1, <3>1
    <3>2. CASE i \notin R
      <4>1. ~Transient(j, i) /\ memory[j][i] \in Device
        BY <1>1, <1>2, <3>2 DEF MetalTicket
      <4> QED
        BY <1>4, <2>1, <3>2, <4>1
    <3> QED
      BY <3>1, <3>2
  <2>3. \A i \in DOMAIN memory'[j] :
           IF Transient(j, i)' /\ phase'[j] = "free" THEN memory'[j][i] = None
           ELSE memory'[j][i] \in Device /\ ~Transient(j, i)'
    BY <1>4, <2>2 DEF GivesUp
  <2> QED
    BY <1>1, <2>3 DEF GivesUp, MetalTicket
<1>11. OneKeyEach(lutCache') /\ OneKeyEach(moduleCache')
  BY <1>1 DEF GivesUp, MetalCounted
<1> QED
  BY <1>8, <1>9, <1>10, <1>11 DEF MetalKept

LEMMA RecycledMetal ==
    ASSUME Inv, ~Explicit, SequencesTyped', NEW j \in Job,
           recycle_buffers(j) \/ metal_unwinds(j)
    PROVE  MetalKept'
<1>1. Types /\ MetalTicket(j)
  BY DEF Inv, MetalCounted
<1>2. Others(j)
  BY <1>1, MetalAlone DEF MetalMove
<1>3. /\ phase[j] \in {"tables", "drop", "unwind"} /\ phase'[j] = "free"
      /\ memory' = [memory EXCEPT ![j] =
                       [i \in DOMAIN memory[j] |->
                          IF i \in Recyclable(j) THEN None ELSE memory[j][i]]]
      /\ UNCHANGED <<chain, stage, held, pending, resident, loaded, lutCache, moduleCache>>
  BY <1>1 DEF recycle_buffers, metal_unwinds, At, Continue, Goto, codeVars, Types, CallTypes
<1>4. ASSUME NEW gone, refs' = Referenced(refs, {}, gone)
      PROVE  \A h \in Handle : refs'[h] = Minus(refs[h], IF h \in gone THEN 1 ELSE 0)
  <2>1. \A h \in Handle : refs[h] \in Nat
    BY <1>1 DEF Types, HandleTypes
  <2> QED
    BY <1>4, <2>1 DEF Referenced
<1>5. CASE recycle_buffers(j)
  <2>1. PICK gone : Recycled(j, gone)
    BY <1>5, BuffersRecycled
  <2>2. GivesUp(j, gone)
    BY <1>2, <1>3, <1>4, <2>1 DEF Recycled, GivesUp
  <2> QED
    BY <2>2, GivenUpMetal
<1>6. CASE metal_unwinds(j)
  <2>1. refs' = Referenced(refs, {}, Offered(j)) /\ UNCHANGED pool
    BY <1>6 DEF metal_unwinds, ReleaseAll, Offered
  <2>2. ASSUME NEW h \in Handle
        PROVE  pool'[h] = IF h \in Offered(j) THEN 0 ELSE pool[h]
    <3>1. ASSUME h \in Offered(j) PROVE pool[h] = 0
      <4>1. PICK i \in Recyclable(j) : h = memory[j][i]
        BY <3>1 DEF Offered
      <4> QED
        BY <1>3, <4>1, SoleUse DEF Recyclable, Tables, Transient
    <3> QED
      BY <2>1, <3>1
  <2>3. \A h \in Handle : pool[h] \in Nat
    BY <1>1 DEF Types, HandleTypes
  <2>4. GivesUp(j, Offered(j))
    BY <1>2, <1>3, <1>4, <2>1, <2>2, <2>3 DEF GivesUp
  <2> QED
    BY <2>4, GivenUpMetal
<1> QED
  BY <1>5, <1>6

LEMMA ReleasesMetal ==
    ASSUME Inv, ~Explicit, SequencesTyped', NEW j \in Job, MetalReleases(j)
    PROVE  MetalKept'
<1>1. Types /\ MetalCounted /\ MetalTicket(j) /\ j # None /\ SequencesTyped
  BY NativeAssumption DEF Inv, MetalCounted, Types, DataTypes, CodeTypes, SequencesTyped
<1>2. /\ refs' = [h \in Handle |-> Minus(refs[h], HeldReferences(j, h))]
      /\ memory' = [memory EXCEPT ![j] = << >>] /\ loaded' = [loaded EXCEPT ![j] = << >>]
      /\ phase'[j] = "idle" /\ pending' = [pending EXCEPT ![j] = {}]
      /\ UNCHANGED <<pool, held, resident, lutCache, moduleCache>>
  BY <1>1 DEF MetalReleases, Returns, Forgets, Goto, Types, CallTypes
<1>3. Others(j)
  BY <1>1, MetalAlone DEF MetalMove
<1>4. /\ memory'[j] = << >> /\ \A i \in Job \ {j} : memory'[i] = memory[i]
      /\ loaded'[j] = << >> /\ \A i \in Job \ {j} : loaded'[i] = loaded[i]
  BY <1>1, <1>2 DEF SequencesTyped
<1>5. Shared' = Shared
  BY <1>2 DEF Shared, Values, Keys
<1> DEFINE D == Device \cup {None}
           M == Module \cup Kernel
<1>6. Forgotten(D, memory, memory', j) /\ Forgotten(M, loaded, loaded', j)
  BY <1>1, <1>4 DEF SequencesTyped, Forgotten
<1> HIDE DEF D, M
<1>7. ASSUME NEW h \in Handle
      PROVE  /\ Kept(memory, loaded, h) = Kept(memory', loaded', h) + HeldReferences(j, h)
             /\ Kept(memory', loaded', h) \in Nat /\ HeldReferences(j, h) \in Nat
  <2> DEFINE m == Cardinality({i \in DOMAIN memory[j] : memory[j][i] = h})
             l == Cardinality({i \in DOMAIN loaded[j] : loaded[j][i] = h})
  <2>1. /\ Cardinality(Occurrences(memory, h)) = Cardinality(Occurrences(memory', h)) + m
        /\ Cardinality(Occurrences(memory', h)) \in Nat /\ m \in Nat
    BY <1>6, OccurrencesForgotten
  <2>2. /\ Cardinality(Occurrences(loaded, h)) = Cardinality(Occurrences(loaded', h)) + l
        /\ Cardinality(Occurrences(loaded', h)) \in Nat /\ l \in Nat
    BY <1>6, OccurrencesForgotten
  <2>3. HeldReferences(j, h) = m + l
    BY DEF HeldReferences
  <2> HIDE DEF m, l
  <2> QED
    BY <2>1, <2>2, <2>3 DEF Kept
<1>8. ASSUME NEW h \in Handle PROVE Counted(h)'
  <2>1. /\ refs[h] \in Nat /\ pool[h] \in Nat /\ Cached(h) \in {0, 1}
        /\ refs[h] = pool[h] + Cached(h) + Kept(memory, loaded, h)
        /\ pool[h] > 0 => h \in Device /\ pool[h] = 1 /\ refs[h] = 1
    BY CountsOf
  <2>2. Cached(h)' = Cached(h) /\ pool'[h] = pool[h]
        /\ refs'[h] = Minus(refs[h], HeldReferences(j, h))
    BY <1>2, <1>5 DEF Cached
  <2>3. refs'[h] = pool'[h] + Cached(h)' + Kept(memory', loaded', h)
    BY <1>7, <2>1, <2>2 DEF Minus
  <2>4. pool'[h] > 0 => h \in Device /\ pool'[h] = 1 /\ refs'[h] = 1
    BY <1>7, <2>1, <2>2, <2>3
  <2> QED
    BY <2>1, <2>2, <2>3, <2>4, CountedNext
<1>9. ASSUME NEW i \in Job \ {j} PROVE MetalTicket(i)'
  <2>1. ASSUME NEW l, Transient(i, l), phase[i] # "free" PROVE Spared(memory[i][l])
    <3> DEFINE h == memory[i][l]
    <3>1. /\ h \in Device /\ refs[h] = 1 /\ Occurrences(memory, h) = {<<i, l>>}
          /\ Occurrences(loaded, h) = {}
      BY <2>1, SoleUse
    <3> HIDE DEF h
    <3>2. {x \in DOMAIN memory[j] : memory[j][x] = h} = {}
      <4>1. ASSUME NEW x \in DOMAIN memory[j], memory[j][x] = h PROVE FALSE
        <5>1. <<j, x>> \in Occurrences(memory, h)
          BY <4>1, OccurrenceIn
        <5> QED
          BY <3>1, <5>1
      <4> QED
        BY <4>1
    <3>3. {x \in DOMAIN loaded[j] : loaded[j][x] = h} = {}
      <4>1. ASSUME NEW x \in DOMAIN loaded[j], loaded[j][x] = h PROVE FALSE
        <5>1. <<j, x>> \in Occurrences(loaded, h)
          BY <4>1, OccurrenceIn
        <5> QED
          BY <3>1, <5>1
      <4> QED
        BY <4>1
    <3>4. HeldReferences(j, h) = 0
      BY <3>2, <3>3, FS_EmptySet DEF HeldReferences
    <3>5. refs'[h] = 1 /\ pool'[h] = pool[h]
      BY <1>2, <3>1, <3>4 DEF Minus, Handle
    <3> QED
      BY <3>1, <3>5 DEF Spared, h
  <2> QED
    BY <1>3, <2>1, OthersMetal
<1>10. MetalTicket(j)'
  <2>1. DOMAIN memory'[j] = {} /\ pending'[j] = {}
    BY <1>1, <1>2, <1>4 DEF Types, DataTypes
  <2> QED
    BY <1>1, <1>2, <2>1 DEF MetalTicket
<1>11. OneKeyEach(lutCache') /\ OneKeyEach(moduleCache')
  BY <1>1, <1>2 DEF MetalCounted
<1> QED
  BY <1>8, <1>9, <1>10, <1>11 DEF MetalKept

LEMMA MetalKeeps ==
    ASSUME Inv, ~Explicit, Next
    PROVE  Inv'
<1>1. Types /\ Control /\ MetalCounted
  BY DEF Inv
<1>2. FreeTypes' /\ UNCHANGED backend
  BY <1>1, FreeTypesKept
<1>3. MoveTypes' /\ Control'
  BY MetalTypes, MetalControl
<1>4. SequencesTyped'
  BY <1>3 DEF MoveTypes, DataTypes, CodeTypes, SequencesTyped
<1>5. MetalKept'
  <2>1. ASSUME NEW j \in Job, MetalMove(j) PROVE MetalKept'
    BY <1>4, <2>1, QuietMetal, CachedTableMetal, BufferTakenMetal, CachedPipelineMetal,
       CompiledMetal, RecycledMetal, ReleasesMetal DEF MetalMove
  <2> QED
    BY <1>4, <2>1, MetalMoves, ReportMetal, DropsMetal
<1>6. leaked' = leaked /\ clearing' = clearing
  <2>1. ASSUME NEW j \in Job, MetalMove(j) PROVE leaked' = leaked /\ clearing' = clearing
    <3>1. clearing' = clearing
      BY <2>1, MetalFlow
    <3>2. CASE \/ \E c \in Chains[j] : Submit(j, c, "alloc")
               \/ MovesOn(j) \/ commit(j) \/ DeviceEnds(j)
      BY <3>1, <3>2 DEF Submit, MovesOn, commit, DeviceEnds, handleVars
    <3>3. CASE \/ metal_cached_table(j) \/ take_lookup_buffer(j) \/ take_shared_buffer(j)
               \/ metal_cached_pipeline(j) \/ compile_pipeline(j)
      BY <3>1, <3>3 DEF metal_cached_table, take_lookup_buffer, take_shared_buffer,
         metal_cached_pipeline, compile_pipeline
    <3>4. CASE recycle_buffers(j) \/ metal_unwinds(j) \/ MetalReleases(j)
      BY <3>1, <3>4 DEF recycle_buffers, metal_unwinds, MetalReleases
    <3> QED
      BY <2>1, <3>1, <3>2, <3>3, <3>4 DEF MetalMove
  <2>2. CASE MetalDropContext \/ \E s \in Source : MetalReport(s)
    BY <2>2 DEF MetalDropContext, MetalReport, restVars
  <2> QED
    BY <2>1, <2>2, MetalMoves
<1>7. MetalCounted' /\ ~Explicit'
  BY <1>1, <1>2, <1>5, <1>6 DEF MetalCounted, MetalKept, Explicit
<1> QED
  BY <1>2, <1>3, <1>7 DEF Inv, Types, MoveTypes

-----------------------------------------------------------------------------
(* The invariant.                                                          *)

LEMMA EmptyAtFirst ==
    ASSUME NativeInit
    PROVE  /\ Keys(lutCache) = {} /\ Keys(moduleCache) = {} /\ Shared = {}
           /\ IsCache(lutCache, Key, Device) /\ IsCache(moduleCache, Source, Module)
           /\ IsCache(codeCache, Source, {"compiled", "restored"})
           /\ \A j \in Job : memory[j] = << >> /\ loaded[j] = << >>
           /\ \A j \in Job : DOMAIN memory[j] = {} /\ Len(memory[j]) = 0 /\ Len(loaded[j]) = 0
<1>1. \A j \in Job : memory[j] = << >> /\ loaded[j] = << >>
  BY DEF NativeInit, Init
<1>2. lutCache = EmptyCache /\ moduleCache = EmptyCache /\ codeCache = EmptyCache
  BY DEF NativeInit, Init
<1>3. Keys(EmptyCache) = {} /\ Values(EmptyCache) = {}
  BY EmptyIsCache DEF Values
<1>4. \A j \in Job : DOMAIN memory[j] = {} /\ Len(memory[j]) = 0 /\ Len(loaded[j]) = 0
  BY <1>1, EmptySeq
<1>5. /\ IsCache(lutCache, Key, Device) /\ IsCache(moduleCache, Source, Module)
      /\ IsCache(codeCache, Source, {"compiled", "restored"})
  BY <1>2, EmptyIsCache
<1> QED
  BY <1>1, <1>2, <1>3, <1>4, <1>5 DEF Shared

LEMMA InitInv ==
    ASSUME NativeInit
    PROVE  Inv
<1> USE DEF NativeInit, Init
<1>1. << >> \in Seq(Program) /\ << >> \in Seq(Device \cup {None})
      /\ << >> \in Seq(Module \cup Kernel) /\ << >> \in Seq(PoolNames)
  BY EmptySeq
<1>2. None \in Contents /\ None \notin Job /\ Maint # None /\ MaxFaults \in Nat
  BY NativeAssumption DEF Contents
<1>3. Types
  <2>1. CallTypes /\ HandleTypes
    BY <1>1 DEF CallTypes, HandleTypes, Phases
  <2>2. DataTypes /\ CodeTypes
    BY <1>1, <1>2, EmptyAtFirst DEF DataTypes, CodeTypes
  <2>3. GpuTypes /\ RestTypes /\ FreeTypes
    BY <1>1, <1>2, EmptyAtFirst DEF GpuTypes, RestTypes, FreeTypes
  <2> QED
    BY <2>1, <2>2, <2>3 DEF Types
<1>4. Control
  BY <1>2, EmptyAtFirst DEF Control, Flow, Allocated, LoadedAll
<1>5. ExplicitOwned
  <2>1. \A h \in Handle : OnePlace(h)
    BY EmptyAtFirst DEF OnePlace
  <2>2. OneKeyEach(lutCache) /\ OneKeyEach(moduleCache)
    BY EmptyAtFirst DEF OneKeyEach
  <2>3. ASSUME NEW j \in Job PROVE TicketOwns(j) /\ Backed(j)
    BY EmptyAtFirst DEF TicketOwns, Backed, Working, Allocated, Loads
  <2> QED
    BY <2>1, <2>2, <2>3 DEF ExplicitOwned, Ownership
<1>6. MetalCounted
  <2>1. \A h \in Handle : Counted(h)
    BY EmptyAtFirst, OccurrencesNone DEF Counted, Cached
  <2>2. OneKeyEach(lutCache) /\ OneKeyEach(moduleCache)
    BY EmptyAtFirst DEF OneKeyEach
  <2>3. \A j \in Job : MetalTicket(j)
    BY EmptyAtFirst DEF MetalTicket
  <2> QED
    BY <2>1, <2>2, <2>3 DEF MetalCounted
<1> QED
  BY <1>3, <1>4, <1>5, <1>6 DEF Inv

LEMMA StillInv ==
    ASSUME Inv, UNCHANGED vars
    PROVE  Inv'
<1> USE DEF vars, nativeVars, flowVars, handleVars, dataVars, codeVars, gpuVars, restVars
<1>1. Types'
  BY DEF Inv, Types, CallTypes, HandleTypes, DataTypes, CodeTypes, GpuTypes, RestTypes,
     FreeTypes, IsCache
<1>2. ASSUME NEW j \in Job
      PROVE  /\ Plan(j)' = Plan(j) /\ Passes(j)' = Passes(j) /\ NextSource(j)' = NextSource(j)
             /\ \A i : Transient(j, i)' <=> Transient(j, i)
  BY DEF Plan, Passes, TheProgram, NextSource, Index, Transient
<1>3. Control'
  <2>1. ASSUME NEW j \in Job PROVE Flow(j)'
    BY <1>2 DEF Inv, Control, Flow
  <2> QED
    BY <2>1 DEF Inv, Control
<1>4. Shared' = Shared /\ Explicit' = Explicit
  BY DEF Shared, Explicit
<1>5. CASE Explicit
  <2>1. Ownership'
    BY <1>4, <1>5 DEF Inv, ExplicitOwned, Ownership, OnePlace
  <2>2. ASSUME NEW j \in Job PROVE TicketOwns(j)' /\ Backed(j)'
    <3>1. TicketOwns(j) /\ Backed(j)
      BY <1>5 DEF Inv, ExplicitOwned
    <3> QED
      BY <1>2, <3>1 DEF TicketOwns, Backed
  <2> QED
    BY <1>1, <1>3, <1>4, <1>5, <2>1, <2>2 DEF Inv, ExplicitOwned
<1>6. CASE ~Explicit
  <2>1. ASSUME NEW h \in Handle PROVE Counted(h)'
    BY <1>4, <1>6 DEF Inv, MetalCounted, Counted, Cached
  <2>2. ASSUME NEW j \in Job PROVE MetalTicket(j)'
    <3>1. MetalTicket(j)
      BY <1>6 DEF Inv, MetalCounted
    <3> QED
      BY <1>2, <3>1 DEF MetalTicket
  <2> QED
    BY <1>1, <1>3, <1>4, <1>6, <2>1, <2>2 DEF Inv, MetalCounted
<1> QED
  BY <1>5, <1>6

-----------------------------------------------------------------------------
(* active_submissions.                                                     *)

\* One more of j if it is counted now, one less if it was.
OneFor(b) == IF b THEN 1 ELSE 0

LEMMA CountChanges ==
    ASSUME NEW A \in SUBSET Job, NEW B \in SUBSET Job, NEW j \in Job,
           \A i \in Job \ {j} : i \in A <=> i \in B
    PROVE  Cardinality(B) = Cardinality(A) + OneFor(j \in B) - OneFor(j \in A)
<1>1. IsFiniteSet(A) /\ IsFiniteSet(B) /\ Cardinality(A) \in Nat /\ Cardinality(B) \in Nat
  BY NativeAssumption, FS_Subset, FS_CardinalityType
<1>2. CASE j \in A <=> j \in B
  <2>1. A = B
    BY <1>2
  <2> QED
    BY <1>1, <2>1 DEF OneFor
<1>3. CASE j \in B /\ j \notin A
  <2>1. B = A \cup {j}
    BY <1>3
  <2> QED
    BY <1>1, <1>3, <2>1, FS_AddElement DEF OneFor
<1>4. CASE j \in A /\ j \notin B
  <2>1. A = B \cup {j}
    BY <1>4
  <2>2. Cardinality(A) = Cardinality(B) + 1
    BY <1>1, <1>4, <2>1, FS_AddElement
  <2> QED
    BY <1>1, <1>4, <2>2 DEF OneFor
<1> QED
  BY <1>2, <1>3, <1>4

\* What a move of ticket j does to the counter.
Balanced(j) ==
    /\ active' = active + OneFor(IsActive(j)') - OneFor(IsActive(j))
    /\ backend = "OpenCl" /\ phase'[j] \in Loads => held'[j] \cap Queue # {}

LEMMA TicketActive ==
    ASSUME Inv, Explicit, ActiveInv, NEW j \in Job, TicketMove(j), UNCHANGED backend
    PROVE  Balanced(j)
<1>1. Types /\ Control /\ TicketOwns(j) /\ active \in Int
  BY DEF Inv, ExplicitOwned, Types, RestTypes
<1>2. backend = "OpenCl" /\ phase[j] \in Loads => held[j] \cap Queue # {}
  BY DEF ActiveInv
<1>3. Device \cap Queue = {} /\ (Module \cup Kernel) \cap Queue = {} /\ None \notin Queue
  BY NativeAssumption DEF Handle
<1>4. ASSUME UNCHANGED active, phase'[j] \in Accepted <=> phase[j] \in Accepted,
             held'[j] \cap Queue = held[j] \cap Queue, phase'[j] \in Loads => phase[j] \in Loads
      PROVE  Balanced(j)
  <2>1. IsActive(j)' <=> IsActive(j)
    BY <1>4 DEF IsActive
  <2> QED
    BY <1>1, <1>2, <1>4, <2>1 DEF Balanced, OneFor
<1>5. ASSUME UNCHANGED active, phase[j] \in Accepted, phase'[j] \in Accepted
      PROVE  Balanced(j)
  <2>1. IsActive(j)' <=> IsActive(j)
    BY <1>5 DEF IsActive
  <2>2. phase'[j] \notin Loads
    BY <1>5 DEF Accepted, Loads
  <2> QED
    BY <1>1, <1>5, <2>1, <2>2 DEF Balanced, OneFor
<1>6. ASSUME NEW c \in Chains[j], Submit(j, c, "queue") PROVE Balanced(j)
  <2>1. phase[j] = "idle" /\ phase'[j] = "queue" /\ UNCHANGED <<active, held>>
    BY <1>1, <1>6 DEF Submit, Goto, Types, CallTypes, handleVars
  <2> QED
    BY <1>4, <2>1 DEF Accepted, Loads
<1>7. CASE TakesQueue(j)
  <2>1. PICK q \in Queue : Obtains(j, q)
    BY <1>7 DEF TakesQueue
  <2>2. /\ phase[j] = "queue" /\ phase'[j] = "alloc" /\ held'[j] = held[j] \cup {q}
        /\ active' = IF backend = "OpenCl" THEN active + 1 ELSE active
    BY <1>1, <1>7, <2>1 DEF TakesQueue, Obtains, At, Continue, Goto, Types, CallTypes, HandleTypes
  <2>3. held[j] \cap Queue = {}
    <3>1. held[j] \subseteq {resident[j]} /\ resident[j] \in Device \cup {None}
      BY <1>1, <2>2 DEF TicketOwns, Types, DataTypes
    <3> QED
      BY <1>3, <3>1
  <2>4. ~IsActive(j) /\ (IsActive(j)' <=> backend = "OpenCl")
    BY <2>1, <2>2, <2>3 DEF IsActive, Accepted
  <2> QED
    BY <1>1, <2>1, <2>2, <2>4 DEF Balanced, OneFor
<1>8. CASE cached_table(j) \/ take_resident(j) \/ launch(j) \/ DeviceEnds(j)
  <2>1. UNCHANGED <<phase, held, active>>
    BY <1>8 DEF cached_table, take_resident, launch, DeviceEnds, handleVars, flowVars
  <2> QED
    BY <1>4, <2>1
<1>9. CASE Uploads(j) \/ TakesTransient(j)
  <2>1. PICK d \in Device : Obtains(j, d)
    BY <1>9 DEF Uploads, TakesTransient
  <2>2. UNCHANGED <<phase, active>> /\ held'[j] = held[j] \cup {d}
    BY <1>1, <1>9, <2>1 DEF Uploads, TakesTransient, Obtains, Types, HandleTypes
  <2> QED
    BY <1>3, <1>4, <2>2
<1>10. CASE MovesOn(j)
  <2>1. PICK q \in Phases, n \in Nat :
          /\ Passage(j, q, n) /\ phase' = [phase EXCEPT ![j] = q]
          /\ active' = IF backend = "Hip" /\ phase[j] = "launch" /\ q # "unwind"
                       THEN active + 1 ELSE active
          /\ UNCHANGED held
    BY <1>10 DEF MovesOn, handleVars
  <2>2. phase'[j] = q
    BY <1>1, <2>1 DEF Types, CallTypes
  <2>3. CASE phase[j] = "launch" /\ q # "unwind"
    <3>1. q \in {"pending", "sync"}
      BY <2>1, <2>3 DEF Passage, SubmitPhases
    <3>2. /\ q \in Accepted /\ q \notin Loads /\ phase[j] \in Loads
          /\ phase[j] \notin Accepted
      BY <2>3, <3>1 DEF Accepted, Loads
    <3>3. /\ IsActive(j)' <=> backend \in {"Hip", "OpenCl"}
          /\ IsActive(j) <=> backend = "OpenCl"
      BY <1>2, <2>2, <3>2 DEF IsActive
    <3> QED
      BY <1>1, <2>1, <2>2, <2>3, <3>2, <3>3 DEF Balanced, OneFor
  <2>4. CASE ~(phase[j] = "launch" /\ q # "unwind")
    <3>1. /\ phase'[j] \in Accepted <=> phase[j] \in Accepted
          /\ phase'[j] \in Loads => phase[j] \in Loads
      BY <2>1, <2>2, <2>4 DEF Passage, Accepted, Loads, SubmitPhases
    <3> QED
      BY <1>4, <2>1, <2>4, <3>1
  <2> QED
    BY <2>3, <2>4
<1>11. CASE LoadsShared(j) \/ LoadsCached(j) \/ LoadsOwn(j)
  <2>1. PICK h \in Module \cup Kernel : LoadsPass(j, h)
    BY <1>11 DEF LoadsShared, LoadsCached, LoadsOwn, LoadsPass
  <2>2. phase[j] \in {"module", "compiled"} /\ phase'[j] = "module"
    BY <1>1, <2>1 DEF LoadsPass, Loaded, Continue, Goto, Types, CallTypes
  <2>3. UNCHANGED active /\ held'[j] \cap Queue = held[j] \cap Queue
    <3>1. CASE LoadsShared(j) \/ LoadsCached(j)
      BY <3>1 DEF LoadsShared, LoadsCached, handleVars
    <3>2. CASE LoadsOwn(j)
      <4>1. PICK x \in Module \cup Kernel : Obtains(j, x)
        BY <3>2 DEF LoadsOwn
      <4>2. held'[j] = held[j] \cup {x}
        BY <1>1, <4>1 DEF Obtains, Types, HandleTypes
      <4> QED
        BY <1>3, <3>2, <4>2 DEF LoadsOwn
    <3> QED
      BY <1>11, <3>1, <3>2
  <2> QED
    BY <1>4, <2>2, <2>3 DEF Accepted, Loads
<1>12. ASSUME NEW i \in pending[j], insert_lut(j, i) \/ FreeDuplicateFails(j, i)
       PROVE  Balanced(j)
  <2>1. phase[j] = "tables" /\ phase'[j] \in {"tables", "drop"} /\ UNCHANGED active
    BY <1>1, <1>12 DEF insert_lut, FreeDuplicateFails, At, Continue, Goto, flowVars, Types,
       CallTypes
  <2> QED
    BY <1>5, <2>1 DEF Accepted
<1>13. CASE Recycles(j)
  <2>1. phase[j] = "tables" /\ phase'[j] = "free" /\ UNCHANGED active
    BY <1>1, <1>13 DEF Recycles, recycle, At, Continue, Goto, Types, CallTypes
  <2> QED
    BY <1>5, <2>1 DEF Accepted
<1>14. CASE Ends(j)
  <2>1. CASE DropEnds(j) /\ active' = IF backend = "Cuda" THEN active ELSE active - 1
    <3>1. /\ phase[j] = "free" /\ phase'[j] \in {"queue", "idle"}
          /\ held'[j] = held[j] \cap {resident[j]}
      BY <1>1, <2>1 DEF DropEnds, At, Goto, Returns, Types, CallTypes, HandleTypes
    <3>2. held'[j] \cap Queue = {}
      BY <1>1, <1>3, <3>1 DEF Types, DataTypes
    <3>3. ~IsActive(j)' /\ (IsActive(j) <=> backend \in {"Hip", "OpenCl"})
      BY <3>1, <3>2 DEF IsActive, Accepted
    <3>4. backend \in {"Hip", "Cuda", "OpenCl"} /\ phase'[j] \notin Loads
      BY <1>1, <3>1 DEF Explicit, Types, FreeTypes, Backend, Loads
    <3> QED
      BY <1>1, <2>1, <3>3, <3>4 DEF Balanced, OneFor
  <2>2. CASE /\ Unwinds(j)
             /\ active' = IF backend = "OpenCl" /\ held[j] \cap Queue # {}
                          THEN active - 1 ELSE active
    <3>1. phase[j] = "unwind" /\ phase'[j] = "idle" /\ held'[j] = {}
      BY <1>1, <2>2 DEF Unwinds, At, Goto, Returns, Types, CallTypes, HandleTypes
    <3>2. /\ ~IsActive(j)' /\ phase'[j] \notin Loads
          /\ IsActive(j) <=> backend = "OpenCl" /\ held[j] \cap Queue # {}
      BY <3>1 DEF IsActive, Accepted, Loads
    <3> QED
      BY <1>1, <2>2, <3>2 DEF Balanced, OneFor
  <2> QED
    BY <1>14, <2>1, <2>2 DEF Ends
<1>15. CASE Unloads(j)
  <2>1. /\ UNCHANGED <<phase, active>>
        /\ held'[j] = held[j] \ Module
    BY <1>1, <1>15 DEF Unloads, hip_unload, flowVars, Types, HandleTypes
  <2>2. held'[j] \cap Queue = held[j] \cap Queue
    BY <1>3, <2>1
  <2> QED
    BY <1>4, <2>1, <2>2
<1> QED
  BY <1>6, <1>7, <1>8, <1>9, <1>10, <1>11, <1>12, <1>13, <1>14, <1>15 DEF TicketMove

LEMMA ActiveStep ==
    ASSUME Inv, ActiveInv, Next
    PROVE  ActiveInv'
<1>1. Types /\ Control /\ UNCHANGED backend
  BY FreeTypesKept DEF Inv
<1>2. ASSUME NEW j \in Job, Others(j), Balanced(j) PROVE ActiveInv'
  <2>1. \A i \in Job \ {j} : /\ IsActive(i)' <=> IsActive(i)
                             /\ phase'[i] = phase[i] /\ held'[i] = held[i]
    BY <1>1, <1>2 DEF Others, IsActive
  <2>2. \A i \in Job \ {j} : i \in ActiveTickets <=> i \in ActiveTickets'
    BY <2>1 DEF ActiveTickets
  <2>3. ActiveTickets \in SUBSET Job /\ ActiveTickets' \in SUBSET Job
    BY DEF ActiveTickets
  <2>4. Cardinality(ActiveTickets') =
           Cardinality(ActiveTickets) + OneFor(j \in ActiveTickets') - OneFor(j \in ActiveTickets)
    BY <2>2, <2>3, CountChanges
  <2>5. (j \in ActiveTickets' <=> IsActive(j)') /\ (j \in ActiveTickets <=> IsActive(j))
    BY DEF ActiveTickets
  <2>6. active' = Cardinality(ActiveTickets')
    BY <1>2, <2>4, <2>5 DEF Balanced, ActiveInv, OneFor
  <2>7. ASSUME backend' = "OpenCl", NEW i \in Job, phase'[i] \in Loads
        PROVE  held'[i] \cap Queue # {}
    BY <1>1, <1>2, <2>1, <2>7 DEF Balanced, ActiveInv
  <2> QED
    BY <2>6, <2>7 DEF ActiveInv
<1>3. ASSUME UNCHANGED <<phase, held, active>> PROVE ActiveInv'
  <2>1. ActiveTickets' = ActiveTickets
    BY <1>1, <1>3 DEF ActiveTickets, IsActive
  <2> QED
    BY <1>1, <1>3, <2>1 DEF ActiveInv
<1>4. CASE Explicit
  <2>1. ASSUME NEW j \in Job, TicketMove(j) PROVE ActiveInv'
    BY <1>1, <1>2, <1>4, <2>1, MovesAlone, TicketActive
  <2>2. CASE Builds \/ PoolsKernel \/ KeepsStill \/ BeginsClear \/ Clears \/ DropsContext
    BY <1>3, <2>2 DEF Builds, PoolsKernel, KeepsStill, BeginsClear, BeginClear, Clears, Drain,
       DropsContext, DropContext, flowVars, handleVars
  <2> QED
    BY <1>4, <2>1, <2>2, ExplicitMoves DEF ExplicitMove
<1>5. CASE ~Explicit
  <2>1. UNCHANGED active
    <3>1. ASSUME NEW j \in Job, MetalMove(j) PROVE UNCHANGED active
      <4>1. CASE MovesOn(j)
        BY <1>5, <4>1 DEF MovesOn, Explicit
      <4>2. CASE \/ \E c \in Chains[j] : Submit(j, c, "alloc")
                 \/ commit(j) \/ DeviceEnds(j)
        BY <4>2 DEF Submit, commit, DeviceEnds
      <4>3. CASE \/ metal_cached_table(j) \/ take_lookup_buffer(j) \/ take_shared_buffer(j)
                 \/ metal_cached_pipeline(j) \/ compile_pipeline(j)
        BY <4>3 DEF metal_cached_table, take_lookup_buffer, take_shared_buffer,
           metal_cached_pipeline, compile_pipeline
      <4>4. CASE recycle_buffers(j) \/ metal_unwinds(j) \/ MetalReleases(j)
        BY <4>4 DEF recycle_buffers, metal_unwinds, MetalReleases
      <4> QED
        BY <3>1, <4>1, <4>2, <4>3, <4>4 DEF MetalMove
    <3>2. CASE MetalDropContext \/ \E s \in Source : MetalReport(s)
      BY <3>2 DEF MetalDropContext, MetalReport
    <3> QED
      BY <1>5, <3>1, <3>2, MetalMoves
  <2>2. ActiveTickets = {} /\ ActiveTickets' = {}
    BY <1>1, <1>5 DEF ActiveTickets, IsActive, Explicit
  <2> QED
    BY <1>1, <1>5, <2>1, <2>2 DEF ActiveInv, Explicit
<1> QED
  BY <1>4, <1>5

LEMMA InitActive ==
    ASSUME NativeInit
    PROVE  ActiveInv
<1>1. ActiveTickets = {}
  BY DEF NativeInit, Init, ActiveTickets, IsActive, Accepted
<1>2. active = 0 /\ \A j \in Job : phase[j] = "idle"
  BY DEF NativeInit, Init
<1> QED
  BY <1>1, <1>2, FS_EmptySet DEF ActiveInv, Loads

LEMMA InvActiveStep == Inv /\ ActiveInv /\ [Next]_vars => (Inv /\ ActiveInv)'
<1>1. Inv /\ [Next]_vars => Inv'
  BY ExplicitStep, MetalKeeps, StillInv
<1>2. ASSUME ActiveInv, UNCHANGED vars PROVE ActiveInv'
  <2>1. UNCHANGED <<backend, phase, held, active>>
    BY <1>2 DEF vars, nativeVars, flowVars, handleVars
  <2>2. ActiveTickets' = ActiveTickets
    BY <2>1 DEF ActiveTickets, IsActive
  <2> QED
    BY <1>2, <2>1, <2>2 DEF ActiveInv
<1> QED
  BY <1>1, <1>2, ActiveStep

LEMMA SpecActive == Spec => [](Inv /\ ActiveInv)
<1>1. NativeInit => Inv /\ ActiveInv
  BY InitInv, InitActive
<1> QED
  BY <1>1, InvActiveStep, PTL DEF Spec

-----------------------------------------------------------------------------
(* Types.                                                                  *)

LEMMA PooledOnce ==
    ASSUME Inv, NEW h \in Handle
    PROVE  pool[h] \in {0, 1}
<1>1. pool[h] \in Nat /\ refs[h] \in Nat
  BY DEF Inv, Types, HandleTypes
<1>2. CASE Explicit
  <2>1. OnePlace(h)
    BY <1>2 DEF Inv, ExplicitOwned, Ownership
  <2> QED
    BY <1>1, <2>1 DEF OnePlace
<1>3. CASE ~Explicit
  BY <1>1, <1>3, CountsOf
<1> QED
  BY <1>2, <1>3

LEMMA InvTypes == Inv /\ ActiveInv => TypeOK
<1> SUFFICES ASSUME Inv, ActiveInv PROVE TypeOK
  OBVIOUS
<1>1. Types
  BY DEF Inv
<1>2. pool \in [Handle -> 0 .. 1]
  <2>1. pool \in [Handle -> Nat]
    BY <1>1 DEF Types, HandleTypes
  <2>2. \A h \in Handle : pool[h] \in 0 .. 1
    BY PooledOnce
  <2> QED
    BY <2>1, <2>2
<1>3. active \in Nat
  <2>1. ActiveTickets \in SUBSET Job
    BY DEF ActiveTickets
  <2>2. IsFiniteSet(ActiveTickets)
    BY <2>1, NativeAssumption, FS_Subset
  <2> QED
    BY <2>2, FS_CardinalityType DEF ActiveInv
<1>4. /\ Keys(lutCache) \subseteq Key /\ Values(lutCache) \subseteq Device
      /\ Keys(moduleCache) \subseteq Source /\ Values(moduleCache) \subseteq Module
      /\ Keys(codeCache) \subseteq Source
      /\ Values(codeCache) \subseteq {"compiled", "restored"}
  BY <1>1, CacheEntries DEF Types, DataTypes, CodeTypes, FreeTypes
<1>5. /\ backend \in Backend
      /\ call \in Job \cup {Maint, None}
      /\ phase \in [Job -> Phases] /\ chain \in [Job -> Seq(Program)]
      /\ stage \in [Job -> Nat] /\ count \in [Job -> Nat]
  BY <1>1 DEF Types, CallTypes, FreeTypes
<1>6. /\ refs \in [Handle -> Nat]
      /\ held \in [Job -> SUBSET Handle] /\ leaked \subseteq Handle
      /\ memory \in [Job -> Seq(Device \cup {None})]
      /\ pending \in [Job -> SUBSET Nat]
      /\ resident \in [Job -> Device \cup {None}]
      /\ content \in [Device -> Contents]
  BY <1>1 DEF Types, HandleTypes, DataTypes
<1>7. /\ loaded \in [Job -> Seq(Module \cup Kernel)]
      /\ made \in [Module \cup Kernel -> Source \cup {None}]
      /\ running \subseteq Job /\ uses \in [Job -> SUBSET Handle]
      /\ results \in [Job -> Contents]
      /\ faults \in 0 .. MaxFaults /\ alive \in BOOLEAN
  BY <1>1 DEF Types, CodeTypes, GpuTypes, RestTypes, FreeTypes
<1> QED
  BY <1>2, <1>3, <1>4, <1>5, <1>6, <1>7 DEF TypeOK

\* The contexts of HIP, CUDA, OpenCL and Metal keep their types: a handle is
\* in its pool at most once, and active_submissions never goes below zero,
\* however submissions, waits, drops, evictions and failing calls interleave.
THEOREM NativeTypesCorrect == Spec => []TypeOK
  BY SpecActive, InvTypes, PTL

-----------------------------------------------------------------------------
(* References.                                                             *)

LEMMA CachedKeys ==
    ASSUME NEW K, NEW V, NEW c, IsCache(c, K, V), OneKeyEach(c), NEW h
    PROVE  Cardinality({k \in Keys(c) : c.entries[k] = h}) = OneFor(h \in Values(c))
<1> DEFINE S == {k \in Keys(c) : c.entries[k] = h}
<1>1. CASE h \in Values(c)
  <2>1. PICK k \in Keys(c) : c.entries[k] = h
    BY <1>1 DEF Values
  <2>2. S = {k}
    BY <2>1 DEF OneKeyEach
  <2>3. Cardinality({k}) = 1
    BY FS_Singleton
  <2> QED
    BY <1>1, <2>2, <2>3 DEF OneFor
<1>2. CASE h \notin Values(c)
  <2>1. S = {}
    BY <1>2 DEF Values
  <2> QED
    BY <1>2, <2>1, FS_EmptySet DEF OneFor
<1> QED
  BY <1>1, <1>2

LEMMA InvReferences == Inv => ReferencesKept
<1> SUFFICES ASSUME Inv, NEW h \in Handle PROVE Keepers(h) = refs[h]
  BY DEF ReferencesKept
<1> DEFINE tables  == Cardinality({k \in Keys(lutCache) : lutCache.entries[k] = h})
           modules == Cardinality({s \in Keys(moduleCache) : moduleCache.entries[s] = h})
<1>1. refs[h] \in Nat /\ pool[h] \in Nat
  BY DEF Inv, Types, HandleTypes
<1>2. OneKeyEach(lutCache) /\ OneKeyEach(moduleCache)
  BY DEF Inv, ExplicitOwned, Ownership, MetalCounted
<1>3. /\ tables = OneFor(h \in Values(lutCache))
      /\ modules = OneFor(h \in Values(moduleCache))
  <2>1. IsCache(lutCache, Key, Device) /\ IsCache(moduleCache, Source, Module)
    BY DEF Inv, Types, DataTypes, CodeTypes
  <2> QED
    BY <1>2, <2>1, CachedKeys
<1> HIDE DEF tables, modules
<1>4. tables + modules = Cached(h) /\ Cached(h) \in {0, 1} /\ tables \in Nat /\ modules \in Nat
  BY <1>3, SharedApart DEF OneFor, Cached, Shared
<1>5. CASE Explicit
  <2> DEFINE owners == {j \in Job : h \in held[j]}
  <2>1. OnePlace(h) /\ backend # "Metal"
    BY <1>5 DEF Inv, ExplicitOwned, Ownership, Explicit
  <2>2. Cardinality(owners) = OneFor(\E j \in Job : h \in held[j])
    <3>1. CASE \E j \in Job : h \in held[j]
      <4>1. PICK j \in Job : h \in held[j]
        BY <3>1
      <4>2. owners = {j}
        BY <2>1, <4>1 DEF OnePlace
      <4>3. Cardinality({j}) = 1
        BY FS_Singleton
      <4> QED
        BY <3>1, <4>2, <4>3 DEF OneFor
    <3>2. CASE ~ \E j \in Job : h \in held[j]
      <4>1. owners = {}
        BY <3>2
      <4> QED
        BY <3>2, <4>1, FS_EmptySet DEF OneFor
    <3> QED
      BY <3>1, <3>2
  <2>3. Keepers(h) = pool[h] + tables + modules + OneFor(h \in leaked) + Cardinality(owners)
    BY <2>1 DEF Keepers, OneFor, tables, modules
  <2> HIDE DEF owners
  <2>4. Keepers(h) = pool[h] + Cached(h) + OneFor(h \in leaked)
                        + OneFor(\E j \in Job : h \in held[j])
    BY <1>1, <1>4, <2>2, <2>3 DEF OneFor
  <2> QED
    BY <1>1, <2>1, <2>4 DEF OnePlace, Cached, OneFor
<1>6. CASE ~Explicit
  <2>1. /\ refs[h] = pool[h] + Cached(h) + Kept(memory, loaded, h)
        /\ Kept(memory, loaded, h) \in Nat
    BY <1>6, CountsOf
  <2>2. leaked = {} /\ backend = "Metal"
    BY <1>6 DEF Inv, MetalCounted, Explicit
  <2>3. Keepers(h) = pool[h] + tables + modules + 0 + Kept(memory, loaded, h)
    BY <2>2 DEF Keepers, Kept, tables, modules
  <2> QED
    BY <1>1, <1>4, <2>1, <2>3
<1> QED
  BY <1>5, <1>6

\* Every reference to a driver object is kept in exactly one place, and
\* whatever exists has one: nothing is released twice and nothing is lost, on
\* any of the four backends, whatever fails.
THEOREM NativeReferencesKept == Spec => []ReferencesKept
  BY SpecActive, InvReferences, PTL

-----------------------------------------------------------------------------
(* The counter of submissions.                                             *)

LEMMA InvCounts == Inv /\ ActiveInv => ActiveCounts
<1> SUFFICES ASSUME Inv, ActiveInv, call = None
             PROVE  active = CASE backend \in {"Hip", "OpenCl"} ->
                                    Cardinality({j \in Job : phase[j] = "pending"})
                               [] OTHER -> 0
  BY DEF ActiveCounts
<1>1. \A j \in Job : phase[j] \in {"idle", "pending"}
  <2>1. \A j \in Job : Flow(j) /\ j # None
    BY NativeAssumption DEF Inv, Control
  <2> QED
    BY <2>1 DEF Flow
<1>2. CASE backend \in {"Hip", "OpenCl"}
  <2>1. backend = "OpenCl" => \A j \in Job : phase[j] = "idle" => held[j] = {}
    BY DEF Inv, ExplicitOwned, TicketOwns, Explicit
  <2>2. ActiveTickets = {j \in Job : phase[j] = "pending"}
    BY <1>1, <1>2, <2>1 DEF ActiveTickets, IsActive, Accepted
  <2> QED
    BY <1>2, <2>2 DEF ActiveInv
<1>3. CASE backend \notin {"Hip", "OpenCl"}
  <2>1. ActiveTickets = {}
    BY <1>3 DEF ActiveTickets, IsActive
  <2> QED
    BY <1>3, <2>1, FS_EmptySet DEF ActiveInv
<1> QED
  BY <1>2, <1>3

\* Between calls active_submissions is the number of tickets that exist, on
\* the backends that count them: no order of failures and drops leaves the
\* caches of a context uncleared for ever, or clears them under a ticket.
THEOREM NativeActiveCounts == Spec => []ActiveCounts
  BY SpecActive, InvCounts, PTL

-----------------------------------------------------------------------------
(* The bounded caches: they keep within their capacity, and the bytes they *)
(* record are those of the entries they hold.                             *)

\* t[i] is a[1] + ... + a[i].
IsTotal(t, a, n) ==
  /\ a \in [1 .. n -> Nat] /\ t \in [0 .. n -> Nat] /\ t[0] = 0
  /\ \A i \in 0 .. n - 1 : t[i + 1] = t[i] + a[i + 1]

\* b is a from n + 1 on.
Shifted(b, a, n, m) == \A i \in 1 .. m : b[i] = a[n + i]

LEMMA TotalGrows ==
    ASSUME NEW n \in Nat, NEW a, NEW t, IsTotal(t, a, n)
    PROVE  \A j \in 0 .. n : \A i \in 0 .. j : t[i] <= t[j]
<1> DEFINE S == {j \in 0 .. n : \A i \in 0 .. j : t[i] <= t[j]}
<1>0. /\ a \in [1 .. n -> Nat] /\ t \in [0 .. n -> Nat]
      /\ \A i \in 0 .. n - 1 : t[i + 1] = t[i] + a[i + 1]
  BY DEF IsTotal
<1>1. 0 \in S
  BY <1>0
<1>2. ASSUME NEW m \in 0 .. n - 1, m \in S PROVE m + 1 \in S
  <2>1. t[m] \in Nat /\ t[m + 1] \in Nat /\ a[m + 1] \in Nat /\ m + 1 \in 0 .. n
    BY <1>0
  <2>2. t[m + 1] = t[m] + a[m + 1]
    BY <1>0
  <2>3. ASSUME NEW i \in 0 .. m + 1 PROVE t[i] <= t[m + 1]
    <3>1. CASE i = m + 1
      BY <2>1, <3>1
    <3>2. CASE i # m + 1
      <4>1. i \in 0 .. m /\ t[i] \in Nat
        BY <1>0, <3>2
      <4>2. t[i] <= t[m]
        BY <1>2, <4>1
      <4> QED
        BY <2>1, <2>2, <4>1, <4>2
    <3> QED
      BY <3>1, <3>2
  <2> QED
    BY <2>1, <2>3
<1>3. 0 .. n \subseteq S
  BY <1>1, <1>2, BoundedInduction
<1> QED
  BY <1>3

\* The total of a part from n + 1 on.
LEMMA TotalOfRest ==
    ASSUME NEW n \in Nat, NEW m \in Nat,
           NEW a, NEW t, IsTotal(t, a, n + m),
           NEW b, NEW u, IsTotal(u, b, m), Shifted(b, a, n, m)
    PROVE  u[m] = t[n + m] - t[n]
<1> DEFINE S == {i \in 0 .. m : t[n + i] = t[n] + u[i]}
<1>0. /\ a \in [1 .. n + m -> Nat] /\ b \in [1 .. m -> Nat]
      /\ t \in [0 .. n + m -> Nat] /\ \A i \in 0 .. (n + m) - 1 : t[i + 1] = t[i] + a[i + 1]
      /\ u \in [0 .. m -> Nat] /\ u[0] = 0
      /\ \A i \in 0 .. m - 1 : u[i + 1] = u[i] + b[i + 1]
  BY DEF IsTotal
<1>1. 0 \in S
  BY <1>0
<1>2. ASSUME NEW i \in 0 .. m - 1, i \in S PROVE i + 1 \in S
  <2>1. /\ n + i \in 0 .. (n + m) - 1 /\ n + (i + 1) = (n + i) + 1 /\ i + 1 \in 1 .. m
        /\ n + i \in 0 .. n + m /\ n \in 0 .. n + m /\ i \in 0 .. m
    OBVIOUS
  <2>2. t[(n + i) + 1] = t[n + i] + a[(n + i) + 1] /\ u[i + 1] = u[i] + b[i + 1]
    BY <1>0, <2>1
  <2>3. b[i + 1] = a[n + (i + 1)]
    BY <2>1 DEF Shifted
  <2>4. t[n + (i + 1)] = (t[n] + u[i]) + b[i + 1]
    BY <1>2, <2>1, <2>2, <2>3
  <2>5. t[n] \in Nat /\ u[i] \in Nat /\ b[i + 1] \in Nat
    BY <1>0, <2>1
  <2>6. t[n + (i + 1)] = t[n] + u[i + 1]
    <3> DEFINE x == t[n]  y == u[i]  z == b[i + 1]
    <3>1. x \in Nat /\ y \in Nat /\ z \in Nat
      BY <2>5
    <3> HIDE DEF x, y, z
    <3>2. (x + y) + z = x + (y + z)
      BY <3>1
    <3>3. t[n + (i + 1)] = (x + y) + z /\ u[i + 1] = y + z
      BY <2>2, <2>4 DEF x, y, z
    <3> QED
      BY <3>2, <3>3 DEF x
  <2> QED
    BY <2>1, <2>6
<1> HIDE DEF S
<1>3. 0 .. m \subseteq S
  BY <1>1, <1>2, BoundedInduction
<1>4. t[n + m] = t[n] + u[m]
  BY <1>3 DEF S
<1>5. t[n] \in Nat /\ u[m] \in Nat
  BY <1>0
<1> QED
  BY <1>4, <1>5

\* The total with one more.
LEMMA TotalOfMore ==
    ASSUME NEW n \in Nat,
           NEW a, NEW t, IsTotal(t, a, n),
           NEW b, NEW u, IsTotal(u, b, n + 1), Shifted(b, a, 0, n)
    PROVE  u[n + 1] = t[n] + b[n + 1]
<1> DEFINE S == {i \in 0 .. n : u[i] = t[i]}
<1>0. /\ a \in [1 .. n -> Nat] /\ \A i \in 1 .. n : b[i] = a[0 + i]
      /\ t \in [0 .. n -> Nat] /\ t[0] = 0 /\ \A i \in 0 .. n - 1 : t[i + 1] = t[i] + a[i + 1]
      /\ u \in [0 .. n + 1 -> Nat] /\ u[0] = 0
      /\ \A i \in 0 .. (n + 1) - 1 : u[i + 1] = u[i] + b[i + 1]
  BY DEF IsTotal, Shifted
<1>1. 0 \in S
  BY <1>0
<1>2. ASSUME NEW m \in 0 .. n - 1, m \in S PROVE m + 1 \in S
  <2>1. m \in 0 .. (n + 1) - 1 /\ m + 1 \in 1 .. n /\ u[m] = t[m]
    BY <1>2
  <2>2. t[m + 1] = t[m] + a[m + 1] /\ u[m + 1] = u[m] + b[m + 1]
    BY <1>0, <2>1
  <2>3. b[m + 1] = a[m + 1]
    <3> DEFINE i == m + 1
    <3>1. i \in 1 .. n /\ 0 + i = i
      BY <2>1
    <3> HIDE DEF i
    <3>2. b[i] = a[0 + i]
      BY <1>0, <3>1
    <3> QED
      BY <3>1, <3>2 DEF i
  <2> QED
    BY <2>1, <2>2, <2>3
<1>3. 0 .. n \subseteq S
  BY <1>1, <1>2, BoundedInduction
<1>4. u[n] = t[n] /\ n \in 0 .. (n + 1) - 1
  BY <1>3
<1> QED
  BY <1>0, <1>4

-----------------------------------------------------------------------------
\* What the entries of a cache count for, in the order of the cache.
Costs(c, cost) == [i \in 1 .. Len(c.order) |-> CostAt(c, i, cost)]

LEMMA TotalCostIs ==
    ASSUME NEW c, NEW cost, Len(c.order) \in Nat,
           Costs(c, cost) \in [1 .. Len(c.order) -> Nat]
    PROVE  \E t : /\ IsTotal(t, Costs(c, cost), Len(c.order))
                  /\ TotalCost(c, cost) = t[Len(c.order)]
<1> DEFINE n == Len(c.order)
           a == Costs(c, cost)
           E(f) == f = [i \in 0 .. n |-> IF i = 0 THEN 0 ELSE f[i - 1] + CostAt(c, i, cost)]
           f0 == CHOOSE f : E(f)
           step == [p \in Nat \X Nat |-> p[2] + (IF p[1] + 1 \in 1 .. n THEN a[p[1] + 1] ELSE 0)]
<1>1. step \in [Nat \X Nat -> Nat]
  OBVIOUS
<1>2. \A i \in 1 .. n : a[i] = CostAt(c, i, cost) /\ a[i] \in Nat
  BY DEF Costs
<1>3. \A k \in 0 .. n - 1 : \A x \in Nat : step[<<k, x>>] = x + a[k + 1]
  OBVIOUS
<1> HIDE DEF step, a
<1>4. PICK h : Follows(h, Nat, 0, step, n)
  BY <1>1, RecursionExists
<1>5. h \in [0 .. n -> Nat] /\ h[0] = 0 /\ \A k \in 0 .. n - 1 : h[k + 1] = step[<<k, h[k]>>]
  BY <1>4 DEF Follows
<1>6. \A k \in 0 .. n - 1 : h[k + 1] = h[k] + a[k + 1]
  <2> TAKE k \in 0 .. n - 1
  <2>1. h[k] \in Nat /\ h[k + 1] = step[<<k, h[k]>>]
    BY <1>5
  <2> QED
    BY <1>3, <2>1
<1>7. E(h)
  <2>1. ASSUME NEW i \in 0 .. n
        PROVE  h[i] = IF i = 0 THEN 0 ELSE h[i - 1] + CostAt(c, i, cost)
    <3>1. CASE i = 0
      BY <1>5, <3>1
    <3>2. CASE i # 0
      <4>1. i - 1 \in 0 .. n - 1 /\ (i - 1) + 1 = i /\ i \in 1 .. n
        BY <3>2
      <4>2. h[(i - 1) + 1] = h[i - 1] + a[(i - 1) + 1]
        BY <1>6, <4>1
      <4> QED
        BY <1>2, <3>2, <4>1, <4>2
    <3> QED
      BY <3>1, <3>2
  <2> QED
    BY <1>5, <2>1
<1>8. E(f0)
  BY <1>7
<1> HIDE DEF f0
<1>9. f0 = [i \in 0 .. n |-> f0[i]] /\ f0[0] = 0
  BY <1>8
<1>10. \A k \in 0 .. n - 1 : f0[k] \in Nat => f0[k + 1] = step[<<k, f0[k]>>]
  <2> TAKE k \in 0 .. n - 1
  <2>1. k + 1 \in 1 .. n /\ k + 1 \in 0 .. n /\ (k + 1) - 1 = k /\ k + 1 # 0
    OBVIOUS
  <2>2. f0[k + 1] = f0[(k + 1) - 1] + CostAt(c, k + 1, cost)
    BY <1>8, <2>1
  <2> QED
    BY <1>2, <1>3, <2>1, <2>2
<1>11. Follows(f0, Nat, 0, step, n)
  BY <1>1, <1>9, <1>10, Conforms
<1>12. IsTotal(f0, a, n)
  <2>1. f0 \in [0 .. n -> Nat] /\ f0[0] = 0 /\ \A k \in 0 .. n - 1 : f0[k + 1] = step[<<k, f0[k]>>]
    BY <1>11 DEF Follows
  <2>2. \A k \in 0 .. n - 1 : f0[k + 1] = f0[k] + a[k + 1]
    <3> TAKE k \in 0 .. n - 1
    <3>1. f0[k] \in Nat /\ f0[k + 1] = step[<<k, f0[k]>>]
      BY <2>1
    <3> QED
      BY <1>3, <3>1
  <2> QED
    BY <2>1, <2>2 DEF IsTotal, a
<1>13. TotalCost(c, cost) = f0[n]
  BY DEF TotalCost, f0
<1> QED
  BY <1>12, <1>13 DEF a

\* Evictions take the bytes of the oldest entries away.
LEMMA BytesWithoutIs ==
    ASSUME NEW c, NEW cost, Len(c.order) \in Nat,
           Costs(c, cost) \in [1 .. Len(c.order) -> Nat],
           NEW t, IsTotal(t, Costs(c, cost), Len(c.order)),
           c.bytes = t[Len(c.order)], NEW n \in 0 .. Len(c.order)
    PROVE  BytesWithout(c, n, cost) = t[Len(c.order)] - t[n]
<1> DEFINE l == Len(c.order)
           a == Costs(c, cost)
           E(f) == f = [i \in 0 .. n |-> IF i = 0 THEN c.bytes
                                         ELSE Minus(f[i - 1], CostAt(c, i, cost))]
           f0 == CHOOSE f : E(f)
           h == [i \in 0 .. n |-> t[l] - t[i]]
<1>0. /\ t \in [0 .. l -> Nat] /\ t[0] = 0 /\ \A i \in 0 .. l - 1 : t[i + 1] = t[i] + a[i + 1]
      /\ l \in Nat /\ \A i \in 1 .. l : CostAt(c, i, cost) = a[i]
      /\ a \in [1 .. l -> Nat] /\ IsTotal(t, a, l) /\ c.bytes = t[l]
  BY DEF IsTotal, Costs
<1> HIDE DEF a, l
<1>1. \A i \in 0 .. n : t[i] \in Nat /\ t[l] \in Nat /\ t[i] <= t[l]
  <2>1. \A j \in 0 .. l : \A i \in 0 .. j : t[i] <= t[j]
    BY <1>0, TotalGrows
  <2>2. \A i \in 0 .. n : i \in 0 .. l /\ l \in 0 .. l
    BY <1>0 DEF l
  <2> QED
    BY <1>0, <2>1, <2>2
<1>2. \A i \in 1 .. n : t[l] - t[i] = Minus(t[l] - t[i - 1], CostAt(c, i, cost))
  <2> TAKE i \in 1 .. n
  <2>1. i - 1 \in 0 .. l - 1 /\ (i - 1) + 1 = i /\ i \in 1 .. l /\ i \in 0 .. n /\ i - 1 \in 0 .. n
    BY <1>0 DEF l
  <2>2. t[(i - 1) + 1] = t[i - 1] + a[(i - 1) + 1]
    BY <1>0, <2>1
  <2>3. t[i] = t[i - 1] + CostAt(c, i, cost)
    BY <1>0, <2>1, <2>2
  <2>4. t[i] \in Nat /\ t[i - 1] \in Nat /\ t[l] \in Nat /\ t[i] <= t[l] /\ CostAt(c, i, cost) \in Nat
    BY <1>0, <1>1, <2>1
  <2> DEFINE all == t[l]  x == t[i - 1]  y == t[i]  z == CostAt(c, i, cost)
  <2>5. all \in Nat /\ x \in Nat /\ y \in Nat /\ z \in Nat /\ y = x + z /\ y <= all
    BY <2>3, <2>4
  <2> HIDE DEF all, x, y, z
  <2>6. all - y = Minus(all - x, z)
    BY <2>5 DEF Minus
  <2> QED
    BY <2>6 DEF all, x, y, z
<1>3. E(h)
  <2>1. ASSUME NEW i \in 0 .. n
        PROVE  h[i] = IF i = 0 THEN c.bytes ELSE Minus(h[i - 1], CostAt(c, i, cost))
    <3>1. CASE i = 0
      BY <1>0, <1>1, <3>1
    <3>2. CASE i # 0
      <4>1. i \in 1 .. n /\ i - 1 \in 0 .. n
        BY <3>2
      <4> QED
        BY <1>2, <3>2, <4>1
    <3> QED
      BY <3>1, <3>2
  <2> QED
    BY <2>1
<1>4. E(f0)
  BY <1>3
<1>5. BytesWithout(c, n, cost) = f0[n]
  BY DEF BytesWithout
<1> HIDE DEF f0
<1> DEFINE S == {i \in 0 .. n : f0[i] = t[l] - t[i]}
<1>6. 0 \in S
  <2>1. f0[0] = c.bytes
    BY <1>4
  <2> QED
    BY <1>0, <1>1, <2>1
<1>7. ASSUME NEW m \in 0 .. n - 1, m \in S PROVE m + 1 \in S
  <2>1. m + 1 \in 1 .. n /\ m + 1 \in 0 .. n /\ (m + 1) - 1 = m /\ m + 1 # 0
    OBVIOUS
  <2>2. f0[m + 1] = Minus(f0[(m + 1) - 1], CostAt(c, m + 1, cost))
    BY <1>4, <2>1
  <2>3. t[l] - t[m + 1] = Minus(t[l] - t[(m + 1) - 1], CostAt(c, m + 1, cost))
    BY <1>2, <2>1
  <2>4. f0[m] = t[l] - t[m]
    BY <1>7
  <2> QED
    BY <2>1, <2>2, <2>3, <2>4
<1> HIDE DEF S
<1>8. n \in Nat
  OBVIOUS
<1>9. 0 .. n \subseteq S
  BY <1>6, <1>7, <1>8, BoundedInduction
<1>10. n \in S
  BY <1>8, <1>9
<1> QED
  BY <1>5, <1>10 DEF S, l

-----------------------------------------------------------------------------
\* What the accounts of a cache rest on: the order has every key at one place.
Ordered(c, K, V) ==
  /\ c.order \in Seq(K) /\ ToSet(c.order) = Keys(c)
  /\ \A k \in Keys(c) : c.entries[k] \in V

Distinct(s) == \A i, j \in 1 .. Len(s) : s[i] = s[j] => i = j

Booked(c, K, V, cost, maxEntries, maxBytes) ==
  /\ Ordered(c, K, V) /\ Distinct(c.order)
  /\ Len(c.order) <= maxEntries /\ c.bytes <= maxBytes
  /\ c.bytes = TotalCost(c, cost)

\* A sequence without repetition has as many elements as places.
LEMMA DistinctSize ==
    ASSUME NEW K, NEW s \in Seq(K), Distinct(s)
    PROVE  IsFiniteSet(ToSet(s)) /\ Cardinality(ToSet(s)) = Len(s)
<1>1. Len(s) \in Nat /\ s \in [1 .. Len(s) -> K] /\ DOMAIN s = 1 .. Len(s)
  BY LenProperties
<1>2. ToSet(s) = {s[i] : i \in 1 .. Len(s)}
  BY <1>1 DEF ToSet
<1>3. s \in [1 .. Len(s) -> ToSet(s)] /\ \A e \in ToSet(s) : \E i \in 1 .. Len(s) : s[i] = e
  BY <1>1, <1>2
<1>4. s \in Bijection(1 .. Len(s), ToSet(s))
  BY <1>3, Fun_IsBij DEF Distinct
<1>5. IsFiniteSet(1 .. Len(s)) /\ Cardinality(1 .. Len(s)) = Len(s)
  <2> DEFINE n == Len(s)
  <2>1. n \in Nat
    BY <1>1
  <2> HIDE DEF n
  <2>2. /\ 1 \in Int /\ n \in Int /\ (IF 1 > n THEN 0 ELSE n - 1 + 1) = n
    BY <2>1
  <2>3. IsFiniteSet(1 .. n) /\ Cardinality(1 .. n) = n
    BY <2>2, FS_Interval
  <2> QED
    BY <2>3 DEF n
<1> QED
  BY <1>4, <1>5, FS_Bijection DEF ExistsBijection

LEMMA BookedAccounted ==
    ASSUME NEW c, NEW K, NEW V, NEW cost, NEW maxEntries, NEW maxBytes,
           Booked(c, K, V, cost, maxEntries, maxBytes)
    PROVE  Accounted(c, cost, maxEntries, maxBytes)
<1>1. Cardinality(ToSet(c.order)) = Len(c.order)
  BY DistinctSize DEF Booked, Ordered
<1> QED
  BY <1>1 DEF Booked, Ordered, Accounted, Size

LEMMA CostsType ==
    ASSUME NEW c, NEW K, NEW V, NEW cost \in [K \X V -> Nat], Ordered(c, K, V)
    PROVE  /\ Len(c.order) \in Nat /\ Costs(c, cost) \in [1 .. Len(c.order) -> Nat]
           /\ \A i \in 1 .. Len(c.order) : /\ c.order[i] \in K /\ c.order[i] \in Keys(c)
                                           /\ Costs(c, cost)[i] = CostAt(c, i, cost)
<1>1. Len(c.order) \in Nat /\ c.order \in [1 .. Len(c.order) -> K] /\ DOMAIN c.order = 1 .. Len(c.order)
  BY LenProperties DEF Ordered
<1>2. ASSUME NEW i \in 1 .. Len(c.order)
      PROVE  c.order[i] \in K /\ c.order[i] \in Keys(c) /\ CostAt(c, i, cost) \in Nat
  <2>1. c.order[i] \in K /\ c.order[i] \in Keys(c)
    BY <1>1 DEF ToSet, Ordered
  <2>2. c.entries[c.order[i]] \in V
    BY <2>1 DEF Ordered
  <2>3. <<c.order[i], c.entries[c.order[i]]>> \in K \X V
    BY <2>1, <2>2
  <2> QED
    BY <2>1, <2>3 DEF CostAt
<1> QED
  BY <1>1, <1>2 DEF Costs

LEMMA EmptyBooked ==
    ASSUME NEW K, NEW V, NEW cost \in [K \X V -> Nat],
           NEW maxEntries \in Nat, NEW maxBytes \in Nat
    PROVE  Booked(EmptyCache, K, V, cost, maxEntries, maxBytes)
<1> DEFINE c == EmptyCache
<1>1. c.order = << >> /\ c.entries = << >> /\ c.bytes = 0
  BY DEF EmptyCache
<1>2. << >> \in Seq(K) /\ Len(<< >>) = 0
  OBVIOUS
<1>3. ToSet(<< >>) = {} /\ DOMAIN << >> = {}
  BY DEF ToSet
<1> HIDE DEF c
<1>4. c.order \in Seq(K) /\ ToSet(c.order) = Keys(c) /\ Keys(c) = {} /\ Len(c.order) = 0
  BY <1>1, <1>2, <1>3 DEF Keys
<1>5. Len(c.order) \in Nat /\ Costs(c, cost) \in [1 .. Len(c.order) -> Nat]
  <2>1. Ordered(c, K, V)
    BY <1>4 DEF Ordered
  <2> QED
    BY <2>1, CostsType
<1>6. PICK t : IsTotal(t, Costs(c, cost), Len(c.order)) /\ TotalCost(c, cost) = t[Len(c.order)]
  BY <1>5, TotalCostIs
<1>7. TotalCost(c, cost) = 0
  BY <1>4, <1>6 DEF IsTotal
<1>8. \A i, j \in 1 .. Len(c.order) : c.order[i] = c.order[j] => i = j
  BY <1>4
<1>9. Booked(c, K, V, cost, maxEntries, maxBytes)
  BY <1>1, <1>4, <1>7, <1>8 DEF Booked, Ordered, Distinct
<1> QED
  BY <1>9 DEF c

\* What is left of the cache c when n entries are gone.
Left(d, c, n) ==
  /\ Len(d.order) = Len(c.order) - n
  /\ Keys(d) \subseteq Keys(c) /\ d.bytes \in Nat
  /\ n = Len(c.order) => d.bytes = 0

\* The oldest entries leave: the order, the entries and the bytes stay together.
LEMMA EvictionBooked ==
    ASSUME NEW K, NEW V, NEW cost \in [K \X V -> Nat],
           NEW maxEntries \in Nat, NEW maxBytes \in Nat,
           NEW c, Booked(c, K, V, cost, maxEntries, maxBytes),
           NEW n \in 0 .. Len(c.order)
    PROVE  /\ Booked(WithoutOldest(c, n, cost), K, V, cost, maxEntries, maxBytes)
           /\ Left(WithoutOldest(c, n, cost), c, n)
<1> DEFINE d == WithoutOldest(c, n, cost)
           l == Len(c.order)
           gone == SubSeq(c.order, 1, n)
<1>1. /\ c.order \in Seq(K) /\ ToSet(c.order) = Keys(c) /\ \A k \in Keys(c) : c.entries[k] \in V
      /\ \A i, j \in 1 .. l : c.order[i] = c.order[j] => i = j
      /\ l <= maxEntries /\ c.bytes <= maxBytes /\ c.bytes = TotalCost(c, cost)
  BY DEF Booked, Ordered, Distinct
<1>2. /\ l \in Nat /\ Costs(c, cost) \in [1 .. l -> Nat]
      /\ \A i \in 1 .. l : /\ c.order[i] \in K /\ c.order[i] \in Keys(c)
                           /\ Costs(c, cost)[i] = CostAt(c, i, cost)
  BY CostsType DEF Booked
<1>3. DOMAIN c.order = 1 .. l /\ ToSet(c.order) = {c.order[i] : i \in 1 .. l}
  BY <1>1, LenProperties DEF ToSet
<1>4. /\ d.entries = [k \in Keys(c) \ ToSet(gone) |-> c.entries[k]]
      /\ d.order = SubSeq(c.order, n + 1, l) /\ d.bytes = BytesWithout(c, n, cost)
  BY DEF WithoutOldest
<1> HIDE DEF d
<1>5. /\ d.order \in Seq(K) /\ Len(d.order) = l - n
      /\ \A i \in 1 .. l - n : d.order[i] = c.order[n + i]
  <2>1. n \in Nat /\ n + 1 \in Int /\ l \in Int /\ \A i \in n + 1 .. l : c.order[i] \in K
    BY <1>2
  <2>2. /\ SubSeq(c.order, n + 1, l) \in Seq(K)
        /\ Len(SubSeq(c.order, n + 1, l)) = IF n + 1 <= l THEN l - (n + 1) + 1 ELSE 0
        /\ \A i \in 1 .. l - (n + 1) + 1 : SubSeq(c.order, n + 1, l)[i] = c.order[(n + 1) + i - 1]
    BY <2>1, SubSeqProperties
  <2>3. l - (n + 1) + 1 = l - n /\ n <= l
    BY <1>2
  <2>4. \A i \in 1 .. l - n : (n + 1) + i - 1 = n + i
    BY <1>2
  <2>5. d.order \in Seq(K) /\ Len(d.order) = l - n
    BY <1>2, <1>4, <2>2, <2>3
  <2>6. \A i \in 1 .. l - n : d.order[i] = c.order[n + i]
    BY <1>4, <2>2, <2>3, <2>4
  <2> QED
    BY <2>5, <2>6
<1>6. ToSet(gone) = {c.order[i] : i \in 1 .. n}
  <2>1. n \in Nat /\ \A i \in 1 .. n : c.order[i] \in K
    BY <1>2
  <2>2. /\ gone \in Seq(K) /\ Len(gone) = IF 1 <= n THEN n - 1 + 1 ELSE 0
        /\ \A i \in 1 .. n - 1 + 1 : gone[i] = c.order[1 + i - 1]
    BY <2>1, SubSeqProperties
  <2>3. Len(gone) = n /\ \A i \in 1 .. n : gone[i] = c.order[i]
    BY <2>1, <2>2
  <2>4. DOMAIN gone = 1 .. n
    BY <2>2, <2>3, LenProperties
  <2> QED
    BY <2>3, <2>4 DEF ToSet
<1>7. Keys(d) = Keys(c) \ ToSet(gone) /\ \A k \in Keys(d) : d.entries[k] = c.entries[k]
  BY <1>4 DEF Keys
<1>8. DOMAIN d.order = 1 .. l - n
  BY <1>5, LenProperties
<1>9. ToSet(d.order) = {c.order[n + i] : i \in 1 .. l - n}
  BY <1>5, <1>8 DEF ToSet
<1>10. ToSet(d.order) = Keys(d)
  <2>1. ASSUME NEW k \in ToSet(d.order) PROVE k \in Keys(d)
    <3>1. PICK i \in 1 .. l - n : k = c.order[n + i]
      BY <1>9, <2>1
    <3>2. n + i \in 1 .. l /\ \A j \in 1 .. n : j \in 1 .. l /\ j # n + i
      BY <1>2
    <3>3. k \in Keys(c) /\ \A j \in 1 .. n : c.order[j] # k
      BY <1>1, <1>2, <3>1, <3>2
    <3> QED
      BY <1>6, <1>7, <3>3
  <2>2. ASSUME NEW k \in Keys(d) PROVE k \in ToSet(d.order)
    <3>1. k \in Keys(c) /\ \A i \in 1 .. n : k # c.order[i]
      BY <1>6, <1>7
    <3>2. PICK i \in 1 .. l : k = c.order[i]
      BY <1>1, <1>3, <3>1
    <3>3. i \notin 1 .. n
      BY <3>1, <3>2
    <3>4. i - n \in 1 .. l - n /\ n + (i - n) = i
      BY <1>2, <3>3
    <3> QED
      BY <1>9, <3>2, <3>4
  <2> QED
    BY <2>1, <2>2
<1>11. \A i, j \in 1 .. Len(d.order) : d.order[i] = d.order[j] => i = j
  <2> SUFFICES ASSUME NEW i \in 1 .. l - n, NEW j \in 1 .. l - n, d.order[i] = d.order[j]
               PROVE  i = j
    BY <1>5
  <2>1. n + i \in 1 .. l /\ n + j \in 1 .. l
    BY <1>2
  <2>2. c.order[n + i] = c.order[n + j]
    BY <1>5
  <2>3. n + i = n + j
    BY <1>1, <2>1, <2>2
  <2> QED
    BY <2>3
<1>12. \A k \in Keys(d) : d.entries[k] \in V
  BY <1>1, <1>7
<1>13. PICK t : IsTotal(t, Costs(c, cost), l) /\ TotalCost(c, cost) = t[l]
  BY <1>2, TotalCostIs
<1>14. d.bytes = t[l] - t[n]
  <2>1. c.bytes = t[l]
    BY <1>1, <1>13
  <2> QED
    BY <1>2, <1>4, <1>13, <2>1, BytesWithoutIs
<1>15. /\ Costs(d, cost) \in [1 .. l - n -> Nat]
       /\ \A i \in 1 .. l - n : Costs(d, cost)[i] = CostAt(d, i, cost)
  <2>1. Ordered(d, K, V)
    BY <1>5, <1>10, <1>12 DEF Ordered
  <2>2. /\ Costs(d, cost) \in [1 .. Len(d.order) -> Nat]
        /\ \A i \in 1 .. Len(d.order) : Costs(d, cost)[i] = CostAt(d, i, cost)
    BY <2>1, CostsType
  <2>3. Len(d.order) = l - n
    BY <1>5
  <2> QED
    BY <2>2, <2>3
<1>16. PICK u : IsTotal(u, Costs(d, cost), l - n) /\ TotalCost(d, cost) = u[l - n]
  <2>1. Len(d.order) \in Nat /\ Len(d.order) = l - n
    BY <1>2, <1>5
  <2> QED
    BY <1>15, <2>1, TotalCostIs
<1>17. \A i \in 1 .. l - n : Costs(d, cost)[i] = Costs(c, cost)[n + i]
  <2> TAKE i \in 1 .. l - n
  <2>1. n + i \in 1 .. l
    BY <1>2
  <2>2. d.order[i] = c.order[n + i] /\ d.order[i] \in Keys(d)
    BY <1>5, <1>9, <1>10
  <2>3. d.entries[d.order[i]] = c.entries[c.order[n + i]]
    BY <1>7, <2>2
  <2> QED
    BY <1>2, <1>15, <2>1, <2>2, <2>3 DEF CostAt
<1>18. d.bytes = TotalCost(d, cost)
  <2>1. u[l - n] = t[l] - t[n]
    <3>1. Shifted(Costs(d, cost), Costs(c, cost), n, l - n)
      BY <1>17 DEF Shifted
    <3> DEFINE m == l - n
    <3>2. n \in Nat /\ m \in Nat /\ n + m = l
      BY <1>2
    <3>3. Costs(c, cost) \in [1 .. n + m -> Nat] /\ IsTotal(t, Costs(c, cost), n + m)
      BY <1>2, <1>13, <3>2
    <3>4. /\ Costs(d, cost) \in [1 .. m -> Nat] /\ IsTotal(u, Costs(d, cost), m)
          /\ Shifted(Costs(d, cost), Costs(c, cost), n, m)
      BY <1>15, <1>16, <3>1
    <3>5. u[m] = u[l - n] /\ t[n + m] = t[l]
      BY <3>2
    <3> HIDE DEF m
    <3>6. u[m] = t[n + m] - t[n]
      BY <3>2, <3>3, <3>4, TotalOfRest
    <3> QED
      BY <3>5, <3>6
  <2> QED
    BY <1>14, <1>16, <2>1
<1>19. t[n] \in Nat /\ t[l] \in Nat /\ t[n] <= t[l]
  <2>1. \A j \in 0 .. l : \A i \in 0 .. j : t[i] <= t[j]
    BY <1>2, <1>13, TotalGrows
  <2>2. l \in 0 .. l /\ n \in 0 .. l
    BY <1>2
  <2> QED
    BY <1>13, <2>1, <2>2 DEF IsTotal
<1>20. d.bytes \in Nat /\ d.bytes <= maxBytes /\ (n = l => d.bytes = 0)
  <2>1. t[l] <= maxBytes
    BY <1>1, <1>13
  <2> QED
    BY <1>14, <1>19, <2>1
<1>21. Len(d.order) <= maxEntries
  BY <1>1, <1>2, <1>5
<1>22. Booked(d, K, V, cost, maxEntries, maxBytes)
  BY <1>5, <1>10, <1>11, <1>12, <1>18, <1>20, <1>21 DEF Booked, Ordered, Distinct
<1> QED
  BY <1>5, <1>7, <1>20, <1>22 DEF d, Left

\* Evictions stop as soon as the new entry fits, and it fits into what is left.
LEMMA EvictFits ==
    ASSUME NEW K, NEW V, NEW cost \in [K \X V -> Nat],
           NEW maxEntries \in Nat, NEW maxBytes \in Nat,
           NEW c, Booked(c, K, V, cost, maxEntries, maxBytes),
           NEW need \in 0 .. maxBytes, maxEntries # 0
    PROVE  \E n \in 0 .. Len(c.order) :
              LET d == WithoutOldest(c, n, cost)
              IN  /\ Evict(c, cost, need, maxEntries, maxBytes) = d
                  /\ Len(d.order) < maxEntries /\ d.bytes + need <= maxBytes
<1> DEFINE l == Len(c.order)
           fits(n) == Fits(WithoutOldest(c, n, cost), need, maxEntries, maxBytes)
           T == {n \in 0 .. l : fits(n)}
           evicted == {n \in 1 .. l : \A m \in 0 .. n - 1 : ~ fits(m)}
<1>1. l \in Nat
  BY CostsType DEF Booked
<1>2. ASSUME NEW n \in 0 .. l
      PROVE  /\ Size(WithoutOldest(c, n, cost)) = Len(WithoutOldest(c, n, cost).order)
             /\ Len(WithoutOldest(c, n, cost).order) = l - n
             /\ n = l => WithoutOldest(c, n, cost).bytes = 0
  <2> DEFINE d == WithoutOldest(c, n, cost)
  <2>0. Booked(d, K, V, cost, maxEntries, maxBytes) /\ Left(d, c, n)
    BY EvictionBooked
  <2> HIDE DEF d
  <2>1. /\ Booked(d, K, V, cost, maxEntries, maxBytes) /\ Len(d.order) = l - n
        /\ n = l => d.bytes = 0
    BY <2>0 DEF Left
  <2>2. d.order \in Seq(K) /\ Distinct(d.order) /\ ToSet(d.order) = Keys(d)
    BY <2>1 DEF Booked, Ordered
  <2>3. Size(d) = Len(d.order)
    BY <2>2, DistinctSize DEF Size
  <2> QED
    BY <2>1, <2>3 DEF d
<1>3. fits(l)
  <2>1. l \in 0 .. l
    BY <1>1
  <2>2. Size(WithoutOldest(c, l, cost)) = 0 /\ WithoutOldest(c, l, cost).bytes = 0
    BY <1>1, <1>2, <2>1
  <2> QED
    BY <2>2 DEF Fits
<1>4. \A n \in 0 .. l : fits(n) => /\ Len(WithoutOldest(c, n, cost).order) < maxEntries
                                   /\ WithoutOldest(c, n, cost).bytes + need <= maxBytes
  BY <1>2 DEF Fits
<1>5. Evict(c, cost, need, maxEntries, maxBytes) = WithoutOldest(c, Cardinality(evicted), cost)
  BY DEF Evict
<1> HIDE DEF fits
<1>6. T \in SUBSET Nat /\ l \in T
  BY <1>1, <1>3
<1>7. PICK e \in T : \A m \in T : e <= m
  BY <1>6, Least
<1>8. evicted = 1 .. e
  <2>1. e \in 0 .. l /\ fits(e) /\ \A m \in 0 .. l : fits(m) => e <= m
    BY <1>7
  <2>2. ASSUME NEW n \in 1 .. e PROVE n \in evicted
    <3>1. n \in 1 .. l /\ \A m \in 0 .. n - 1 : m \in 0 .. l /\ ~(e <= m)
      BY <1>1, <2>1
    <3> QED
      BY <2>1, <3>1
  <2>3. ASSUME NEW n \in evicted PROVE n \in 1 .. e
    <3>1. n \in 1 .. l /\ \A m \in 0 .. n - 1 : ~ fits(m)
      OBVIOUS
    <3>2. e \notin 0 .. n - 1
      BY <2>1, <3>1
    <3> QED
      BY <1>1, <2>1, <3>1, <3>2
  <2> HIDE DEF evicted
  <2> QED
    BY <2>2, <2>3
<1>9. Cardinality(evicted) = e
  <2>1. e \in Nat
    BY <1>6, <1>7
  <2>2. Cardinality(1 .. e) = IF 1 > e THEN 0 ELSE e - 1 + 1
    BY <2>1, FS_Interval
  <2> HIDE DEF evicted
  <2> QED
    BY <1>8, <2>1, <2>2
<1>10. e \in 0 .. l /\ fits(e)
  BY <1>7
<1> QED
  BY <1>4, <1>5, <1>9, <1>10

\* A new entry comes last; the ones that leave for it take their bytes with them.
LEMMA FifoBooked ==
    ASSUME NEW K, NEW V, NEW cost \in [K \X V -> Nat],
           NEW maxEntries \in Nat, NEW maxBytes \in Nat,
           NEW c, Booked(c, K, V, cost, maxEntries, maxBytes),
           NEW k \in K, NEW v \in V, k \notin Keys(c)
    PROVE  Booked(FifoInsert(c, k, v, cost, maxEntries, maxBytes), K, V, cost, maxEntries, maxBytes)
<1> DEFINE need == cost[<<k, v>>]
           room == Evict(RemoveEntry(c, k, cost), cost, need, maxEntries, maxBytes)
           d == [entries |-> With(room.entries, k, v),
                 order   |-> Append(room.order, k),
                 bytes   |-> room.bytes + need]
<1>1. CASE maxEntries = 0 \/ need > maxBytes
  <2>1. FifoInsert(c, k, v, cost, maxEntries, maxBytes) = c
    BY <1>1 DEF FifoInsert
  <2> QED
    BY <2>1
<1>2. CASE ~(maxEntries = 0 \/ need > maxBytes)
  <2>1. FifoInsert(c, k, v, cost, maxEntries, maxBytes) = d
    BY <1>2 DEF FifoInsert
  <2>2. RemoveEntry(c, k, cost) = c
    BY DEF RemoveEntry
  <2>3. need \in 0 .. maxBytes /\ maxEntries # 0 /\ need \in Nat
    <3>1. <<k, v>> \in K \X V
      OBVIOUS
    <3>2. need \in Nat
      BY <3>1
    <3> HIDE DEF need
    <3> QED
      BY <1>2, <3>2
  <2>4. PICK n \in 0 .. Len(c.order) :
              /\ Evict(c, cost, need, maxEntries, maxBytes) = WithoutOldest(c, n, cost)
              /\ Len(WithoutOldest(c, n, cost).order) < maxEntries
              /\ WithoutOldest(c, n, cost).bytes + need <= maxBytes
    BY <2>3, EvictFits
  <2>5. room = WithoutOldest(c, n, cost)
    BY <2>2, <2>4
  <2>6. /\ Booked(room, K, V, cost, maxEntries, maxBytes) /\ Keys(room) \subseteq Keys(c)
        /\ room.bytes \in Nat
    <3>1. /\ Booked(WithoutOldest(c, n, cost), K, V, cost, maxEntries, maxBytes)
          /\ Left(WithoutOldest(c, n, cost), c, n)
      BY EvictionBooked
    <3> QED
      BY <2>5, <3>1 DEF Left
  <2>7. Len(room.order) < maxEntries /\ room.bytes + need <= maxBytes
    BY <2>4, <2>5
  <2>8. need = cost[<<k, v>>]
    OBVIOUS
  <2> HIDE DEF room, need
  <2>9. d.entries = With(room.entries, k, v) /\ d.order = Append(room.order, k)
        /\ d.bytes = room.bytes + need
    OBVIOUS
  <2> HIDE DEF d
  <2> DEFINE m == Len(room.order)
  <2>10. /\ room.order \in Seq(K) /\ Distinct(room.order) /\ ToSet(room.order) = Keys(room)
         /\ (\A x \in Keys(room) : room.entries[x] \in V) /\ room.bytes = TotalCost(room, cost)
    BY <2>6 DEF Booked, Ordered
  <2>11. /\ m \in Nat /\ Costs(room, cost) \in [1 .. m -> Nat]
         /\ \A i \in 1 .. m : /\ room.order[i] \in K /\ room.order[i] \in Keys(room)
                              /\ Costs(room, cost)[i] = CostAt(room, i, cost)
    <3>1. Ordered(room, K, V)
      BY <2>6 DEF Booked
    <3> QED
      BY <3>1, CostsType
  <2>12. /\ d.order \in Seq(K) /\ Len(d.order) = m + 1
         /\ \A i \in 1 .. m : d.order[i] = room.order[i]
         /\ d.order[m + 1] = k
    BY <2>9, <2>10, AppendProperties
  <2>13. k \notin Keys(room)
    BY <2>6
  <2>14. Distinct(d.order)
    <3> SUFFICES ASSUME NEW i \in 1 .. m + 1, NEW j \in 1 .. m + 1, d.order[i] = d.order[j]
                 PROVE  i = j
      BY <2>12 DEF Distinct
    <3>1. CASE i \in 1 .. m /\ j \in 1 .. m
      BY <2>10, <2>12, <3>1 DEF Distinct
    <3>2. CASE i = m + 1 /\ j \in 1 .. m
      BY <2>11, <2>12, <2>13, <3>2
    <3>3. CASE i \in 1 .. m /\ j = m + 1
      BY <2>11, <2>12, <2>13, <3>3
    <3>4. CASE i = m + 1 /\ j = m + 1
      BY <3>4
    <3> QED
      BY <2>11, <3>1, <3>2, <3>3, <3>4
  <2>15. Keys(d) = Keys(room) \cup {k} /\ d.entries[k] = v
         /\ \A x \in Keys(room) : d.entries[x] = room.entries[x]
    BY <2>9, <2>13 DEF With, Keys
  <2>16. ToSet(d.order) = Keys(d)
    <3>1. DOMAIN d.order = 1 .. m + 1 /\ DOMAIN room.order = 1 .. m
      BY <2>10, <2>12, LenProperties
    <3>2. ToSet(room.order) = {room.order[i] : i \in 1 .. m}
      BY <3>1 DEF ToSet
    <3>3. ToSet(d.order) = {d.order[i] : i \in 1 .. m + 1}
      BY <3>1 DEF ToSet
    <3>4. 1 .. m + 1 = (1 .. m) \cup {m + 1}
      BY <2>11
    <3>5. ToSet(d.order) = {d.order[i] : i \in 1 .. m} \cup {d.order[m + 1]}
      BY <3>3, <3>4
    <3>6. {d.order[i] : i \in 1 .. m} = {room.order[i] : i \in 1 .. m}
      BY <2>12
    <3>7. ToSet(d.order) = ToSet(room.order) \cup {k}
      BY <2>12, <3>2, <3>5, <3>6
    <3> QED
      BY <2>10, <2>15, <3>7
  <2>17. Ordered(d, K, V)
    <3>1. \A x \in Keys(d) : d.entries[x] \in V
      BY <2>10, <2>15
    <3> QED
      BY <2>12, <2>16, <3>1 DEF Ordered
  <2>18. /\ Len(d.order) \in Nat /\ Costs(d, cost) \in [1 .. Len(d.order) -> Nat]
         /\ \A i \in 1 .. Len(d.order) : Costs(d, cost)[i] = CostAt(d, i, cost)
    BY <2>17, CostsType
  <2>19. PICK t : IsTotal(t, Costs(room, cost), m) /\ TotalCost(room, cost) = t[m]
    BY <2>11, TotalCostIs
  <2>20. PICK u : IsTotal(u, Costs(d, cost), m + 1) /\ TotalCost(d, cost) = u[m + 1]
    <3>1. PICK u : IsTotal(u, Costs(d, cost), Len(d.order)) /\ TotalCost(d, cost) = u[Len(d.order)]
      BY <2>18, TotalCostIs
    <3> QED
      BY <2>12, <3>1
  <2>21. Shifted(Costs(d, cost), Costs(room, cost), 0, m)
    <3> SUFFICES ASSUME NEW i \in 1 .. m
                 PROVE  Costs(d, cost)[i] = Costs(room, cost)[0 + i]
      BY DEF Shifted
    <3>1. i \in 1 .. Len(d.order) /\ 0 + i = i
      BY <2>11, <2>12
    <3>2. d.order[i] = room.order[i] /\ room.order[i] \in Keys(room)
      BY <2>11, <2>12
    <3>3. d.entries[d.order[i]] = room.entries[room.order[i]]
      BY <2>15, <3>2
    <3> QED
      BY <2>11, <2>18, <3>1, <3>2, <3>3 DEF CostAt
  <2>22. Costs(d, cost)[m + 1] = need
    <3>1. m + 1 \in 1 .. Len(d.order)
      BY <2>11, <2>12
    <3>2. CostAt(d, m + 1, cost) = need
      BY <2>8, <2>12, <2>15 DEF CostAt
    <3> QED
      BY <2>18, <3>1, <3>2
  <2>23. u[m + 1] = t[m] + Costs(d, cost)[m + 1]
    BY <2>11, <2>19, <2>20, <2>21, TotalOfMore
  <2>24. d.bytes = TotalCost(d, cost)
    BY <2>9, <2>10, <2>19, <2>20, <2>22, <2>23
  <2>25. d.bytes <= maxBytes /\ Len(d.order) <= maxEntries
    BY <2>7, <2>9, <2>11, <2>12
  <2>26. Booked(d, K, V, cost, maxEntries, maxBytes)
    BY <2>14, <2>17, <2>24, <2>25 DEF Booked
  <2> QED
    BY <2>1, <2>26
<1> QED
  BY <1>1, <1>2

-----------------------------------------------------------------------------
(* The caches of the runtimes.                                             *)

MetalCaches ==
  /\ Booked(lutCache, Key, Device, TableBytes, MaxTables, MaxTableBytes)
  /\ Booked(moduleCache, Source, Module, NoBytes, MaxPipelines, 0)
  /\ Cardinality(Pooled(Device)) <= MaxBuffers

HipCaches ==
  /\ Booked(codeCache, Source, {"compiled", "restored"}, CodeBytes, MaxCodes, MaxCodeBytes)
  /\ IsFiniteSet(Keys(moduleCache)) /\ Size(moduleCache) <= MaxModules

CacheInv == (backend = "Metal" => MetalCaches) /\ (backend = "Hip" => HipCaches)

LEMMA InvCaches == CacheInv => CachesAccounted
<1> SUFFICES ASSUME CacheInv PROVE CachesAccounted
  OBVIOUS
<1>1. ASSUME backend = "Metal"
      PROVE  /\ Accounted(lutCache, TableBytes, MaxTables, MaxTableBytes)
             /\ Accounted(moduleCache, NoBytes, MaxPipelines, 0)
             /\ Cardinality(Pooled(Device)) <= MaxBuffers
  BY <1>1, BookedAccounted DEF CacheInv, MetalCaches
<1>2. ASSUME backend = "Hip"
      PROVE  /\ Accounted(codeCache, CodeBytes, MaxCodes, MaxCodeBytes)
             /\ Size(moduleCache) <= MaxModules
  BY <1>2, BookedAccounted DEF CacheInv, HipCaches
<1> QED
  BY <1>1, <1>2 DEF CachesAccounted

LEMMA CostsTyped ==
    /\ TableBytes \in [Key \X Device -> Nat] /\ NoBytes \in [Source \X Module -> Nat]
    /\ CodeBytes \in [Source \X {"compiled", "restored"} -> Nat]
    /\ MaxTables \in Nat /\ MaxTableBytes \in Nat /\ MaxPipelines \in Nat
    /\ MaxCodes \in Nat /\ MaxCodeBytes \in Nat /\ MaxModules \in Nat /\ MaxBuffers \in Nat
<1>1. NoBytes \in [Source \X Module -> Nat]
  BY DEF NoBytes
<1> QED
  BY <1>1, MetalAssumption, HipAssumption

LEMMA EmptyCaches ==
    /\ Booked(EmptyCache, Key, Device, TableBytes, MaxTables, MaxTableBytes)
    /\ Booked(EmptyCache, Source, Module, NoBytes, MaxPipelines, 0)
    /\ Booked(EmptyCache, Source, {"compiled", "restored"}, CodeBytes, MaxCodes, MaxCodeBytes)
    /\ IsFiniteSet(Keys(EmptyCache)) /\ Size(EmptyCache) = 0
<1>1. Keys(EmptyCache) = {}
  BY EmptyIsCache
<1>2. IsFiniteSet(Keys(EmptyCache)) /\ Size(EmptyCache) = 0
  BY <1>1, FS_EmptySet DEF Size
<1>3. Booked(EmptyCache, Key, Device, TableBytes, MaxTables, MaxTableBytes)
  BY CostsTyped, EmptyBooked
<1>4. Booked(EmptyCache, Source, Module, NoBytes, MaxPipelines, 0)
  BY CostsTyped, EmptyBooked
<1>5. Booked(EmptyCache, Source, {"compiled", "restored"}, CodeBytes, MaxCodes, MaxCodeBytes)
  BY CostsTyped, EmptyBooked
<1> QED
  BY <1>2, <1>3, <1>4, <1>5

LEMMA NonePooled ==
    ASSUME \A h \in Handle : pool[h] = 0
    PROVE  Pooled(Device) = {} /\ Cardinality(Pooled(Device)) = 0
<1>1. Pooled(Device) = {}
  BY DEF Pooled, Handle
<1> QED
  BY <1>1, FS_EmptySet

LEMMA InitCaches ==
    ASSUME NativeInit
    PROVE  CacheInv
<1>1. /\ lutCache = EmptyCache /\ moduleCache = EmptyCache /\ codeCache = EmptyCache
      /\ \A h \in Handle : pool[h] = 0
  BY DEF NativeInit, Init
<1>2. MetalCaches
  BY <1>1, EmptyCaches, NonePooled, CostsTyped DEF MetalCaches
<1>3. HipCaches
  BY <1>1, EmptyCaches, CostsTyped DEF HipCaches
<1> QED
  BY <1>2, <1>3 DEF CacheInv

LEMMA StillCaches ==
    ASSUME CacheInv, UNCHANGED vars
    PROVE  CacheInv'
<1>1. UNCHANGED <<backend, lutCache, moduleCache, codeCache, pool>>
  BY DEF vars, nativeVars, handleVars, dataVars, codeVars
<1>2. Pooled(Device)' = Pooled(Device)
  BY <1>1 DEF Pooled
<1>3. Keys(moduleCache)' = Keys(moduleCache) /\ Size(moduleCache)' = Size(moduleCache)
  BY <1>1 DEF Keys, Size
<1> QED
  BY <1>1, <1>2, <1>3 DEF CacheInv, MetalCaches, HipCaches

\* A pool that only gives buffers away.
LEMMA PoolShrinks ==
    ASSUME Types, pool' \in [Handle -> Nat], \A h \in Device : pool'[h] > 0 => pool[h] > 0,
           Cardinality(Pooled(Device)) <= MaxBuffers
    PROVE  Cardinality(Pooled(Device))' <= MaxBuffers
<1>1. IsFiniteSet(Device)
  BY NativeAssumption, FS_Subset DEF Handle
<1>2. Pooled(Device) \in SUBSET Device /\ Pooled(Device)' \in SUBSET Pooled(Device)
  BY DEF Pooled
<1>3. IsFiniteSet(Pooled(Device)) /\ Cardinality(Pooled(Device)) \in Nat
  BY <1>1, <1>2, FS_Subset, FS_CardinalityType
<1>4. /\ Cardinality(Pooled(Device)') \in Nat
      /\ Cardinality(Pooled(Device)') <= Cardinality(Pooled(Device))
  BY <1>2, <1>3, FS_Subset, FS_CardinalityType
<1> QED
  BY <1>3, <1>4, CostsTyped

\* Recycled buffers for which the pool has no room are released.
LEMMA RecycledFit ==
    ASSUME Inv, NEW j \in Job, recycle_buffers(j)
    PROVE  Cardinality(Pooled(Device))' <= MaxBuffers
<1> DEFINE all == Pooled(Device) \cup Offered(j)
           room == MaxBuffers - Cardinality(all)
           gone == IF room >= 0 THEN {}
                   ELSE CHOOSE S \in SUBSET all : Cardinality(S) = 0 - room
<1>1. IsFiniteSet(all) /\ Cardinality(all) \in Nat /\ MaxBuffers \in Nat
  <2>1. IsFiniteSet(Handle) /\ Pooled(Device) \subseteq Handle
    BY NativeAssumption DEF Pooled, Handle
  <2>2. IsFiniteSet(Handle \cup {None})
    BY <2>1, FS_AddElement
  <2>3. Offered(j) \subseteq Handle \cup {None}
    BY TicketSequences DEF Inv, Offered, Recyclable, Handle
  <2>4. all \in SUBSET (Handle \cup {None})
    BY <2>1, <2>3
  <2> QED
    BY <2>2, <2>4, FS_Subset, FS_CardinalityType, MetalAssumption
<1>2. /\ gone \in SUBSET all
      /\ IF room >= 0 THEN gone = {} ELSE Cardinality(gone) = 0 - room
  <2>1. CASE room >= 0
    BY <2>1
  <2>2. CASE ~(room >= 0)
    <3>1. 0 - room \in Nat /\ 0 - room <= Cardinality(all)
      BY <1>1, <2>2
    <3> HIDE DEF all, room
    <3>2. \E S \in SUBSET all : Cardinality(S) = 0 - room
      BY <1>1, <3>1, SubsetOfSize
    <3> QED
      BY <2>2, <3>2
  <2> QED
    BY <2>1, <2>2
<1>3. pool' = [h \in Handle |-> IF h \in gone THEN 0
                               ELSE pool[h] + (IF h \in Offered(j) \ gone THEN 1 ELSE 0)]
  BY DEF recycle_buffers, Offered
<1>4. \A h \in Device : h \in Handle
  BY DEF Handle
<1> HIDE DEF gone
<1>5. \A h \in Device : pool'[h] > 0 => h \in all \ gone
  <2> SUFFICES ASSUME NEW h \in Device, pool'[h] > 0 PROVE h \in all \ gone
    OBVIOUS
  <2>1. pool'[h] = IF h \in gone THEN 0
                   ELSE pool[h] + (IF h \in Offered(j) \ gone THEN 1 ELSE 0)
    BY <1>3, <1>4
  <2>2. h \notin gone /\ (pool[h] + 0 > 0 \/ h \in Offered(j))
    BY <2>1
  <2>3. pool[h] \in Nat
    BY <1>4 DEF Inv, Types, HandleTypes
  <2> QED
    BY <2>2, <2>3 DEF Pooled
<1>6. Pooled(Device)' \in SUBSET (all \ gone)
  BY <1>5 DEF Pooled
<1>7. /\ IsFiniteSet(all \ gone) /\ IsFiniteSet(gone)
      /\ Cardinality(all \ gone) = Cardinality(all) - Cardinality(gone)
  <2>1. IsFiniteSet(gone) /\ all \cap gone = gone
    BY <1>1, <1>2, FS_Subset
  <2> HIDE DEF all
  <2> QED
    BY <1>1, <2>1, FS_Difference
<1>8. Cardinality(all \ gone) <= MaxBuffers
  <2>1. CASE room >= 0
    <3>1. Cardinality(gone) = 0
      BY <1>2, <2>1, FS_EmptySet
    <3> QED
      BY <1>1, <1>7, <2>1, <3>1
  <2>2. CASE ~(room >= 0)
    BY <1>1, <1>2, <1>7, <2>2
  <2> QED
    BY <2>1, <2>2
<1>9. /\ Cardinality(Pooled(Device)') \in Nat /\ Cardinality(all \ gone) \in Nat
      /\ Cardinality(Pooled(Device)') <= Cardinality(all \ gone)
  <2> HIDE DEF all
  <2> QED
    BY <1>6, <1>7, FS_Subset, FS_CardinalityType
<1> QED
  BY <1>1, <1>8, <1>9

\* A compiled pipeline is cached in its turn.
LEMMA PipelineBooked ==
    ASSUME Booked(moduleCache, Source, Module, NoBytes, MaxPipelines, 0),
           NEW s \in Source \ Keys(moduleCache), NEW own, CompilePipeline(s, own)
    PROVE  Booked(moduleCache', Source, Module, NoBytes, MaxPipelines, 0)
<1>1. PICK m \in OneOf(Fresh(Module)) :
         moduleCache' = FifoInsert(moduleCache, s, m, NoBytes, MaxPipelines, 0)
  BY DEF CompilePipeline
<1>2. m \in Module
  BY FreshNew
<1>3. /\ Booked(moduleCache, Source, Module, NoBytes, MaxPipelines, 0)
      /\ NoBytes \in [Source \X Module -> Nat] /\ MaxPipelines \in Nat /\ 0 \in Nat
      /\ s \in Source /\ s \notin Keys(moduleCache)
  BY CostsTyped
<1>4. Booked(FifoInsert(moduleCache, s, m, NoBytes, MaxPipelines, 0), Source, Module,
             NoBytes, MaxPipelines, 0)
  BY <1>2, <1>3, FifoBooked
<1> QED
  BY <1>1, <1>4

LEMMA MetalCachesKept ==
    ASSUME Inv, MetalCaches, ~Explicit, Next
    PROVE  MetalCaches'
<1>1. Types /\ Control /\ pool \in [Handle -> Nat] /\ \A d \in Device : d \in Handle
  BY DEF Inv, Types, HandleTypes, Handle
<1>2. ASSUME UNCHANGED <<lutCache, moduleCache, pool>> PROVE MetalCaches'
  <2>1. Pooled(Device)' = Pooled(Device)
    BY <1>2 DEF Pooled
  <2> QED
    BY <1>2, <2>1 DEF MetalCaches
<1>3. ASSUME NEW s \in Source, NEW own, CompilePipeline(s, own), s \notin Keys(moduleCache),
             UNCHANGED <<lutCache, pool>>
      PROVE  MetalCaches'
  <2>1. Booked(moduleCache', Source, Module, NoBytes, MaxPipelines, 0)
    BY <1>3, PipelineBooked DEF MetalCaches
  <2>2. Pooled(Device)' = Pooled(Device)
    BY <1>3 DEF Pooled
  <2> QED
    BY <1>3, <2>1, <2>2 DEF MetalCaches
<1>4. ASSUME NEW d, Unpool({d}) PROVE Cardinality(Pooled(Device))' <= MaxBuffers
  <2>1. /\ pool' \in [Handle -> Nat]
        /\ \A h \in Device : pool'[h] > 0 => pool[h] > 0
    BY <1>1, <1>4 DEF Unpool, Minus
  <2> QED
    BY <1>1, <2>1, PoolShrinks DEF MetalCaches
<1>5. ASSUME NEW j \in Job, MetalMove(j) PROVE MetalCaches'
  <2>1. CASE (\E c \in Chains[j] : Submit(j, c, "alloc")) \/ MovesOn(j) \/ commit(j)
             \/ DeviceEnds(j)
    BY <1>2, <2>1 DEF Submit, MovesOn, commit, DeviceEnds, handleVars, dataVars, codeVars
  <2>2. CASE metal_cached_table(j) \/ metal_cached_pipeline(j) \/ metal_unwinds(j)
             \/ MetalReleases(j)
    BY <1>2, <2>2 DEF metal_cached_table, metal_cached_pipeline, metal_unwinds,
       MetalReleases, dataVars, codeVars
  <2>3. CASE take_lookup_buffer(j)
    <3> DEFINE k == TheEntry(j)
    <3>1. k \in Key /\ k \notin Keys(lutCache) /\ moduleCache' = moduleCache
      BY <2>3 DEF take_lookup_buffer, codeVars
    <3>2. PICK d \in Obtainable(Device) :
             /\ Unpool({d})
             /\ lutCache' = FifoInsert(lutCache, k, d, TableBytes, MaxTables, MaxTableBytes)
      BY <2>3 DEF take_lookup_buffer
    <3>3. d \in Device
      BY <3>2, Obtained
    <3> HIDE DEF k
    <3>4. Booked(FifoInsert(lutCache, k, d, TableBytes, MaxTables, MaxTableBytes), Key, Device,
                 TableBytes, MaxTables, MaxTableBytes)
      BY <3>1, <3>3, CostsTyped, FifoBooked DEF MetalCaches
    <3>5. Cardinality(Pooled(Device))' <= MaxBuffers
      BY <1>4, <3>2
    <3> QED
      BY <3>1, <3>2, <3>4, <3>5 DEF MetalCaches
  <2>4. CASE take_shared_buffer(j)
    <3>1. PICK d \in Obtainable(Device) : Unpool({d})
      BY <2>4 DEF take_shared_buffer
    <3>2. UNCHANGED <<lutCache, moduleCache>>
      BY <2>4 DEF take_shared_buffer, codeVars
    <3>3. Cardinality(Pooled(Device))' <= MaxBuffers
      BY <1>4, <3>1
    <3> QED
      BY <3>2, <3>3 DEF MetalCaches
  <2>5. CASE compile_pipeline(j)
    <3>1. /\ CompilePipeline(NextSource(j), 1) /\ UNCHANGED <<lutCache, pool>>
          /\ NextSource(j) \notin Keys(moduleCache)
      BY <2>5 DEF compile_pipeline, dataVars
    <3>2. NextSource(j) \in Source
      BY <1>1, <2>5, NextSourceTyped DEF compile_pipeline, Loading, At
    <3> QED
      BY <1>3, <3>1, <3>2
  <2>6. CASE recycle_buffers(j)
    <3>1. UNCHANGED <<lutCache, moduleCache>>
      BY <2>6 DEF recycle_buffers, codeVars
    <3>2. Cardinality(Pooled(Device))' <= MaxBuffers
      BY <2>6, RecycledFit
    <3> QED
      BY <3>1, <3>2 DEF MetalCaches
  <2> QED
    BY <1>5, <2>1, <2>2, <2>3, <2>4, <2>5, <2>6 DEF MetalMove
<1>6. ASSUME NEW s \in Source, MetalReport(s) PROVE MetalCaches'
  <2>1. CompilePipeline(s, 0) /\ s \notin Keys(moduleCache) /\ UNCHANGED <<lutCache, pool>>
    BY <1>6 DEF MetalReport, dataVars
  <2> QED
    BY <1>3, <2>1
<1>7. CASE MetalDropContext
  <2>1. /\ lutCache' = EmptyCache /\ moduleCache' = EmptyCache
        /\ pool' = [h \in Handle |-> 0]
    BY <1>7 DEF MetalDropContext
  <2>2. Pooled(Device)' = {}
    BY <1>1, <2>1 DEF Pooled
  <2>3. Cardinality(Pooled(Device)') = 0
    BY <2>2, FS_EmptySet
  <2> QED
    BY <2>1, <2>3, EmptyCaches, CostsTyped DEF MetalCaches
<1> QED
  BY <1>5, <1>6, <1>7, MetalMoves

-----------------------------------------------------------------------------
(* What a step of HIP may do to its caches.                                *)

HipCacheMove ==
  /\ \/ UNCHANGED codeCache
     \/ codeCache' = EmptyCache
     \/ \E s \in Source \ Keys(codeCache), code \in {"compiled", "restored"} :
           codeCache' = InsertCode(codeCache, s, code)
  /\ \/ UNCHANGED moduleCache
     \/ moduleCache' = EmptyCache
     \/ /\ HasCapacity(moduleCache, MaxModules)
        /\ \E s \in Source, m \in Module : moduleCache' = InsertIfVacant(moduleCache, s, m)

LEMMA HipCacheMoves ==
    ASSUME Types, Control, backend = "Hip", Next
    PROVE  HipCacheMove
<1>0. \A m \in OneOf(Fresh(Module)) : m \in Module
  BY FreshNew
<1>1. ASSUME UNCHANGED <<moduleCache, codeCache>> PROVE HipCacheMove
  BY <1>1 DEF HipCacheMove
<1>2. CASE Failure
  <2>1. CASE ClearPoolFails
    BY <2>1 DEF ClearPoolFails, Drain, HipCacheMove
  <2>2. CASE \E j \in Job : SubmitFails(j) \/ FinishFails(j) \/ DropWaitFails(j)
    BY <1>1, <2>2 DEF SubmitFails, FinishFails, DropWaitFails, DropGoesOn, codeVars
  <2>3. CASE \E j \in Job : \E i \in pending[j] : FreeDuplicateFails(j, i)
    BY <1>1, <2>3 DEF FreeDuplicateFails, codeVars
  <2> QED
    BY <1>2, <2>1, <2>2, <2>3 DEF Failure
<1>3. ASSUME NEW j \in Job, CommonStep(j) \/ DeviceEnds(j) PROVE HipCacheMove
  <2>1. CASE cached_table(j) \/ take_resident(j) \/ take_transient(j) \/ allocated(j)
             \/ all_loaded(j) \/ launch(j) \/ Wait(j) \/ DropTicket(j)
    BY <1>1, <2>1 DEF cached_table, take_resident, take_transient, allocated, all_loaded,
       launch, Wait, DropTicket, codeVars
  <2>2. CASE synchronize(j) \/ read_output(j) \/ DropWaits(j) \/ DeviceEnds(j)
    BY <1>1, <2>2 DEF synchronize, read_output, DropWaits, DropGoesOn, DeviceEnds, codeVars
  <2>3. CASE \E i \in pending[j] : insert_lut(j, i)
    BY <1>1, <2>3 DEF insert_lut
  <2> QED
    BY <1>3, <2>1, <2>2, <2>3 DEF CommonStep
<1>4. ASSUME NEW j \in Job, HipTicketStep(j) PROVE HipCacheMove
  <2>1. CASE HipSubmit(j) \/ hip_take_stream(j)
    BY <1>1, <2>1 DEF HipSubmit, Submit, hip_take_stream, take_queue, codeVars
  <2>2. CASE hip_allocate(j)
    <3>1. CASE cached_table(j) \/ take_transient(j) \/ allocated(j)
      BY <1>3, <3>1 DEF CommonStep
    <3>2. CASE upload_table(j, Obtainable(Device))
      BY <1>1, <3>2 DEF upload_table, codeVars
    <3> QED
      BY <2>2, <3>1, <3>2 DEF hip_allocate
  <2>3. CASE hip_cached_module(j)
    BY <1>1, <2>3 DEF hip_cached_module
  <2>4. CASE compile_shader_source(j)
    <3>1. NextSource(j) \in Source
      BY <2>4, NextSourceTyped DEF compile_shader_source, Loading, At
    <3>2. UNCHANGED moduleCache
      BY <2>4 DEF compile_shader_source
    <3>3. \/ UNCHANGED codeCache
          \/ /\ NextSource(j) \notin Keys(codeCache)
             /\ codeCache' = InsertCode(codeCache, NextSource(j), "compiled")
      BY <2>4 DEF compile_shader_source
    <3> QED
      BY <3>1, <3>2, <3>3 DEF HipCacheMove
  <2>5. CASE load_module_function(j)
    <3>1. NextSource(j) \in Source
      <4>1. Flow(j) /\ phase[j] = "compiled"
        BY <2>5 DEF load_module_function, At, Control
      <4> QED
        BY <4>1, NextSourceTyped DEF Flow
    <3>2. PICK m \in OneOf(Fresh(Module)) :
             IF HasCapacity(moduleCache, MaxModules)
             THEN moduleCache' = InsertIfVacant(moduleCache, NextSource(j), m)
             ELSE UNCHANGED moduleCache
      BY <2>5 DEF load_module_function
    <3>3. UNCHANGED codeCache
      BY <2>5 DEF load_module_function
    <3> QED
      BY <1>0, <3>1, <3>2, <3>3 DEF HipCacheMove
  <2>6. CASE hip_launch(j)
    <3>1. CASE launch(j)
      BY <1>3, <3>1 DEF CommonStep
    <3>2. CASE all_launched(j)
      BY <1>1, <3>2 DEF all_launched, Submitted, codeVars
    <3> QED
      BY <2>6, <3>1, <3>2 DEF hip_launch
  <2>7. CASE recycle(j, {}) \/ hip_DropEnds(j) \/ hip_unload(j) \/ hip_Unwinds(j)
    BY <1>1, <2>7 DEF recycle, hip_DropEnds, DropEnds, hip_unload, hip_Unwinds, Unwinds,
       codeVars
  <2> QED
    BY <1>4, <2>1, <2>2, <2>3, <2>4, <2>5, <2>6, <2>7 DEF HipTicketStep
<1>5. ASSUME NEW s \in Source, HipReport(s) PROVE HipCacheMove
  <2>1. \/ UNCHANGED codeCache
        \/ s \notin Keys(codeCache) /\ codeCache' = InsertCode(codeCache, s, "compiled")
    BY <1>5 DEF HipReport
  <2>2. \/ UNCHANGED moduleCache
        \/ /\ HasCapacity(moduleCache, MaxModules)
           /\ \E m \in Module : moduleCache' = InsertIfVacant(moduleCache, s, m)
    BY <1>0, <1>5 DEF HipReport
  <2> QED
    BY <2>1, <2>2 DEF HipCacheMove
<1>6. ASSUME NEW e \in Archive, restore_hiprtc_code_archive(e[1], e[2]) PROVE HipCacheMove
  <2>1. e[1] \in Source /\ e[2] \in {"compiled", "restored"}
    BY NativeAssumption
  <2> QED
    BY <1>6, <2>1 DEF restore_hiprtc_code_archive, HipCacheMove
<1>7. CASE ClearPool
  BY <1>7 DEF ClearPool, Drain, HipCacheMove
<1>8. CASE HipClear
  BY <1>1, <1>8 DEF HipClear, BeginClear, codeVars
<1>9. CASE DropContext
  BY <1>9 DEF DropContext, HipCacheMove
<1>10. CASE HipStep
  BY <1>3, <1>4, <1>5, <1>6, <1>7, <1>8, <1>9, <1>10 DEF HipStep, HipTicketStep, CommonStep
<1> QED
  BY <1>2, <1>3, <1>10 DEF Next, Step

LEMMA HipCachesKept ==
    ASSUME Types, Control, backend = "Hip", HipCaches, Next
    PROVE  HipCaches'
<1>1. HipCacheMove
  BY HipCacheMoves
<1>2. Booked(codeCache', Source, {"compiled", "restored"}, CodeBytes, MaxCodes, MaxCodeBytes)
  <2>1. ASSUME NEW s \in Source \ Keys(codeCache), NEW code \in {"compiled", "restored"},
               codeCache' = InsertCode(codeCache, s, code)
        PROVE  Booked(codeCache', Source, {"compiled", "restored"}, CodeBytes, MaxCodes,
                      MaxCodeBytes)
    <3>1. Booked(FifoInsert(codeCache, s, code, CodeBytes, MaxCodes, MaxCodeBytes), Source,
                 {"compiled", "restored"}, CodeBytes, MaxCodes, MaxCodeBytes)
      BY CostsTyped, FifoBooked DEF HipCaches
    <3> QED
      BY <2>1, <3>1 DEF InsertCode
  <2>2. CASE UNCHANGED codeCache
    BY <2>2 DEF HipCaches
  <2>3. CASE codeCache' = EmptyCache
    BY <2>3, EmptyCaches
  <2> QED
    BY <1>1, <2>1, <2>2, <2>3 DEF HipCacheMove
<1>3. IsFiniteSet(Keys(moduleCache')) /\ Size(moduleCache') <= MaxModules
  <2>1. CASE UNCHANGED moduleCache
    BY <2>1 DEF HipCaches
  <2>2. CASE moduleCache' = EmptyCache
    BY <2>2, EmptyCaches, CostsTyped
  <2>3. ASSUME NEW s \in Source, NEW m \in Module, HasCapacity(moduleCache, MaxModules),
               moduleCache' = InsertIfVacant(moduleCache, s, m)
        PROVE  IsFiniteSet(Keys(moduleCache')) /\ Size(moduleCache') <= MaxModules
    <3>1. CASE s \in Keys(moduleCache)
      BY <2>3, <3>1 DEF InsertIfVacant, HipCaches
    <3>2. CASE s \notin Keys(moduleCache)
      <4>1. IsCache(moduleCache, Source, Module)
        BY DEF Types, CodeTypes
      <4>2. Keys(moduleCache') = Keys(moduleCache) \cup {s}
        BY <2>3, <3>2, <4>1, InsertExtends DEF Extends
      <4>3. /\ IsFiniteSet(Keys(moduleCache)) /\ Cardinality(Keys(moduleCache)) \in Nat
            /\ Cardinality(Keys(moduleCache)) < MaxModules
        BY <2>3, FS_CardinalityType DEF HipCaches, HasCapacity, Size
      <4>4. /\ IsFiniteSet(Keys(moduleCache) \cup {s})
            /\ Cardinality(Keys(moduleCache) \cup {s}) = Cardinality(Keys(moduleCache)) + 1
        BY <3>2, <4>3, FS_AddElement
      <4> QED
        BY <4>2, <4>3, <4>4, CostsTyped DEF Size
    <3> QED
      BY <3>1, <3>2
  <2> QED
    BY <1>1, <2>1, <2>2, <2>3 DEF HipCacheMove
<1> QED
  BY <1>2, <1>3 DEF HipCaches, Keys, Size

LEMMA CacheStep == Inv /\ CacheInv /\ [Next]_vars => CacheInv'
<1> SUFFICES ASSUME Inv, CacheInv, [Next]_vars PROVE CacheInv'
  OBVIOUS
<1>1. CASE UNCHANGED vars
  BY <1>1, StillCaches
<1>2. CASE Next
  <2>1. Types /\ Control /\ UNCHANGED backend
    BY <1>2 DEF Inv, Next
  <2>2. ASSUME backend = "Metal" PROVE MetalCaches'
    BY <1>2, <2>2, MetalCachesKept DEF CacheInv, Explicit
  <2>3. ASSUME backend = "Hip" PROVE HipCaches'
    BY <1>2, <2>1, <2>3, HipCachesKept DEF CacheInv
  <2> QED
    BY <2>1, <2>2, <2>3 DEF CacheInv
<1> QED
  BY <1>1, <1>2

\* The caches of HIP and Metal that are bounded stay within their capacity, the
\* order of their entries lists each of them once, and the bytes they record
\* are those of the entries they hold: no insertion, eviction, report, restored
\* archive or clear loses or gains a byte.  The pool of Metal never holds more
\* buffers than it may.
THEOREM NativeCachesAccounted == Spec => []CachesAccounted
<1>1. NativeInit => CacheInv
  BY InitCaches
<1>2. Spec => []CacheInv
  BY <1>1, CacheStep, SpecActive, PTL DEF Spec
<1> QED
  BY <1>2, InvCaches, PTL

=============================================================================
