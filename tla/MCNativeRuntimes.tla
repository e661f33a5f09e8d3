-------------------------- MODULE MCNativeRuntimes --------------------------
(* Instances of NativeRuntimes: two tickets with programs that share a      *)
(* shader and have a table each.                                            *)
EXTENDS NativeRuntimes

CONSTANTS j1, j2, p1, p2, k1, k2, s1, s2

TableFirst == (p1 :> <<k1, "input", "device">>) @@ (p2 :> <<"input", k2, "device">>)
OneAndTwo  == (p1 :> <<s1, s2>>) @@ (p2 :> <<s2>>)

TicketAndChain == (j1 :> {<<p1>>}) @@ (j2 :> {<<p1>>, <<p2>>, <<p2, p1>>})

OneEntry      == {<<s1, "restored">>}
\* The restored code leaves no room for a second one.
SourceAndCode == [e \in Source \X {"compiled", "restored"} |->
                     IF e[2] = "restored" THEN 2 ELSE 1]
ThreeTimes    == [e \in Key \X Device |-> 3]

\* Handles of a kind are interchangeable: two states are the same when as many
\* of them are in the same places.
Places(h) ==
    <<refs[h], pool[h], h \in leaked,
      {j \in Job : h \in held[j]}, {j \in Job : h \in uses[j]},
      {j \in Job : h = resident[j]},
      IF h \in Device
      THEN <<"device", content[h],
             {<<j, i>> \in Job \X (1 .. 3) :
                 i \in DOMAIN memory[j] /\ memory[j][i] = h},
             {k \in Keys(lutCache) : lutCache.entries[k] = h}>>
      ELSE IF h \in Queue THEN <<"queue">>
      ELSE <<IF h \in Kernel THEN "kernel" ELSE "module", made[h],
             {<<j, i>> \in Job \X (1 .. 2) :
                 i \in DOMAIN loaded[j] /\ loaded[j][i] = h},
             {s \in Keys(moduleCache) : moduleCache.entries[s] = h}>> >>

\* A lost handle that no ticket remembers takes part in nothing any more: how
\* many there are makes no difference while there are enough others.
Mentioned ==
    {h \in Handle \ leaked : refs[h] > 0 \/ pool[h] > 0}
    \cup UNION {Used(j) \cup uses[j] \cup {resident[j]} : j \in Job}

Population ==
    LET placed == {<<h, Places(h)>> : h \in Mentioned \cap Handle}
    IN {<<x[2], Cardinality({y \in placed : y[2] = x[2]})>> : x \in placed}

\* Only the cache of HIP has a bound; what the others hold decides nothing else.
CodeSeen == IF backend = "Hip" THEN codeCache ELSE EmptyCache

UpToHandles ==
    <<backend, call, phase, chain, stage, count, pending, lutCache.order,
      lutCache.bytes, moduleCache.order, CodeSeen, running, active, clearing,
      results, alive, faults,
      leaked = {}, Population>>
=============================================================================
