------------------------- MODULE MCLevelZeroRuntime -------------------------
(* Instances of LevelZeroRuntime: two tickets that share a lookup table and *)
(* a kernel source; one has a second source whose module does not fit into  *)
(* the cache of one.                                                        *)
EXTENDS LevelZeroRuntime, TLC

CONSTANTS j1, j2, k1, s1, s2, b1, b2

TableAndDevice == [j \in Job |-> IF j = j1 THEN <<k1, "device">> ELSE <<k1, "host">>]
OneAndTwo      == [j \in Job |-> IF j = j1 THEN <<s1, s2>> ELSE <<s1>>]
\* Queues and command lists are interchangeable.
Interchangeable == Permutations(Queue) \cup Permutations(List)

TwoBinaries    == (s1 :> b1) @@ (s2 :> b2)

=============================================================================
