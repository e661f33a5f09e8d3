-------------------------- MODULE MCVulkanRuntime --------------------------
(* Instances of VulkanRuntime: programs of one or two allocations and one   *)
(* or two passes.  A program that dispatches its shader twice needs two     *)
(* pipeline instances of the same key.                                      *)
EXTENDS VulkanRuntime, TLC

CONSTANTS j1, j2, k1, s1

OneAndTwoTransients  == [j \in Job |-> IF j = j1 THEN <<None>> ELSE <<None, None>>]
NoClear              == {}
OneTable             == [j \in Job |-> <<k1>>]
OneTransient         == [j \in Job |-> <<None>>]
OnePass              == [j \in Job |-> <<s1>>]
OneTwiceOneOnce      == [j \in Job |-> IF j = j1 THEN <<s1, s1>> ELSE <<s1>>]
OneShader            == [p \in Pipe |-> s1]

AsyncOrSync          == [j \in Job |-> {"async", "sync"}]
AsyncOnly            == [j \in Job |-> {"async"}]
AsyncBesideSync      == [j \in Job |-> IF j = j1 THEN {"async"} ELSE {"sync"}]
AsyncBesideChain     == [j \in Job |-> IF j = j1 THEN {"async"} ELSE {"chain"}]

ClearTables          == {<<"idle", "lut">>}
ClearTransients      == {<<"idle", "transient">>}
ClearSlots           == {<<"idle", "slot">>}
ClearRuntimeObjects  ==
    {<<"idle", "staging", "syncPipe", "asyncPipe", "slot">>}
=============================================================================
