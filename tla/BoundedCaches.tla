--------------------------- MODULE BoundedCaches ---------------------------
(***************************************************************************)
(* The caches of the runtimes: maps that remember the order in which their *)
(* entries came and how many bytes they retain, and give up the oldest     *)
(* entries first.  A plain map is one that never evicts and keeps neither  *)
(* order nor bytes.                                                        *)
(*                                                                         *)
(* cost[<<k, v>>] is what the entry k -> v counts for.                     *)
(***************************************************************************)
EXTENDS Naturals, Sequences, SequencesExt

EmptyCache == [entries |-> << >>, order |-> << >>, bytes |-> 0]

Keys(c) == DOMAIN c.entries
Values(c) == {c.entries[k] : k \in Keys(c)}
Size(c) == Cardinality(Keys(c))

Minus(a, b) == IF a < b THEN 0 ELSE a - b

\* The map without one of its keys.
Without(f, k) == [x \in DOMAIN f \ {k} |-> f[x]]

\* The map with v at the key k.
With(f, k, v) == [x \in DOMAIN f \cup {k} |-> IF x = k THEN v ELSE f[x]]

\* A plain map keeps what it has (Entry::Vacant, or_insert_with).
InsertIfVacant(c, k, v) ==
    IF k \in Keys(c) THEN c ELSE [c EXCEPT !.entries = With(c.entries, k, v)]

\* A map that refuses new keys when it is full.
HasCapacity(c, maxEntries) == Size(c) < maxEntries

RemoveEntry(c, k, cost) ==
    IF k \notin Keys(c) THEN c
    ELSE [entries |-> Without(c.entries, k),
          order   |-> SelectSeq(c.order, LAMBDA x : x # k),
          bytes   |-> Minus(c.bytes, cost[<<k, c.entries[k]>>])]

Fits(c, need, maxEntries, maxBytes) ==
    Size(c) < maxEntries /\ c.bytes + need <= maxBytes

\* Variant: the bytes of the evicted entries are still counted.
OldestKeepingBytes(c, n, cost) ==
    [entries |-> [k \in Keys(c) \ ToSet(SubSeq(c.order, 1, n)) |-> c.entries[k]],
     order   |-> SubSeq(c.order, n + 1, Len(c.order)),
     bytes   |-> c.bytes]

\* What the i-th oldest entry counts for.
CostAt(c, i, cost) == cost[<<c.order[i], c.entries[c.order[i]]>>]

\* The bytes that are left when the n oldest entries are gone.
BytesWithout(c, n, cost) ==
    LET left[i \in 0 .. n] ==
          IF i = 0 THEN c.bytes ELSE Minus(left[i - 1], CostAt(c, i, cost))
    IN left[n]

\* The cache without its n oldest entries.
WithoutOldest(c, n, cost) ==
    [entries |-> [k \in Keys(c) \ ToSet(SubSeq(c.order, 1, n)) |-> c.entries[k]],
     order   |-> SubSeq(c.order, n + 1, Len(c.order)),
     bytes   |-> BytesWithout(c, n, cost)]

\* The oldest entries leave one by one until one of `need` bytes fits.
Evict(c, cost, need, maxEntries, maxBytes) ==
    LET fits(n) == Fits(WithoutOldest(c, n, cost), need, maxEntries, maxBytes)
        evicted == {n \in 1 .. Len(c.order) : \A m \in 0 .. n - 1 : ~fits(m)}
    IN WithoutOldest(c, Cardinality(evicted), cost)

\* An entry that would not fit into the empty cache changes nothing.
FifoInsert(c, k, v, cost, maxEntries, maxBytes) ==
    LET need == cost[<<k, v>>]
        room == Evict(RemoveEntry(c, k, cost), cost, need, maxEntries, maxBytes)
    IN IF maxEntries = 0 \/ need > maxBytes THEN c
       ELSE [entries |-> With(room.entries, k, v),
             order   |-> Append(room.order, k),
             bytes   |-> room.bytes + need]

\* What an insertion gave up.
Dropped(c, d) == {c.entries[k] : k \in {x \in Keys(c) :
                     x \notin Keys(d) \/ d.entries[x] # c.entries[x]}}

\* What the entries count for together.
TotalCost(c, cost) ==
    LET total[i \in 0 .. Len(c.order)] ==
          IF i = 0 THEN 0 ELSE total[i - 1] + CostAt(c, i, cost)
    IN total[Len(c.order)]

\* The order lists every entry once, the capacity is kept, and the bytes are
\* those of the entries.
Accounted(c, cost, maxEntries, maxBytes) ==
    /\ Len(c.order) = Size(c) /\ ToSet(c.order) = Keys(c)
    /\ Size(c) <= maxEntries /\ c.bytes <= maxBytes
    /\ c.bytes = TotalCost(c, cost)
=============================================================================
