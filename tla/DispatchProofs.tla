--------------------------- MODULE DispatchProofs ---------------------------
(***************************************************************************)
(* The device and the interpreters of the library.                         *)
(*                                                                         *)
(* The device of Dispatch starts the workgroups of a pass one by one, lets *)
(* several run beside each other and lets them store in any order.  The    *)
(* interpreters run a pass after the other, all workgroups from the same   *)
(* memory.  When each place of the output of a pass belongs to one         *)
(* workgroup and no pass reads what it writes, both leave the same memory; *)
(* and the programs made of Stockham transforms and Cooley-Tukey passes    *)
(* are of this kind, whatever their lengths.                               *)
(*                                                                         *)
(* Last, programs are composed: a sequence of passes "computes" a task     *)
(* when it leaves the transforms of the task from any memory that is ready *)
(* for it.  Kernels compute; uploads and Cooley-Tukey nodes compute when   *)
(* their parts do; and the device executes whatever computes.              *)
(***************************************************************************)
EXTENDS Dispatch, StockhamProofs, FiniteSetTheorems

-----------------------------------------------------------------------------
(* The interpreters.                                                       *)

\* The memory after each number of passes.
Interpreted(p, contents) ==
  LET after[n \in 0 .. Len(p.passes)] ==
        IF n = 0 THEN contents ELSE AfterPass(after[n - 1], p.passes[n])
  IN  after

Follow(f, p, contents, n) ==
  /\ f = [k \in 0 .. n |-> f[k]]
  /\ f[0] = contents
  /\ \A k \in 1 .. n : f[k] = AfterPass(f[k - 1], p.passes[k])

LEMMA InterpretedExists ==
    ASSUME NEW p, NEW contents, NEW n \in Nat
    PROVE  \E f : Follow(f, p, contents, n)
<1> DEFINE S == {k \in Nat : \E f : Follow(f, p, contents, k)}
<1>1. 0 \in S
  <2> DEFINE f == [k \in 0 .. 0 |-> contents]
  <2>1. Follow(f, p, contents, 0)
    BY DEF Follow
  <2> QED
    BY <2>1
<1>2. ASSUME NEW m \in Nat, m \in S PROVE m + 1 \in S
  <2>1. PICK f : Follow(f, p, contents, m)
    BY <1>2
  <2> DEFINE g == [k \in 0 .. m + 1 |-> IF k = m + 1 THEN AfterPass(f[m], p.passes[m + 1]) ELSE f[k]]
  <2>2. g[0] = contents
    BY <2>1 DEF Follow
  <2>3. ASSUME NEW k \in 1 .. m + 1 PROVE g[k] = AfterPass(g[k - 1], p.passes[k])
    <3>1. CASE k = m + 1
      <4>1. g[k] = AfterPass(f[m], p.passes[m + 1]) /\ g[k - 1] = f[m]
        BY <3>1
      <4> QED
        BY <3>1, <4>1
    <3>2. CASE k # m + 1
      <4>1. k \in 1 .. m /\ g[k] = f[k] /\ g[k - 1] = f[k - 1]
        BY <3>2
      <4> QED
        BY <2>1, <4>1 DEF Follow
    <3> QED
      BY <3>1, <3>2
  <2>4. g = [k \in 0 .. m + 1 |-> g[k]]
    OBVIOUS
  <2> HIDE DEF g
  <2>5. Follow(g, p, contents, m + 1)
    BY <2>2, <2>3, <2>4 DEF Follow
  <2> QED
    BY <2>5
<1> HIDE DEF S
<1>3. n \in S
  BY <1>1, <1>2, SetInduction
<1> QED
  BY <1>3 DEF S

\* The memory after n passes is the one after n - 1 passes with the stores of pass n.
LEMMA InterpretedStep ==
    ASSUME NEW p, NEW contents, Len(p.passes) \in Nat
    PROVE  /\ Interpreted(p, contents)[0] = contents
           /\ \A n \in 1 .. Len(p.passes) :
                Interpreted(p, contents)[n]
                  = AfterPass(Interpreted(p, contents)[n - 1], p.passes[n])
<1> DEFINE len == Len(p.passes)
           R(f) == f = [n \in 0 .. len |-> IF n = 0 THEN contents
                                           ELSE AfterPass(f[n - 1], p.passes[n])]
<1>1. PICK g : Follow(g, p, contents, len)
  BY InterpretedExists
<1>2. R(g)
  <2>1. g = [k \in 0 .. len |-> g[k]] /\ g[0] = contents
    BY <1>1 DEF Follow
  <2>2. ASSUME NEW k \in 0 .. len
        PROVE  g[k] = IF k = 0 THEN contents ELSE AfterPass(g[k - 1], p.passes[k])
    <3>1. CASE k = 0
      BY <2>1, <3>1
    <3>2. CASE k # 0
      <4>1. k \in 1 .. len
        BY <3>2
      <4>2. g[k] = AfterPass(g[k - 1], p.passes[k])
        BY <1>1, <4>1 DEF Follow
      <4> QED
        BY <3>2, <4>2
    <3> QED
      BY <3>1, <3>2
  <2> QED
    BY <2>1, <2>2
<1> DEFINE h == CHOOSE f : R(f)
<1>3. R(h)
  BY <1>2
<1>4. Interpreted(p, contents) = h
  BY DEF Interpreted
<1>5. h[0] = contents /\ \A n \in 1 .. len : h[n] = AfterPass(h[n - 1], p.passes[n])
  <2> HIDE DEF h
  <2>1. ASSUME NEW n \in 0 .. len
        PROVE  h[n] = IF n = 0 THEN contents ELSE AfterPass(h[n - 1], p.passes[n])
    BY <1>3
  <2>2. h[0] = contents
    BY <2>1
  <2>3. ASSUME NEW n \in 1 .. len PROVE h[n] = AfterPass(h[n - 1], p.passes[n])
    BY <2>1
  <2> QED
    BY <2>2, <2>3
<1> QED
  BY <1>4, <1>5

-----------------------------------------------------------------------------
(* Memories.                                                               *)

\* Contents of resources are functions.
IsMemory(contents) ==
  /\ contents = [r \in DOMAIN contents |-> contents[r]]
  /\ \A r \in DOMAIN contents :
       contents[r] = [i \in DOMAIN contents[r] |-> contents[r][i]]

\* The memory with pairs stored to resource r.
WithStores(contents, r, stores) == [contents EXCEPT ![r] = Written(@, stores)]

\* No place has two values.
OneValueEach(stores) == \A s, t \in stores : s[1] = t[1] => s = t

LEMMA WrittenNothing ==
    ASSUME NEW cells, cells = [i \in DOMAIN cells |-> cells[i]]
    PROVE  Written(cells, {}) = cells
  BY DEF Written

\* Pairs may be stored in two steps.
LEMMA WrittenTwice ==
    ASSUME NEW cells, NEW A, NEW B, OneValueEach(A \cup B)
    PROVE  Written(Written(cells, A), B) = Written(cells, A \cup B)
<1> DEFINE first == Written(cells, A)
<1>1. first = [i \in DOMAIN cells |-> IF \E s \in A : s[1] = i
                                     THEN (CHOOSE s \in A : s[1] = i)[2] ELSE cells[i]]
  BY DEF Written
<1>2. DOMAIN first = DOMAIN cells
  BY <1>1
<1> HIDE DEF first
<1>3. ASSUME NEW i \in DOMAIN cells
      PROVE  (IF \E s \in B : s[1] = i THEN (CHOOSE s \in B : s[1] = i)[2] ELSE first[i])
               = IF \E s \in A \cup B : s[1] = i
                 THEN (CHOOSE s \in A \cup B : s[1] = i)[2] ELSE cells[i]
  <2>1. CASE \E s \in B : s[1] = i
    <3> DEFINE b == CHOOSE s \in B : s[1] = i  c == CHOOSE s \in A \cup B : s[1] = i
    <3>1. b \in B /\ b[1] = i
      BY <2>1
    <3>2. c \in A \cup B /\ c[1] = i
      BY <2>1
    <3> HIDE DEF b, c
    <3>3. b = c
      BY <3>1, <3>2 DEF OneValueEach
    <3> QED
      BY <2>1, <3>3 DEF b, c
  <2>2. CASE ~(\E s \in B : s[1] = i) /\ \E s \in A : s[1] = i
    <3> DEFINE a == CHOOSE s \in A : s[1] = i  c == CHOOSE s \in A \cup B : s[1] = i
    <3>1. a \in A /\ a[1] = i
      BY <2>2
    <3>2. c \in A \cup B /\ c[1] = i
      BY <2>2
    <3>4. first[i] = a[2]
      BY <1>1, <2>2
    <3> HIDE DEF a, c
    <3>3. a = c
      BY <3>1, <3>2 DEF OneValueEach
    <3> QED
      BY <2>2, <3>3, <3>4 DEF a, c
  <2>3. CASE ~(\E s \in B : s[1] = i) /\ ~(\E s \in A : s[1] = i)
    <3>1. first[i] = cells[i]
      BY <1>1, <2>3
    <3> QED
      BY <2>3, <3>1
  <2> QED
    BY <2>1, <2>2, <2>3
<1>4. Written(first, B) = [i \in DOMAIN cells |-> IF \E s \in B : s[1] = i
                                               THEN (CHOOSE s \in B : s[1] = i)[2] ELSE first[i]]
  BY <1>2 DEF Written
<1> QED
  BY <1>3, <1>4 DEF Written, first

LEMMA WithStoresMemory ==
    ASSUME NEW contents, IsMemory(contents), NEW r \in DOMAIN contents, NEW stores
    PROVE  /\ IsMemory(WithStores(contents, r, stores))
           /\ DOMAIN WithStores(contents, r, stores) = DOMAIN contents
           /\ \A q \in DOMAIN contents :
                DOMAIN WithStores(contents, r, stores)[q] = DOMAIN contents[q]
           /\ \A q \in DOMAIN contents :
                q # r => WithStores(contents, r, stores)[q] = contents[q]
           /\ WithStores(contents, r, stores)[r] = Written(contents[r], stores)
<1> DEFINE cells == Written(contents[r], stores)
           x == WithStores(contents, r, stores)
<1>1. cells = [i \in DOMAIN contents[r] |-> cells[i]] /\ DOMAIN cells = DOMAIN contents[r]
  BY DEF Written
<1>2. x = [contents EXCEPT ![r] = cells]
  BY DEF WithStores
<1> HIDE DEF cells, x
<1>3. DOMAIN x = DOMAIN contents /\ x[r] = cells
  BY <1>2
<1>4. \A q \in DOMAIN contents : q # r => x[q] = contents[q]
  BY <1>2
<1>5. \A q \in DOMAIN contents : DOMAIN x[q] = DOMAIN contents[q]
  BY <1>1, <1>3, <1>4
<1>6. x = [q \in DOMAIN x |-> x[q]]
  BY <1>2
<1>7. ASSUME NEW q \in DOMAIN x PROVE x[q] = [i \in DOMAIN x[q] |-> x[q][i]]
  <2>1. CASE q = r
    BY <1>1, <1>3, <2>1
  <2>2. CASE q # r
    <3>1. contents[q] = [i \in DOMAIN contents[q] |-> contents[q][i]]
      BY <1>3, <1>7 DEF IsMemory
    <3> QED
      BY <1>3, <1>4, <2>2, <3>1
  <2> QED
    BY <2>1, <2>2
<1>8. IsMemory(x)
  BY <1>6, <1>7 DEF IsMemory
<1> QED
  BY <1>3, <1>4, <1>5, <1>8 DEF x, cells

LEMMA NothingStored ==
    ASSUME NEW contents, IsMemory(contents), NEW r \in DOMAIN contents
    PROVE  WithStores(contents, r, {}) = contents
<1>1. Written(contents[r], {}) = contents[r]
  BY WrittenNothing DEF IsMemory
<1> QED
  BY <1>1 DEF WithStores, IsMemory

LEMMA StoredTwice ==
    ASSUME NEW contents, IsMemory(contents), NEW r \in DOMAIN contents, NEW A, NEW B,
           OneValueEach(A \cup B)
    PROVE  WithStores(WithStores(contents, r, A), r, B) = WithStores(contents, r, A \cup B)
<1>1. Written(Written(contents[r], A), B) = Written(contents[r], A \cup B)
  BY WrittenTwice
<1> QED
  BY <1>1 DEF WithStores, IsMemory

\* A workgroup reads its input, its table and its auxiliary resource.
LEMMA StoresRead ==
    ASSUME NEW q, NEW w, NEW x, NEW y,
           \A r \in {q.input, q.lookup, q.auxiliary} : r # NoResource => x[r] = y[r]
    PROVE  Stores(q, w, x) = Stores(q, w, y)
<1> DEFINE X(r) == IF r = NoResource THEN << >> ELSE x[r]
           Y(r) == IF r = NoResource THEN << >> ELSE y[r]
<1>1. X(q.input) = Y(q.input) /\ X(q.lookup) = Y(q.lookup) /\ X(q.auxiliary) = Y(q.auxiliary)
  OBVIOUS
<1>2. X(q.input) = Y(q.input)
  BY <1>1
<1> QED
  BY <1>1 DEF Stores

-----------------------------------------------------------------------------
(* The device.                                                             *)

\* What workgroups "done" of pass q store when they read "contents".
DoneStores(q, contents, done) == UNION {Stores(q, w, contents) : w \in done}

\* Each place of the output of pass q belongs to one workgroup, which stores it once,
\* and the pass does not read its output.
Separate(q, contents) ==
  /\ q.ir.batches \in Nat
  /\ q.output \in DOMAIN contents
  /\ \A r \in {q.input, q.lookup, q.auxiliary} :
       r # q.output /\ (r # NoResource => r \in DOMAIN contents)
  /\ \A w \in Workgroups(q) :
       /\ IsFiniteSet(Stores(q, w, contents))
       /\ \A s \in Stores(q, w, contents) : s[1] \in DOMAIN contents[q.output]
  /\ \A v, w \in Workgroups(q) : \A s \in Stores(q, v, contents), t \in Stores(q, w, contents) :
       s[1] = t[1] => v = w /\ s = t

\* The program's passes are separate, each in the memory that the passes before it leave.
Executable(p, contents) ==
  /\ Len(p.passes) \in Nat
  /\ IsMemory(contents)
  /\ \A n \in 1 .. Len(p.passes) : Separate(p.passes[n], Interpreted(p, contents)[n - 1])

\* The device executes p from these contents.
Device(p, contents) ==
  Submitted(p, contents) /\ [][Dispatch(Stores(Current, started, memory))]_deviceVars

\* Every memory of the interpreters has the resources of the first one.
LEMMA InterpretedMemory ==
    ASSUME NEW p, NEW contents, Executable(p, contents)
    PROVE  \A n \in 0 .. Len(p.passes) :
             /\ IsMemory(Interpreted(p, contents)[n])
             /\ DOMAIN Interpreted(p, contents)[n] = DOMAIN contents
             /\ \A r \in DOMAIN contents :
                  DOMAIN Interpreted(p, contents)[n][r] = DOMAIN contents[r]
<1> DEFINE after == Interpreted(p, contents)
           P(n) == /\ IsMemory(after[n]) /\ DOMAIN after[n] = DOMAIN contents
                   /\ \A r \in DOMAIN contents : DOMAIN after[n][r] = DOMAIN contents[r]
           S == {n \in Nat : n <= Len(p.passes) => P(n)}
<1>0. Len(p.passes) \in Nat
  BY DEF Executable
<1>1. after[0] = contents /\ \A n \in 1 .. Len(p.passes) : after[n] = AfterPass(after[n - 1], p.passes[n])
  BY <1>0, InterpretedStep
<1> HIDE DEF after
<1>2. 0 \in S
  BY <1>1 DEF Executable
<1>3. ASSUME NEW m \in Nat, m \in S PROVE m + 1 \in S
  <2> SUFFICES ASSUME m + 1 <= Len(p.passes) PROVE P(m + 1)
    OBVIOUS
  <2> DEFINE q == p.passes[m + 1]
             all == UNION {Stores(q, w, after[m]) : w \in Workgroups(q)}
  <2>1. P(m) /\ m + 1 \in 1 .. Len(p.passes) /\ m + 1 - 1 = m
    BY <1>0, <1>3
  <2>2. after[m + 1] = WithStores(after[m], q.output, all)
    <3>1. after[m + 1] = AfterPass(after[m], q)
      BY <1>1, <2>1
    <3> QED
      BY <3>1 DEF AfterPass, WithStores
  <2>3. q.output \in DOMAIN after[m]
    BY <2>1 DEF Executable, Separate, after
  <2> HIDE DEF q, all
  <2> QED
    BY <2>1, <2>2, <2>3, WithStoresMemory
<1> HIDE DEF S
<1>4. \A n \in Nat : n \in S
  BY <1>2, <1>3, SetInduction
<1>5. ASSUME NEW n \in 0 .. Len(p.passes) PROVE P(n)
  <2>1. n \in Nat /\ n <= Len(p.passes)
    BY <1>0
  <2> QED
    BY <1>4, <2>1 DEF S
<1> QED
  BY <1>5 DEF after

\* What the interpreters leave before the pass that is executed.
Now(p, contents) == Interpreted(p, contents)[pass - 1]

\* The workgroups that have stored their outputs, and what they have stored.
Ended == (0 .. started - 1) \ DOMAIN inflight
Done(p, contents) == DoneStores(Current, Now(p, contents), Ended)

\* Workgroups in flight are going to store what they would store if they ran alone, and
\* the memory holds what the workgroups that have ended stored, and otherwise what
\* the passes before left.
DeviceInv(p, contents) ==
  /\ program = p
  /\ pass \in 1 .. Len(p.passes) + 1
  /\ started \in Nat
  /\ inflight = [w \in DOMAIN inflight |-> inflight[w]]
  /\ DOMAIN inflight \subseteq 0 .. started - 1
  /\ Running => /\ started <= WorkgroupCount
                /\ \A w \in DOMAIN inflight : inflight[w] = Stores(Current, w, Now(p, contents))
                /\ memory = WithStores(Now(p, contents), Current.output, Done(p, contents))
                /\ stored = {s[1] : s \in Done(p, contents)}
  /\ ~Running => started = 0 /\ memory = Now(p, contents)

\* The pass that is executed.
LEMMA CurrentPass ==
    ASSUME NEW p, NEW contents, Executable(p, contents), program = p,
           pass \in 1 .. Len(p.passes) + 1, Running
    PROVE  /\ pass \in 1 .. Len(p.passes) /\ Current = p.passes[pass]
           /\ Separate(Current, Now(p, contents))
           /\ IsMemory(Now(p, contents)) /\ Current.output \in DOMAIN Now(p, contents)
           /\ WorkgroupCount \in Nat /\ Workgroups(Current) = 0 .. WorkgroupCount - 1
<1>1. pass \in 1 .. Len(p.passes) /\ Len(p.passes) \in Nat /\ pass - 1 \in 0 .. Len(p.passes)
  BY DEF Executable, Running, passes
<1>2. Current = p.passes[pass]
  BY DEF Current, passes
<1>3. Separate(Current, Now(p, contents))
  BY <1>1, <1>2 DEF Executable, Now
<1>4. IsMemory(Now(p, contents))
  BY <1>1, InterpretedMemory DEF Now
<1> QED
  BY <1>1, <1>2, <1>3, <1>4 DEF Separate, WorkgroupCount, Workgroups

\* Whatever workgroups have ended, no place has two values.
LEMMA DoneOnce ==
    ASSUME NEW q, NEW contents, Separate(q, contents), NEW done, done \subseteq Workgroups(q)
    PROVE  OneValueEach(DoneStores(q, contents, done))
  BY DEF Separate, OneValueEach, DoneStores

LEMMA FirstMemory ==
    ASSUME NEW p, NEW contents, Executable(p, contents), program = p,
           pass \in 1 .. Len(p.passes) + 1, started = 0, inflight = << >>, stored = {},
           memory = Now(p, contents)
    PROVE  DeviceInv(p, contents)
<1>1. inflight = [w \in DOMAIN inflight |-> inflight[w]] /\ DOMAIN inflight = {}
  OBVIOUS
<1>2. Ended = {} /\ Done(p, contents) = {}
  BY DEF Ended, Done, DoneStores
<1>3. ASSUME Running
      PROVE  /\ started <= WorkgroupCount
             /\ memory = WithStores(Now(p, contents), Current.output, Done(p, contents))
  BY <1>2, <1>3, CurrentPass, NothingStored
<1> QED
  BY <1>1, <1>2, <1>3 DEF DeviceInv

\* A workgroup that starts reads what the passes before left: those that have ended
\* stored to a resource that the pass does not read.
LEMMA LoadStep ==
    ASSUME NEW p, NEW contents, Executable(p, contents), DeviceInv(p, contents),
           Load(Stores(Current, started, memory))
    PROVE  DeviceInv(p, contents)'
<1> DEFINE now == Now(p, contents)  q == Current
<1>1. /\ Running /\ started < WorkgroupCount /\ started' = started + 1
      /\ inflight' = [w \in DOMAIN inflight \cup {started} |->
                        IF w = started THEN Stores(q, started, memory) ELSE inflight[w]]
      /\ program' = program /\ pass' = pass /\ stored' = stored /\ memory' = memory
  BY DEF Load
<1>2. /\ Separate(q, now) /\ IsMemory(now) /\ q.output \in DOMAIN now
      /\ started \in Nat /\ WorkgroupCount \in Nat
  BY <1>1, CurrentPass DEF DeviceInv
<1>3. /\ Running' = Running /\ Current' = q /\ WorkgroupCount' = WorkgroupCount
      /\ Now(p, contents)' = now
  BY <1>1 DEF Running, Current, WorkgroupCount, Now, passes
<1>4. Ended' = Ended
  <2>1. DOMAIN inflight' = DOMAIN inflight \cup {started}
    BY <1>1
  <2> QED
    BY <1>1, <1>2, <2>1 DEF Ended
<1>5. Stores(q, started, memory) = Stores(q, started, now)
  <2>1. memory = WithStores(now, q.output, Done(p, contents))
    BY <1>1 DEF DeviceInv
  <2>2. ASSUME NEW r \in {q.input, q.lookup, q.auxiliary}, r # NoResource
        PROVE  memory[r] = now[r]
    <3>1. r \in DOMAIN now /\ r # q.output
      BY <1>2, <2>2 DEF Separate
    <3> QED
      BY <1>2, <2>1, <3>1, WithStoresMemory
  <2> QED
    BY <2>2, StoresRead
<1>6. Done(p, contents)' = Done(p, contents)
  BY <1>3, <1>4 DEF Done
<1> HIDE DEF now, q
<1>7. \A w \in DOMAIN inflight' : inflight'[w] = Stores(q, w, now)
  <2>1. \A w \in DOMAIN inflight : inflight[w] = Stores(q, w, now)
    BY <1>1 DEF DeviceInv, now, q
  <2> QED
    BY <1>1, <1>5, <2>1
<1>8. DOMAIN inflight' \subseteq 0 .. started' - 1
  BY <1>1, <1>2 DEF DeviceInv
<1>9. inflight' = [w \in DOMAIN inflight' |-> inflight'[w]]
  BY <1>1
<1>10. /\ memory' = WithStores(now, q.output, Done(p, contents)')
       /\ stored' = {s[1] : s \in Done(p, contents)'}
  BY <1>1, <1>6 DEF DeviceInv, now, q
<1>11. program' = p /\ pass' \in 1 .. Len(p.passes) + 1 /\ started' \in Nat /\ started' <= WorkgroupCount'
  BY <1>1, <1>2, <1>3 DEF DeviceInv
<1> QED
  BY <1>1, <1>3, <1>7, <1>8, <1>9, <1>10, <1>11 DEF DeviceInv, now, q

\* A workgroup stores to places that no workgroup before it stored to.
LEMMA StoreStep ==
    ASSUME NEW p, NEW contents, Executable(p, contents), DeviceInv(p, contents),
           NEW v \in DOMAIN inflight, Store(v)
    PROVE  DeviceInv(p, contents)'
<1> DEFINE now == Now(p, contents)  q == Current  done == Done(p, contents)
<1>1. /\ inflight' = [w \in DOMAIN inflight \ {v} |-> inflight[w]]
      /\ memory' = WithStores(memory, q.output, inflight[v])
      /\ stored' = stored \cup {s[1] : s \in inflight[v]}
      /\ program' = program /\ pass' = pass /\ started' = started
  BY DEF Store, WithStores
<1>2. Running
  BY DEF DeviceInv
<1>3. /\ Separate(q, now) /\ IsMemory(now) /\ q.output \in DOMAIN now
      /\ started \in Nat /\ WorkgroupCount \in Nat /\ started <= WorkgroupCount
      /\ Workgroups(q) = 0 .. WorkgroupCount - 1
  BY <1>2, CurrentPass DEF DeviceInv
<1>4. /\ Running' = Running /\ Current' = q /\ WorkgroupCount' = WorkgroupCount
      /\ Now(p, contents)' = now
  BY <1>1 DEF Running, Current, WorkgroupCount, Now, passes
<1>5. Ended' = Ended \cup {v} /\ v \in 0 .. started - 1 /\ Ended' \subseteq 0 .. started - 1
  <2>1. DOMAIN inflight' = DOMAIN inflight \ {v}
    BY <1>1
  <2>2. DOMAIN inflight \subseteq 0 .. started - 1
    BY DEF DeviceInv
  <2> QED
    BY <1>1, <2>1, <2>2 DEF Ended
<1>6. inflight[v] = Stores(q, v, now)
  BY <1>2 DEF DeviceInv
<1>7. Done(p, contents)' = done \cup Stores(q, v, now)
  <2>1. Done(p, contents)' = DoneStores(q, now, Ended')
    BY <1>4 DEF Done
  <2>2. DoneStores(q, now, Ended \cup {v}) = DoneStores(q, now, Ended) \cup Stores(q, v, now)
    BY DEF DoneStores
  <2> QED
    BY <1>5, <2>1, <2>2 DEF Done
<1>8. OneValueEach(done \cup Stores(q, v, now))
  <2>1. Ended' \subseteq Workgroups(q)
    BY <1>3, <1>5
  <2>2. OneValueEach(DoneStores(q, now, Ended'))
    BY <1>3, <2>1, DoneOnce
  <2> QED
    BY <1>4, <1>7, <2>2 DEF Done
<1>9. memory = WithStores(now, q.output, done) /\ stored = {s[1] : s \in done}
  BY <1>2 DEF DeviceInv
<1> HIDE DEF now, q, done
<1>10. memory' = WithStores(now, q.output, Done(p, contents)')
  BY <1>1, <1>3, <1>6, <1>7, <1>8, <1>9, StoredTwice
<1>11. stored' = {s[1] : s \in Done(p, contents)'}
  BY <1>1, <1>6, <1>7, <1>9
<1>12. \A w \in DOMAIN inflight' : inflight'[w] = Stores(q, w, now)
  <2>1. \A w \in DOMAIN inflight : inflight[w] = Stores(q, w, now)
    BY <1>2 DEF DeviceInv, now, q
  <2> QED
    BY <1>1, <2>1
<1>13. DOMAIN inflight' \subseteq 0 .. started' - 1
  BY <1>1 DEF DeviceInv
<1>14. inflight' = [w \in DOMAIN inflight' |-> inflight'[w]]
  BY <1>1
<1>15. program' = p /\ pass' \in 1 .. Len(p.passes) + 1 /\ started' \in Nat /\ started' <= WorkgroupCount'
  BY <1>1, <1>3, <1>4 DEF DeviceInv
<1> QED
  BY <1>2, <1>4, <1>10, <1>11, <1>12, <1>13, <1>14, <1>15 DEF DeviceInv, now, q

\* Behind the barrier every workgroup has stored, and the memory is the interpreters'.
LEMMA NextPassStep ==
    ASSUME NEW p, NEW contents, Executable(p, contents), DeviceInv(p, contents), NextPass
    PROVE  DeviceInv(p, contents)'
<1> DEFINE now == Now(p, contents)  q == Current
<1>1. /\ Running /\ started = WorkgroupCount /\ DOMAIN inflight = {}
      /\ pass' = pass + 1 /\ started' = 0 /\ stored' = {} /\ program' = program
      /\ inflight' = inflight /\ memory' = memory
  BY DEF NextPass, PassFinished
<1>2. /\ pass \in 1 .. Len(p.passes) /\ q = p.passes[pass]
      /\ WorkgroupCount \in Nat /\ Workgroups(q) = 0 .. WorkgroupCount - 1
  BY <1>1, CurrentPass DEF DeviceInv
<1>3. Ended = Workgroups(q)
  BY <1>1, <1>2 DEF Ended
<1>4. memory = WithStores(now, q.output, DoneStores(q, now, Workgroups(q)))
  BY <1>1, <1>3 DEF DeviceInv, Done
<1>5. memory = AfterPass(now, q)
  <2> HIDE DEF now, q
  <2> QED
    BY <1>4 DEF WithStores, AfterPass, DoneStores
<1>6. Len(p.passes) \in Nat
  BY DEF Executable
<1>7. Interpreted(p, contents)[pass] = AfterPass(now, q)
  <2>1. Interpreted(p, contents)[pass] = AfterPass(Interpreted(p, contents)[pass - 1], p.passes[pass])
    BY <1>2, <1>6, InterpretedStep
  <2> QED
    BY <1>2, <2>1 DEF Now
<1> HIDE DEF now, q
<1>8. Now(p, contents)' = Interpreted(p, contents)[pass]
  BY <1>1, <1>2 DEF Now
<1>9. memory' = Now(p, contents)'
  BY <1>1, <1>5, <1>7, <1>8
<1>10. pass' \in 1 .. Len(p.passes) + 1 /\ program' = p
  BY <1>1, <1>2, <1>6 DEF DeviceInv
<1>11. inflight' = << >>
  BY <1>1 DEF DeviceInv
<1>12. Ended' = {} /\ Done(p, contents)' = {}
  BY <1>1 DEF Ended, Done, DoneStores
<1>13. ASSUME Running'
       PROVE  /\ started' <= WorkgroupCount'
              /\ memory' = WithStores(Now(p, contents)', Current'.output, Done(p, contents)')
  <2>1. Current' = p.passes[pass'] /\ Now(p, contents)' = Interpreted(p, contents)[pass' - 1]
    BY <1>10 DEF Current, passes, Now
  <2>2. pass' \in 1 .. Len(p.passes)
    BY <1>6, <1>10, <1>13 DEF Running, passes
  <2>3. Separate(Current', Now(p, contents)')
    BY <2>1, <2>2 DEF Executable
  <2>4. IsMemory(Now(p, contents)')
    BY <1>6, <2>1, <2>2, InterpretedMemory
  <2>5. Current'.output \in DOMAIN Now(p, contents)' /\ Current'.ir.batches \in Nat
    BY <2>3 DEF Separate
  <2>6. WorkgroupCount' = Current'.ir.batches
    BY DEF WorkgroupCount
  <2>7. WithStores(Now(p, contents)', Current'.output, {}) = Now(p, contents)'
    BY <2>4, <2>5, NothingStored
  <2> QED
    BY <1>1, <1>9, <1>12, <2>5, <2>6, <2>7
<1>14. inflight' = [w \in DOMAIN inflight' |-> inflight'[w]] /\ DOMAIN inflight' = {}
  BY <1>11
<1> QED
  BY <1>1, <1>9, <1>10, <1>12, <1>13, <1>14 DEF DeviceInv

LEMMA DeviceStep ==
    ASSUME NEW p, NEW contents, Executable(p, contents), DeviceInv(p, contents),
           [Dispatch(Stores(Current, started, memory))]_deviceVars
    PROVE  DeviceInv(p, contents)'
<1>1. CASE Load(Stores(Current, started, memory))
  BY <1>1, LoadStep
<1>2. CASE \E w \in DOMAIN inflight : Store(w)
  BY <1>2, StoreStep
<1>3. CASE NextPass
  BY <1>3, NextPassStep
<1>4. CASE UNCHANGED deviceVars
  BY <1>4 DEF deviceVars, DeviceInv, Running, Current, WorkgroupCount, Now, Done, Ended, passes
<1> QED
  BY <1>1, <1>2, <1>3, <1>4 DEF Dispatch

LEMMA DeviceStart ==
    ASSUME NEW p, NEW contents, Executable(p, contents), Submitted(p, contents)
    PROVE  DeviceInv(p, contents)
<1>1. Len(p.passes) \in Nat
  BY DEF Executable
<1>2. /\ program = p /\ pass = 1 /\ started = 0 /\ inflight = << >> /\ stored = {}
      /\ memory = contents
  BY DEF Submitted
<1>3. pass \in 1 .. Len(p.passes) + 1
  BY <1>1, <1>2
<1>4. memory = Now(p, contents)
  <2>1. Now(p, contents) = Interpreted(p, contents)[0]
    BY <1>2 DEF Now
  <2> QED
    BY <1>1, <1>2, <2>1, InterpretedStep
<1>5. program = p /\ started = 0 /\ inflight = << >> /\ stored = {}
  BY <1>2
<1> QED
  BY <1>3, <1>4, <1>5, FirstMemory

\* The inductive invariant of the device.
LEMMA DeviceKeeps ==
    ASSUME NEW p, NEW contents, Executable(p, contents)
    PROVE  Device(p, contents) => []DeviceInv(p, contents)
<1>1. Submitted(p, contents) => DeviceInv(p, contents)
  BY DeviceStart
<1>2. DeviceInv(p, contents) /\ [Dispatch(Stores(Current, started, memory))]_deviceVars
        => DeviceInv(p, contents)'
  BY DeviceStep
<1> QED
  BY <1>1, <1>2, PTL DEF Device

\* However the workgroups of a pass are interleaved, and however many run at a time, the
\* device leaves the memory that the interpreters leave, which run the workgroups of a pass
\* one after the other (execute_program_ir_complex of src/src/program_ir.rs).
THEOREM DeviceInterprets ==
    ASSUME NEW p, NEW contents, Executable(p, contents)
    PROVE  Device(p, contents) => [](~Running => memory = Interpreted(p, contents)[Len(p.passes)])
<1>1. DeviceInv(p, contents) => (~Running => memory = Interpreted(p, contents)[Len(p.passes)])
  <2> SUFFICES ASSUME DeviceInv(p, contents), ~Running
               PROVE  memory = Interpreted(p, contents)[Len(p.passes)]
    OBVIOUS
  <2>1. program = p /\ pass \in 1 .. Len(p.passes) + 1 /\ memory = Now(p, contents)
    BY DEF DeviceInv
  <2>2. pass - 1 = Len(p.passes)
    BY <2>1 DEF Running, passes, Executable
  <2> QED
    BY <2>1, <2>2 DEF Now
<1> QED
  BY <1>1, DeviceKeeps, PTL

\* Pairs with different places are as many as their places.
LEMMA PlacesCounted ==
    ASSUME NEW stores, IsFiniteSet(stores), OneValueEach(stores)
    PROVE  Cardinality({s[1] : s \in stores}) = Cardinality(stores)
<1> DEFINE T == {s[1] : s \in stores}  f == [s \in stores |-> s[1]]
<1>1. f \in Bijection(stores, T)
  <2>1. f \in [stores -> T]
    OBVIOUS
  <2>2. \A s, t \in stores : f[s] = f[t] => s = t
    BY DEF OneValueEach
  <2>3. \A i \in T : \E s \in stores : f[s] = i
    OBVIOUS
  <2> HIDE DEF f, T
  <2>4. f \in Injection(stores, T)
    BY <2>1, <2>2 DEF Injection, IsInjective
  <2>5. f \in Surjection(stores, T)
    BY <2>1, <2>3 DEF Surjection
  <2> QED
    BY <2>4, <2>5 DEF Bijection
<1>2. ExistsBijection(stores, T)
  BY <1>1 DEF ExistsBijection
<1> HIDE DEF T
<1> QED
  BY <1>2, FS_Bijection DEF T

\* The workgroups of a pass do not see each other: none stores to a place that another
\* has stored to or is going to store to, and none reads what the pass writes.
THEOREM DeviceIndependent ==
    ASSUME NEW p, NEW contents, Executable(p, contents)
    PROVE  Device(p, contents) => []WorkgroupsIndependent
<1>1. DeviceInv(p, contents) => WorkgroupsIndependent
  <2> SUFFICES ASSUME DeviceInv(p, contents) PROVE WorkgroupsIndependent
    OBVIOUS
  <2> DEFINE now == Now(p, contents)  q == Current
  <2>1. ASSUME Running PROVE Separate(q, now) /\ Workgroups(q) = 0 .. WorkgroupCount - 1 /\ WorkgroupCount \in Nat
    BY <2>1, CurrentPass DEF DeviceInv
  <2>2. ASSUME NEW w \in DOMAIN inflight
        PROVE  Running /\ w \in Workgroups(q) /\ inflight[w] = Stores(q, w, now)
    <3>1. w \in 0 .. started - 1 /\ started \in Nat
      BY <2>2 DEF DeviceInv
    <3>2. Running
      BY <3>1 DEF DeviceInv
    <3>3. started <= WorkgroupCount /\ inflight[w] = Stores(q, w, now)
      BY <2>2, <3>2 DEF DeviceInv
    <3> QED
      BY <2>1, <3>1, <3>2, <3>3
  <2>3. ASSUME Running PROVE Ended \subseteq Workgroups(q) /\ stored = {s[1] : s \in DoneStores(q, now, Ended)}
    <3>1. started \in Nat /\ started <= WorkgroupCount /\ stored = {s[1] : s \in DoneStores(q, now, Ended)}
      BY <2>3 DEF DeviceInv, Done
    <3> QED
      BY <2>1, <2>3, <3>1 DEF Ended
  <2> HIDE DEF now, q
  <2>4. ASSUME NEW w \in DOMAIN inflight
        PROVE  Cardinality({s[1] : s \in inflight[w]}) = Cardinality(inflight[w])
    <3>1. IsFiniteSet(inflight[w]) /\ OneValueEach(inflight[w])
      BY <2>1, <2>2 DEF Separate, OneValueEach
    <3> QED
      BY <3>1, PlacesCounted
  <2>5. ASSUME NEW w \in DOMAIN inflight PROVE {s[1] : s \in inflight[w]} \cap stored = {}
    <3> SUFFICES ASSUME NEW s \in inflight[w], s[1] \in stored PROVE FALSE
      OBVIOUS
    <3>1. PICK t \in DoneStores(q, now, Ended) : t[1] = s[1]
      BY <2>2, <2>3
    <3>2. PICK v \in Ended : t \in Stores(q, v, now)
      BY DEF DoneStores
    <3>3. v \in Workgroups(q) /\ v # w
      BY <2>2, <2>3, <3>2 DEF Ended
    <3> QED
      BY <2>1, <2>2, <3>1, <3>2, <3>3 DEF Separate
  <2>6. ASSUME NEW w \in DOMAIN inflight, NEW v \in DOMAIN inflight \ {w}
        PROVE  {s[1] : s \in inflight[w]} \cap {s[1] : s \in inflight[v]} = {}
    <3>1. v # w /\ inflight[w] = Stores(q, w, now) /\ inflight[v] = Stores(q, v, now)
          /\ w \in Workgroups(q) /\ v \in Workgroups(q) /\ Separate(q, now)
      BY <2>1, <2>2
    <3> QED
      BY <3>1 DEF Separate
  <2>7. Running => Current.output \notin {Current.input, Current.lookup, Current.auxiliary}
    BY <2>1 DEF Separate, q
  <2> QED
    BY <2>4, <2>5, <2>6, <2>7 DEF WorkgroupsIndependent
<1> QED
  BY <1>1, DeviceKeeps, PTL

\* The contents have the lengths that the program gives its resources.
Allocated(p, contents) ==
  /\ DOMAIN p.resources \subseteq DOMAIN contents
  /\ \A r \in DOMAIN p.resources : DOMAIN contents[r] = 0 .. p.resources[r].elements - 1

\* No workgroup stores outside the resource that its pass writes, and no pass changes
\* the length of a resource.
THEOREM DeviceTypeOK ==
    ASSUME NEW p, NEW contents, Executable(p, contents), Allocated(p, contents)
    PROVE  Device(p, contents) => []TypeOK
<1>1. DeviceInv(p, contents) => TypeOK
  <2> SUFFICES ASSUME DeviceInv(p, contents) PROVE TypeOK
    OBVIOUS
  <2> DEFINE now == Now(p, contents)  q == Current
  <2>0. Len(p.passes) \in Nat /\ program = p /\ pass \in 1 .. Len(p.passes) + 1
    BY DEF DeviceInv, Executable
  <2>1. IsMemory(now) /\ DOMAIN now = DOMAIN contents
        /\ \A r \in DOMAIN contents : DOMAIN now[r] = DOMAIN contents[r]
    <3>1. pass - 1 \in 0 .. Len(p.passes)
      BY <2>0
    <3> QED
      BY <3>1, InterpretedMemory DEF Now
  <2>2. ASSUME Running
        PROVE  Separate(q, now) /\ Workgroups(q) = 0 .. WorkgroupCount - 1 /\ WorkgroupCount \in Nat
    BY <2>0, <2>2, CurrentPass
  <2>3. ASSUME NEW r \in DOMAIN contents PROVE DOMAIN memory[r] = DOMAIN contents[r]
    <3>1. CASE Running
      <4>1. q.output \in DOMAIN now
        BY <2>2, <3>1 DEF Separate
      <4>2. memory = WithStores(now, q.output, Done(p, contents))
        BY <3>1 DEF DeviceInv
      <4> HIDE DEF now, q
      <4> QED
        BY <2>1, <2>3, <4>1, <4>2, WithStoresMemory
    <3>2. CASE ~Running
      <4>1. memory = now
        BY <3>2 DEF DeviceInv
      <4> QED
        BY <2>1, <4>1
    <3> QED
      BY <3>1, <3>2
  <2>4. \A r \in DOMAIN p.resources : DOMAIN memory[r] = 0 .. p.resources[r].elements - 1
    BY <2>3 DEF Allocated
  <2>5. ASSUME NEW w \in DOMAIN inflight, NEW s \in inflight[w]
        PROVE  s[1] \in DOMAIN memory[q.output]
    <3>1. w \in 0 .. started - 1 /\ started \in Nat
      BY <2>5 DEF DeviceInv
    <3>2. Running
      BY <3>1 DEF DeviceInv
    <3>3. started <= WorkgroupCount /\ inflight[w] = Stores(q, w, now)
      BY <2>5, <3>2 DEF DeviceInv
    <3>4. w \in Workgroups(q)
      BY <2>2, <3>1, <3>2, <3>3
    <3> HIDE DEF now, q
    <3>5. s[1] \in DOMAIN now[q.output] /\ q.output \in DOMAIN now
      BY <2>2, <3>2, <3>3, <3>4 DEF Separate
    <3> QED
      BY <2>1, <2>3, <3>5
  <2>6. Running => started \in 0 .. WorkgroupCount
    BY <2>2 DEF DeviceInv
  <2> QED
    BY <2>0, <2>4, <2>5, <2>6 DEF TypeOK, passes
<1> QED
  BY <1>1, DeviceKeeps, PTL

\* No workgroup of pass q stores a value computed from a place that nobody wrote.
Determined(q, contents) ==
  \A w \in Workgroups(q) : \A s \in Stores(q, w, contents) : Defined(s[2])

\* The same of every pass of the program, in the memory that the passes before it leave.
Complete(p, contents) ==
  /\ Executable(p, contents)
  /\ \A n \in 1 .. Len(p.passes) : Determined(p.passes[n], Interpreted(p, contents)[n - 1])

\* When the passes of a program, run one after the other, use nothing that they have not
\* written, the device does not either, however their workgroups are interleaved.
THEOREM DeviceUsesWritten ==
    ASSUME NEW p, NEW contents, Complete(p, contents)
    PROVE  Device(p, contents) => []NothingFromUnwritten
<1>0. Executable(p, contents)
  BY DEF Complete
<1>1. DeviceInv(p, contents) => NothingFromUnwritten
  <2> SUFFICES ASSUME DeviceInv(p, contents), NEW w \in DOMAIN inflight, NEW s \in inflight[w]
               PROVE  Defined(s[2])
    BY DEF NothingFromUnwritten
  <2>1. w \in 0 .. started - 1 /\ started \in Nat
    BY DEF DeviceInv
  <2>2. Running
    BY <2>1 DEF DeviceInv
  <2>3. started <= WorkgroupCount /\ inflight[w] = Stores(Current, w, Now(p, contents))
    BY <2>2 DEF DeviceInv
  <2>4. /\ pass \in 1 .. Len(p.passes) /\ Current = p.passes[pass]
        /\ Workgroups(Current) = 0 .. WorkgroupCount - 1 /\ WorkgroupCount \in Nat
    BY <1>0, <2>2, CurrentPass DEF DeviceInv
  <2>5. w \in Workgroups(Current)
    BY <2>1, <2>3, <2>4
  <2>6. Determined(Current, Now(p, contents))
    BY <2>4 DEF Complete, Now
  <2> QED
    BY <2>3, <2>5, <2>6 DEF Determined
<1> QED
  BY <1>0, <1>1, DeviceKeeps, PTL

-----------------------------------------------------------------------------
(* Passes that store through a mapping.                                    *)

\* Each workgroup of pass q stores value v[w][i] as element i of its transform.
StoresMapped(q, x, io, len, v) ==
  \A w \in Workgroups(q) :
    Stores(q, w, x) = {<<output_index(io, len, w, i), v[w][i]>> : i \in Points(len)}

\* Each index of the mapping is that of one element.
LEMMA MappedSeparate ==
    ASSUME NEW x, NEW q, NEW len \in Positive, NEW io, IsMapping(io, len), NEW lines \in Nat,
           q.ir.batches = lines * PerLine(io), q.output \in DOMAIN x,
           Places(io, len, lines) \subseteq DOMAIN x[q.output],
           \A r \in {q.input, q.lookup, q.auxiliary} :
             r # q.output /\ (r # NoResource => r \in DOMAIN x),
           q.ir.batches \in Nat,
           NEW v, StoresMapped(q, x, io, len, v)
    PROVE  Separate(q, x)
<1> DEFINE place == [e \in Elements(io, len, lines) |-> output_index(io, len, e[1], e[2])]
           n == q.ir.batches
<1>1. place \in Bijection(Elements(io, len, lines), Places(io, len, lines))
  BY StoresOnce
<1>2. Elements(io, len, lines) = Points(n) \X Points(len) /\ Workgroups(q) = Points(n)
  BY DEF Elements, Workgroups, Points
<1>3. ASSUME NEW w \in Points(n), NEW i \in Points(len)
      PROVE  /\ <<w, i>> \in Elements(io, len, lines)
             /\ place[<<w, i>>] = output_index(io, len, w, i)
             /\ output_index(io, len, w, i) \in Places(io, len, lines)
  <2>1. <<w, i>> \in Elements(io, len, lines)
    BY <1>2
  <2>2. place[<<w, i>>] = output_index(io, len, w, i)
    BY <2>1
  <2>3. place \in [Elements(io, len, lines) -> Places(io, len, lines)]
    BY <1>1 DEF Bijection, Injection
  <2> HIDE DEF place
  <2> QED
    BY <2>1, <2>2, <2>3
<1>4. ASSUME NEW w1 \in Points(n), NEW i1 \in Points(len), NEW w2 \in Points(n), NEW i2 \in Points(len),
             output_index(io, len, w1, i1) = output_index(io, len, w2, i2)
      PROVE  w1 = w2 /\ i1 = i2
  <2>1. \A e, f \in Elements(io, len, lines) : place[e] = place[f] => e = f
    <3> HIDE DEF place
    <3> QED
      BY <1>1 DEF Bijection, Injection, IsInjective
  <2>2. <<w1, i1>> \in Elements(io, len, lines) /\ <<w2, i2>> \in Elements(io, len, lines)
        /\ place[<<w1, i1>>] = place[<<w2, i2>>]
    BY <1>3, <1>4
  <2> HIDE DEF place
  <2>3. <<w1, i1>> = <<w2, i2>>
    BY <2>1, <2>2
  <2> QED
    BY <2>3
<1> HIDE DEF place, n
<1> USE DEF StoresMapped
<1>5. ASSUME NEW w \in Workgroups(q) PROVE IsFiniteSet(Stores(q, w, x))
  <2> DEFINE S == Points(len)  f == [i \in S |-> <<output_index(io, len, w, i), v[w][i]>>]
             T == {f[i] : i \in S}
  <2>1. Stores(q, w, x) = T
    BY <1>5
  <2>2. IsFiniteSet(S)
    BY FS_Interval DEF Points, Positive
  <2>3. f \in Surjection(S, T)
    <3> HIDE DEF S
    <3>1. f \in [S -> T]
      OBVIOUS
    <3>2. \A t \in T : \E i \in S : f[i] = t
      OBVIOUS
    <3> HIDE DEF T, f
    <3> QED
      BY <3>1, <3>2 DEF Surjection
  <2> HIDE DEF S, T, f
  <2> QED
    BY <2>1, <2>2, <2>3, FS_Surjection
<1>6. ASSUME NEW w \in Workgroups(q), NEW s \in Stores(q, w, x) PROVE s[1] \in DOMAIN x[q.output]
  <2>1. PICK i \in Points(len) : s = <<output_index(io, len, w, i), v[w][i]>>
    OBVIOUS
  <2> QED
    BY <1>2, <1>3, <2>1
<1>7. ASSUME NEW w1 \in Workgroups(q), NEW w2 \in Workgroups(q),
             NEW s \in Stores(q, w1, x), NEW t \in Stores(q, w2, x), s[1] = t[1]
      PROVE  w1 = w2 /\ s = t
  <2>1. PICK i1 \in Points(len) : s = <<output_index(io, len, w1, i1), v[w1][i1]>>
    OBVIOUS
  <2>2. PICK i2 \in Points(len) : t = <<output_index(io, len, w2, i2), v[w2][i2]>>
    OBVIOUS
  <2> QED
    BY <1>2, <1>4, <1>7, <2>1, <2>2
<1> QED
  BY <1>5, <1>6, <1>7 DEF Separate, n

\* After a pass the other resources are what they were.
LEMMA AfterPassMemory ==
    ASSUME NEW x, IsMemory(x), NEW q, q.output \in DOMAIN x
    PROVE  /\ IsMemory(AfterPass(x, q)) /\ DOMAIN AfterPass(x, q) = DOMAIN x
           /\ \A r \in DOMAIN x : DOMAIN AfterPass(x, q)[r] = DOMAIN x[r]
           /\ \A r \in DOMAIN x : r # q.output => AfterPass(x, q)[r] = x[r]
           /\ AfterPass(x, q)[q.output]
                = Written(x[q.output], DoneStores(q, x, Workgroups(q)))
<1>1. AfterPass(x, q) = WithStores(x, q.output, DoneStores(q, x, Workgroups(q)))
  BY DEF AfterPass, WithStores, DoneStores
<1> QED
  BY <1>1, WithStoresMemory

\* A pass between two resources (two_buffer_pass of src/src/program_ir.rs).
Between(kind, ir, source, target) ==
  [kind |-> kind, ir |-> ir, input |-> source, output |-> target,
   lookup |-> NoResource, auxiliary |-> NoResource]

\* Two different resources of n places or more.
Buffers(x, source, target, n) ==
  /\ IsMemory(x) /\ source # target /\ NoResource \notin {source, target}
  /\ {source, target} \subseteq DOMAIN x
  /\ Points(n) \subseteq DOMAIN x[target]

\* What a pass from source to target does: it is separate, it uses nothing unwritten, and
\* it changes the target only.
Proper(q, x) ==
  /\ Separate(q, x) /\ Determined(q, x)
  /\ IsMemory(AfterPass(x, q)) /\ DOMAIN AfterPass(x, q) = DOMAIN x
  /\ \A r \in DOMAIN x : DOMAIN AfterPass(x, q)[r] = DOMAIN x[r]
  /\ \A r \in DOMAIN x : r # q.output => AfterPass(x, q)[r] = x[r]

LEMMA ProperPass ==
    ASSUME NEW q, NEW x, IsMemory(x), Separate(q, x), Determined(q, x)
    PROVE  Proper(q, x)
<1>1. q.output \in DOMAIN x
  BY DEF Separate
<1> QED
  BY <1>1, AfterPassMemory DEF Proper

\* The turns by which a mapping stores are turns of the circle.
Turning(io, len, n) ==
  \A batch \in Points(n), i \in Points(len) :
    output_turn(io, batch, i)[1] \in Int /\ Divides(output_turn(io, batch, i)[2])

LEMMA ResultDefined ==
    ASSUME NEW len, Divides(len), NEW io, NEW n, Turning(io, len, n), NEW direction, NEW scale,
           NEW w \in Points(n), NEW i \in Points(len), NEW contents,
           Numbers(Source(io, len, direction, w, contents), len)
    PROVE  Result(io, len, direction, scale, w, contents, i) \in Number
<1> DEFINE y == Source(io, len, direction, w, contents)
           z == Scaled(Fourier(y, len, direction)[i], scale, len)
           turn == output_turn(io, w, i)
<1>1. Fourier(y, len, direction)[i] \in Number
  <2> HIDE DEF y
  <2>1. Numbers(y, len)
    BY DEF y
  <2> QED
    BY <2>1, FourierAt
<1>2. z \in Number
  <2> HIDE DEF y
  <2>1. Scaled(Fourier(y, len, direction)[i], scale, len)
          = Mul(Fourier(y, len, direction)[i], Factor(scale, len))
        /\ Factor(scale, len) \in Number
    BY <1>1, ScaledFactor
  <2> QED
    BY <1>1, <2>1, NumberClosed
<1>3. turn[1] \in Int /\ Divides(turn[2])
  BY DEF Turning
<1>4. Turned(z, turn, direction) = Mul(z, W(turn[1], turn[2], direction))
  BY DEF Turned, W
<1>5. Result(io, len, direction, scale, w, contents, i) = Turned(z, turn, direction)
  BY DEF Result
<1> HIDE DEF z, turn, y
<1>6. W(turn[1], turn[2], direction) \in Number
  BY <1>3, WNumber
<1>7. Mul(z, W(turn[1], turn[2], direction)) \in Number
  BY <1>2, <1>6, NumberClosed
<1> QED
  BY <1>4, <1>5, <1>7

\* A pass of Stockham transforms over whole lines.
LEMMA StockhamStep ==
    ASSUME NEW len, Divides(len), NEW io, IsMapping(io, len), NEW direction, NEW scale,
           NEW ir, Leaf(ir, io, len, direction, scale), NEW lines \in Nat,
           ir.batches = lines * PerLine(io), ir.batches \in Nat,
           NEW x, NEW source, NEW target, Buffers(x, source, target, lines * PerLine(io) * len),
           Turning(io, len, lines * PerLine(io)),
           \A batch \in Points(lines * PerLine(io)) :
             Numbers(Source(io, len, direction, batch, x[source]), len)
    PROVE  /\ Proper(Between("Stockham", ir, source, target), x)
           /\ Transformed(io, len, direction, scale, lines * PerLine(io), x[source],
                          AfterPass(x, Between("Stockham", ir, source, target))[target])
<1> DEFINE q == Between("Stockham", ir, source, target)  n == lines * PerLine(io)
           v == [w \in Workgroups(q) |-> [i \in Points(len) |->
                   Result(io, len, direction, scale, w, x[source], i)]]
<1>0. len \in Positive
  BY DEF Divides
<1>1. /\ q.kind = "Stockham" /\ q.ir = ir /\ q.input = source /\ q.output = target
      /\ q.lookup = NoResource /\ q.auxiliary = NoResource
  BY DEF Between
<1>2. Workgroups(q) = Points(n)
  BY <1>1 DEF Workgroups, Points
<1>3. \A w : Stores(q, w, x) = Stockham(ir, w, x[source], << >>, << >>)
  BY <1>1 DEF Stores, Buffers
<1> HIDE DEF q, n
<1>4. ASSUME NEW w \in Workgroups(q)
      PROVE  Stores(q, w, x) = {<<output_index(io, len, w, i),
                                  Result(io, len, direction, scale, w, x[source], i)>> : i \in Points(len)}
  <2>1. Numbers(Source(io, len, direction, w, x[source]), len)
    BY <1>2 DEF n
  <2>2. Stockham(ir, w, x[source], << >>, << >>)
          = {<<output_index(io, len, w, i),
               Result(io, len, direction, scale, w, x[source], i)>> : i \in Points(len)}
    BY <2>1, StockhamStores
  <2> QED
    BY <1>3, <2>2
<1>5. StoresMapped(q, x, io, len, v)
  BY <1>4 DEF StoresMapped
<1>6. Separate(q, x)
  <2>1. q.ir.batches = lines * PerLine(io) /\ q.ir.batches \in Nat
    BY <1>1
  <2>2. q.output \in DOMAIN x /\ Places(io, len, lines) \subseteq DOMAIN x[q.output]
    BY <1>1 DEF Buffers, Places
  <2>3. \A r \in {q.input, q.lookup, q.auxiliary} :
          r # q.output /\ (r # NoResource => r \in DOMAIN x)
    BY <1>1 DEF Buffers
  <2> HIDE DEF v
  <2> HIDE <1>1
  <2> QED
    BY <1>0, <1>5, <2>1, <2>2, <2>3, MappedSeparate
<1>8. Determined(q, x)
  <2> SUFFICES ASSUME NEW w \in Workgroups(q), NEW s \in Stores(q, w, x) PROVE Defined(s[2])
    BY DEF Determined
  <2>1. PICK i \in Points(len) :
           s = <<output_index(io, len, w, i), Result(io, len, direction, scale, w, x[source], i)>>
    BY <1>4
  <2>2. Numbers(Source(io, len, direction, w, x[source]), len) /\ Turning(io, len, n)
    BY <1>2 DEF n
  <2>3. Result(io, len, direction, scale, w, x[source], i) \in Number
    BY <1>2, <2>2, ResultDefined
  <2> QED
    BY <2>1, <2>3, NumberDefined
<1>9. target \in DOMAIN x /\ IsMemory(x)
  BY DEF Buffers
<1>10. Proper(q, x)
  BY <1>6, <1>8, <1>9, ProperPass
<1>11. AfterPass(x, q)[target]
         = Written(x[target], UNION {Stockham(ir, w, x[source], << >>, << >>) : w \in Points(n)})
  <2>1. AfterPass(x, q)[q.output] = Written(x[q.output], DoneStores(q, x, Workgroups(q)))
    <3>1. q.output \in DOMAIN x
      BY <1>1, <1>9
    <3> QED
      BY <1>9, <3>1, AfterPassMemory
  <2>2. DoneStores(q, x, Workgroups(q))
          = UNION {Stockham(ir, w, x[source], << >>, << >>) : w \in Points(n)}
    BY <1>2, <1>3 DEF DoneStores
  <2> QED
    BY <1>1, <2>1, <2>2
<1>12. Transformed(io, len, direction, scale, n, x[source], AfterPass(x, q)[target])
  <2>1. Places(io, len, lines) \subseteq DOMAIN x[target]
    BY DEF Places, Buffers
  <2>2. Transformed(io, len, direction, scale, n, x[source],
          Written(x[target], UNION {Stockham(ir, w, x[source], << >>, << >>) : w \in Points(n)}))
    BY <2>1, StockhamPassTransforms DEF n
  <2> QED
    BY <1>11, <2>2
<1> QED
  BY <1>10, <1>12 DEF q, n

-----------------------------------------------------------------------------
(* Programs of uploads.                                                    *)

\* What a device that executes p does, and what it leaves at the end.
Leaves(p, contents, result) ==
  Device(p, contents) => [](/\ WorkgroupsIndependent /\ NothingFromUnwritten
                            /\ ~Running => memory = result)

LEMMA CompleteLeaves ==
    ASSUME NEW p, NEW contents, Complete(p, contents)
    PROVE  Leaves(p, contents, Interpreted(p, contents)[Len(p.passes)])
<1>1. Executable(p, contents)
  BY DEF Complete
<1>2. Device(p, contents) => []WorkgroupsIndependent
  BY <1>1, DeviceIndependent
<1>3. Device(p, contents) => []NothingFromUnwritten
  BY DeviceUsesWritten
<1>4. Device(p, contents) => [](~Running => memory = Interpreted(p, contents)[Len(p.passes)])
  BY <1>1, DeviceInterprets
<1> QED
  BY <1>2, <1>3, <1>4, PTL DEF Leaves

LEMMA FirstMemories ==
    ASSUME NEW p, NEW contents, Len(p.passes) \in Nat
    PROVE  /\ Interpreted(p, contents)[0] = contents
           /\ 1 <= Len(p.passes) =>
                Interpreted(p, contents)[1] = AfterPass(Interpreted(p, contents)[0], p.passes[1])
           /\ 2 <= Len(p.passes) =>
                Interpreted(p, contents)[2] = AfterPass(Interpreted(p, contents)[1], p.passes[2])
           /\ 3 <= Len(p.passes) =>
                Interpreted(p, contents)[3] = AfterPass(Interpreted(p, contents)[2], p.passes[3])
           /\ 4 <= Len(p.passes) =>
                Interpreted(p, contents)[4] = AfterPass(Interpreted(p, contents)[3], p.passes[4])
           /\ 5 <= Len(p.passes) =>
                Interpreted(p, contents)[5] = AfterPass(Interpreted(p, contents)[4], p.passes[5])
<1>1. ASSUME 1 <= Len(p.passes)
      PROVE  Interpreted(p, contents)[1] = AfterPass(Interpreted(p, contents)[0], p.passes[1])
  <2>1. 1 \in 1 .. Len(p.passes) /\ 1 - 1 = 0
    BY <1>1
  <2> HIDE <1>1
  <2> QED
    BY <2>1, InterpretedStep
<1>2. ASSUME 2 <= Len(p.passes)
      PROVE  Interpreted(p, contents)[2] = AfterPass(Interpreted(p, contents)[1], p.passes[2])
  <2>1. 2 \in 1 .. Len(p.passes) /\ 2 - 1 = 1
    BY <1>2
  <2> HIDE <1>2
  <2> QED
    BY <2>1, InterpretedStep
<1>3. ASSUME 3 <= Len(p.passes)
      PROVE  Interpreted(p, contents)[3] = AfterPass(Interpreted(p, contents)[2], p.passes[3])
  <2>1. 3 \in 1 .. Len(p.passes) /\ 3 - 1 = 2
    BY <1>3
  <2> HIDE <1>3
  <2> QED
    BY <2>1, InterpretedStep
<1>4. ASSUME 4 <= Len(p.passes)
      PROVE  Interpreted(p, contents)[4] = AfterPass(Interpreted(p, contents)[3], p.passes[4])
  <2>1. 4 \in 1 .. Len(p.passes) /\ 4 - 1 = 3
    BY <1>4
  <2> HIDE <1>4
  <2> QED
    BY <2>1, InterpretedStep
<1>5. ASSUME 5 <= Len(p.passes)
      PROVE  Interpreted(p, contents)[5] = AfterPass(Interpreted(p, contents)[4], p.passes[5])
  <2>1. 5 \in 1 .. Len(p.passes) /\ 5 - 1 = 4
    BY <1>5
  <2> HIDE <1>5
  <2> QED
    BY <2>1, InterpretedStep
<1>6. Interpreted(p, contents)[0] = contents
  BY InterpretedStep
<1> QED
  BY <1>1, <1>2, <1>3, <1>4, <1>5, <1>6

LEMMA OnePass ==
    ASSUME NEW p, NEW q, p.passes = <<q>>, NEW contents, IsMemory(contents), Proper(q, contents)
    PROVE  Leaves(p, contents, AfterPass(contents, q))
<1>1. Len(p.passes) = 1 /\ p.passes[1] = q
  OBVIOUS
<1> DEFINE x(n) == Interpreted(p, contents)[n]
<1>2. x(0) = contents /\ x(1) = AfterPass(x(0), q)
  BY <1>1, FirstMemories
<1> HIDE DEF x
<1>3. \A n \in 1 .. Len(p.passes) : Separate(p.passes[n], x(n - 1)) /\ Determined(p.passes[n], x(n - 1))
  BY <1>1, <1>2 DEF Proper
<1>4. Complete(p, contents)
  BY <1>1, <1>3 DEF Complete, Executable, x
<1>5. Interpreted(p, contents)[Len(p.passes)] = AfterPass(contents, q)
  BY <1>1, <1>2 DEF x
<1> QED
  BY <1>4, <1>5, CompleteLeaves

LEMMA TwoPasses ==
    ASSUME NEW p, NEW q1, NEW q2, p.passes = <<q1, q2>>, NEW contents, IsMemory(contents),
           Proper(q1, contents), NEW y, y = AfterPass(contents, q1), Proper(q2, y)
    PROVE  Leaves(p, contents, AfterPass(y, q2))
<1>1. Len(p.passes) = 2 /\ p.passes[1] = q1 /\ p.passes[2] = q2
  OBVIOUS
<1> DEFINE x(n) == Interpreted(p, contents)[n]
<1>2. x(0) = contents /\ x(1) = AfterPass(x(0), q1) /\ x(2) = AfterPass(x(1), q2)
  BY <1>1, FirstMemories
<1> HIDE DEF x
<1>3. \A n \in 1 .. Len(p.passes) : Separate(p.passes[n], x(n - 1)) /\ Determined(p.passes[n], x(n - 1))
  BY <1>1, <1>2 DEF Proper
<1>4. Complete(p, contents)
  BY <1>1, <1>3 DEF Complete, Executable, x
<1>5. Interpreted(p, contents)[Len(p.passes)] = AfterPass(y, q2)
  BY <1>1, <1>2 DEF x
<1> QED
  BY <1>4, <1>5, CompleteLeaves

LEMMA ThreePasses ==
    ASSUME NEW p, NEW q1, NEW q2, NEW q3, p.passes = <<q1, q2, q3>>, NEW contents, IsMemory(contents),
           Proper(q1, contents), NEW y, y = AfterPass(contents, q1), Proper(q2, y),
           NEW z, z = AfterPass(y, q2), Proper(q3, z)
    PROVE  Leaves(p, contents, AfterPass(z, q3))
<1>1. Len(p.passes) = 3 /\ p.passes[1] = q1 /\ p.passes[2] = q2 /\ p.passes[3] = q3
  OBVIOUS
<1> DEFINE x(n) == Interpreted(p, contents)[n]
<1>2. /\ x(0) = contents /\ x(1) = AfterPass(x(0), q1) /\ x(2) = AfterPass(x(1), q2)
      /\ x(3) = AfterPass(x(2), q3)
  <2>0. Len(p.passes) \in Nat /\ 1 <= Len(p.passes) /\ 2 <= Len(p.passes) /\ 3 <= Len(p.passes)
    BY <1>1
  <2>1. /\ x(0) = contents /\ x(1) = AfterPass(x(0), p.passes[1])
        /\ x(2) = AfterPass(x(1), p.passes[2]) /\ x(3) = AfterPass(x(2), p.passes[3])
    <3> HIDE <1>1
    <3> QED
      BY <2>0, FirstMemories
  <2> QED
    BY <1>1, <2>1
<1> HIDE DEF x
<1>3. \A n \in 1 .. Len(p.passes) : Separate(p.passes[n], x(n - 1)) /\ Determined(p.passes[n], x(n - 1))
  BY <1>1, <1>2 DEF Proper
<1>4. Complete(p, contents)
  BY <1>1, <1>3 DEF Complete, Executable, x
<1>5. Interpreted(p, contents)[Len(p.passes)] = AfterPass(z, q3)
  BY <1>1, <1>2 DEF x
<1> QED
  BY <1>4, <1>5, CompleteLeaves

\* The mappings that do not turn.
LEMMA NoTurning ==
    ASSUME NEW io, io.kind \in {"Contiguous", "FourStepLeft", "ThreeUpload0"}, NEW len, NEW n
    PROVE  Turning(io, len, n)
<1>1. Divides(1)
  <2>1. 1 \in Positive /\ Q + 1 \in Positive /\ Q + 1 = 1 * (Q + 1)
    BY Modulus DEF Positive
  <2> QED
    BY <2>1 DEF Divides
<1> QED
  BY <1>1 DEF Turning, output_turn

LEMMA UploadTurning ==
    ASSUME NEW a \in Positive, NEW b \in Positive, Divides(a * b), NEW io,
           io.kind \in {"FourStepRight", "ThreeUpload1"}, io.a = a, io.b = b, NEW n \in Nat
    PROVE  Turning(io, b, n)
<1> SUFFICES ASSUME NEW batch \in Points(n), NEW i \in Points(b)
             PROVE  output_turn(io, batch, i)[1] \in Int /\ Divides(output_turn(io, batch, i)[2])
  BY DEF Turning
<1>1. output_turn(io, batch, i) = <<(batch % a) * i, a * b>>
  BY DEF output_turn
<1>2. batch \in Nat /\ i \in Nat
  BY DEF Points
<1>3. batch % a \in Nat
  BY <1>2, DivMod DEF Points
<1> QED
  BY <1>1, <1>2, <1>3

\* The device that executes the program of a transform of one upload leaves the discrete
\* Fourier transform of every line, however its workgroups are interleaved.
THEOREM DeviceTransforms ==
    ASSUME NEW len, Divides(len), NEW direction, NEW scale, NEW lines \in Nat,
           NEW ir, Leaf(ir, Contiguous, len, direction, scale), ir.batches = lines,
           NEW p, NEW source, NEW target, p.passes = <<Between("Stockham", ir, source, target)>>,
           NEW contents, Buffers(contents, source, target, lines * len),
           Filled(contents[source], len, lines)
    PROVE  Device(p, contents)
             => [](/\ WorkgroupsIndependent /\ NothingFromUnwritten
                   /\ ~Running => LinesTransformed(len, direction, scale, lines,
                                                   contents[source], memory[target]))
<1> DEFINE q == Between("Stockham", ir, source, target)
           after == AfterPass(contents, q)
<1>0. PerLine(Contiguous) = 1 /\ lines * 1 = lines /\ len \in Positive /\ len \in Nat
  BY DEF PerLine, PerLineOf, Contiguous, Divides, Positive
<1>1. ASSUME NEW batch \in Points(lines), NEW i \in 0 .. len - 1
      PROVE  /\ Source(Contiguous, len, direction, batch, contents[source])[i]
                  = Line(contents[source], len, batch)[i]
             /\ Line(contents[source], len, batch)[i] \in Number
  <2>1. Line(contents[source], len, batch)[i] \in Number
    BY DEF Filled, Numbers
  <2>2. Line(contents[source], len, batch)[i] = At(contents[source], batch * len + i)
    BY DEF Line
  <2>3. Source(Contiguous, len, direction, batch, contents[source])[i]
          = Turned(At(contents[source], batch * len + i), <<0, 1>>, direction)
    BY DEF Source, Contiguous, input_index, input_turn, PrimeIndex
  <2> QED
    BY <2>1, <2>2, <2>3, Unturned
<1>2. \A batch \in Points(lines) : Numbers(Source(Contiguous, len, direction, batch, contents[source]), len)
  BY <1>1 DEF Numbers
<1>3. Turning(Contiguous, len, lines)
  BY NoTurning DEF Contiguous
<1>4. IsMapping(Contiguous, len)
  BY DEF IsMapping, IsUpload
<1>5. /\ Proper(q, contents)
      /\ Transformed(Contiguous, len, direction, scale, lines, contents[source], after[target])
  <2> DEFINE io == Contiguous
  <2>1. /\ PerLine(io) = 1 /\ IsMapping(io, len) /\ Turning(io, len, lines) /\ Leaf(ir, io, len, direction, scale)
        /\ \A batch \in Points(lines) : Numbers(Source(io, len, direction, batch, contents[source]), len)
    BY <1>0, <1>2, <1>3, <1>4
  <2> HIDE DEF io
  <2> QED
    BY <1>0, <2>1, StockhamStep DEF io
<1>6. LinesTransformed(len, direction, scale, lines, contents[source], after[target])
  <2> HIDE DEF q, after
  <2> SUFFICES ASSUME NEW line \in Points(lines), NEW k \in Points(len)
               PROVE  At(after[target], line * len + k)
                        = Scaled(Fourier(Line(contents[source], len, line), len, direction)[k], scale, len)
    BY DEF LinesTransformed
  <2>1. output_index(Contiguous, len, line, k) = line * len + k /\ output_turn(Contiguous, line, k) = <<0, 1>>
    BY DEF Contiguous, output_index, UploadIndex, output_turn
  <2>2. Fourier(Source(Contiguous, len, direction, line, contents[source]), len, direction)
          = Fourier(Line(contents[source], len, line), len, direction)
    BY <1>0, <1>1, FourierSame DEF Points
  <2> DEFINE u == Scaled(Fourier(Line(contents[source], len, line), len, direction)[k], scale, len)
  <2>3. At(after[target], line * len + k) = Turned(u, <<0, 1>>, direction)
    BY <1>5, <2>1, <2>2 DEF Transformed
  <2>4. u \in Number
    <3>1. Numbers(Line(contents[source], len, line), len)
      BY DEF Filled
    <3>2. Fourier(Line(contents[source], len, line), len, direction)[k] \in Number
      BY <3>1, FourierAt
    <3> QED
      BY <3>2, ScaledFactor, NumberClosed
  <2> HIDE DEF u
  <2> QED
    BY <2>3, <2>4, Unturned DEF u
<1>7. IsMemory(contents)
  BY DEF Buffers
<1>8. Leaves(p, contents, after)
  <2> HIDE DEF q
  <2>1. p.passes = <<q>>
    BY DEF q
  <2> QED
    BY <1>5, <1>7, <2>1, OnePass
<1> HIDE DEF q, after
<1>9. ASSUME memory = after
      PROVE  LinesTransformed(len, direction, scale, lines, contents[source], memory[target])
  BY <1>6, <1>9
<1> QED
  BY <1>8, <1>9, PTL DEF Leaves

\* A memory that a proper pass does not write is what it was.
LEMMA ProperKeeps ==
    ASSUME NEW x, NEW q, Proper(q, x), NEW source, NEW target, NEW n,
           Buffers(x, source, target, n)
    PROVE  Buffers(AfterPass(x, q), source, target, n)
  BY DEF Proper, Buffers

LEMMA FourStepUploads ==
    ASSUME NEW a \in Positive, NEW b \in Positive, NEW lines \in Nat, Divides(a * b)
    PROVE  /\ Divides(a) /\ Divides(b)
           /\ IsMapping(FourStepRight(a, b), b) /\ IsMapping(FourStepLeft(a, b), a)
           /\ PerLine(FourStepRight(a, b)) = a /\ PerLine(FourStepLeft(a, b)) = b
           /\ lines * a * b = lines * (a * b) /\ lines * b * a = lines * (a * b)
           /\ lines * a \in Nat /\ lines * b \in Nat
           /\ Turning(FourStepRight(a, b), b, lines * a) /\ Turning(FourStepLeft(a, b), a, lines * b)
           /\ \A y, i : /\ input_index(FourStepRight(a, b), b, y, i) = Strided(y, i, a, a * b)
                        /\ input_turn(FourStepRight(a, b), y, i) = <<0, 1>>
<1>0. a \in Nat /\ b \in Nat /\ lines * a \in Nat /\ lines * b \in Nat
  BY Times DEF Positive
<1>1. Divides(a) /\ Divides(b)
  BY DividesPart
<1>2. IsMapping(FourStepRight(a, b), b) /\ IsMapping(FourStepLeft(a, b), a)
  BY DEF IsMapping, IsUpload
<1>3. PerLine(FourStepRight(a, b)) = a /\ PerLine(FourStepLeft(a, b)) = b
  BY DEF PerLine, PerLineOf, FourStepRight, FourStepLeft
<1>4. lines * a * b = lines * (a * b) /\ lines * b * a = lines * (a * b)
  BY <1>0
<1>5. Turning(FourStepRight(a, b), b, lines * a)
  <2> DEFINE io == FourStepRight(a, b)
  <2>1. io.kind = "FourStepRight" /\ io.a = a /\ io.b = b
    BY DEF FourStepRight
  <2> HIDE DEF io
  <2> QED
    BY <1>0, <2>1, UploadTurning DEF io
<1>6. Turning(FourStepLeft(a, b), a, lines * b)
  BY NoTurning DEF FourStepLeft
<1>7. \A y, i : /\ input_index(FourStepRight(a, b), b, y, i) = Strided(y, i, a, a * b)
                /\ input_turn(FourStepRight(a, b), y, i) = <<0, 1>>
  BY DEF FourStepRight, input_index, PrimeIndex, input_turn
<1> QED
  BY <1>0, <1>1, <1>2, <1>3, <1>4, <1>5, <1>6, <1>7

\* The device that executes the program of a transform of two uploads through a scratch
\* buffer, in place or not: whatever their lengths and however the workgroups are
\* interleaved, it uses nothing unwritten and leaves the discrete Fourier transform of
\* every line in natural order.
THEOREM DeviceTwoUploads ==
    ASSUME NEW a \in Positive, NEW b \in Positive, Divides(a * b), NEW direction, NEW scale,
           NEW lines \in Nat,
           NEW upper, Leaf(upper, FourStepRight(a, b), b, direction, scale), upper.batches = lines * a,
           NEW lower, Leaf(lower, FourStepLeft(a, b), a, direction, scale), lower.batches = lines * b,
           NEW p, NEW source, NEW scratch, NEW target,
           p.passes = <<Between("Stockham", upper, source, scratch),
                        Between("Stockham", lower, scratch, target)>>,
           NEW contents, Buffers(contents, source, scratch, lines * (a * b)),
           Buffers(contents, scratch, target, lines * (a * b)),
           Filled(contents[source], a * b, lines)
    PROVE  Device(p, contents)
             => [](/\ WorkgroupsIndependent /\ NothingFromUnwritten
                   /\ ~Running => LinesTransformed(a * b, direction, scale, lines,
                                                   contents[source], memory[target]))
<1> DEFINE right == FourStepRight(a, b)  left == FourStepLeft(a, b)
           q1 == Between("Stockham", upper, source, scratch)
           q2 == Between("Stockham", lower, scratch, target)
           y == AfterPass(contents, q1)  z == AfterPass(y, q2)  n == a * b  m == lines * n
           before == contents[source]  la == lines * a  lb == lines * b
<1>0. /\ Divides(a) /\ Divides(b) /\ IsMapping(right, b) /\ IsMapping(left, a)
      /\ PerLine(right) = a /\ PerLine(left) = b /\ la * b = m /\ lb * a = m /\ la \in Nat /\ lb \in Nat
      /\ Turning(right, b, la) /\ Turning(left, a, lb)
  BY FourStepUploads
<1>1. ASSUME NEW batch \in Points(la) PROVE Numbers(Source(right, b, direction, batch, before), b)
  <2>1. \A w, i : /\ input_index(right, b, w, i) = Strided(w, i, a, a * b)
                  /\ input_turn(right, w, i) = <<0, 1>>
    BY FourStepUploads
  <2> HIDE DEF right, before
  <2>2. Filled(before, a * b, lines)
    BY DEF before
  <2> QED
    BY <2>1, <2>2, StridedNumbers
<1>2. /\ Proper(q1, contents)
      /\ Transformed(right, b, direction, scale, la, before, y[scratch])
  <2>1. /\ Leaf(upper, right, b, direction, scale) /\ upper.batches = la
        /\ Buffers(contents, source, scratch, m)
    OBVIOUS
  <2> HIDE DEF right, m, q1
  <2>2. /\ upper.batches = lines * PerLine(right) /\ upper.batches \in Nat /\ la = lines * PerLine(right)
        /\ Buffers(contents, source, scratch, lines * PerLine(right) * b)
    BY <1>0, <2>1
  <2> QED
    BY <1>0, <1>1, <2>1, <2>2, StockhamStep DEF q1
<1>3. \A batch \in Points(lb) : Numbers(Source(left, a, direction, batch, y[scratch]), a)
  <2> HIDE DEF y
  <2> QED
    BY <1>2, SecondUploadNumbers
<1>4. /\ Proper(q2, y)
      /\ Transformed(left, a, direction, scale, lb, y[scratch], z[target])
  <2>1. /\ Leaf(lower, left, a, direction, scale) /\ lower.batches = lb
        /\ Buffers(y, scratch, target, m)
    BY <1>2, ProperKeeps
  <2> HIDE DEF left, m, q1, q2, y
  <2>2. /\ lower.batches = lines * PerLine(left) /\ lower.batches \in Nat /\ lb = lines * PerLine(left)
        /\ Buffers(y, scratch, target, lines * PerLine(left) * a)
    BY <1>0, <2>1
  <2> QED
    BY <1>0, <1>3, <2>1, <2>2, StockhamStep DEF q2
<1>5. LinesTransformed(a * b, direction, scale, lines, before, z[target])
  <2> HIDE DEF y, z
  <2> QED
    BY <1>2, <1>4, TwoUploadsAreFourier
<1>6. Leaves(p, contents, z)
  <2>1. p.passes = <<q1, q2>> /\ IsMemory(contents)
    BY DEF Buffers
  <2> HIDE DEF q1, q2
  <2> QED
    BY <1>2, <1>4, <2>1, TwoPasses
<1> HIDE DEF z, before
<1>7. ASSUME memory = z
      PROVE  LinesTransformed(a * b, direction, scale, lines, before, memory[target])
  BY <1>5, <1>7
<1> QED
  BY <1>6, <1>7, PTL DEF Leaves, before

\* The two uploads before the last of three read what the one before stored.
LEMMA SecondOfThreeNumbers ==
    ASSUME NEW a \in Positive, NEW b \in Positive, NEW c \in Positive, Divides(a * (b * c)),
           NEW direction, NEW scale, NEW lines \in Nat, NEW before, NEW first,
           Filled(before, a * (b * c), lines),
           Transformed(ThreeUpload(2, a, b, c), c, direction, scale, lines * (a * b), before, first),
           NEW batch \in Points((lines * c) * a)
    PROVE  Numbers(Source(ThreeUpload(1, a, b, c), b, direction, batch, first), b)
<1> DEFINE h == batch \div a  n1 == batch % a  line == h \div c  k3 == h % c
           x == Line(before, a * (b * c), line)
           y == Source(ThreeUpload(1, a, b, c), b, direction, batch, first)
<1>0. a \in Int /\ c \in Int /\ lines * c \in Nat /\ a \in Nat /\ c \in Nat
  BY Times DEF Positive
<1>1. h \in Points(lines * c) /\ n1 \in Points(a) /\ batch = h * a + n1
  BY <1>0, SplitBelow
<1> HIDE DEF h, n1
<1>2. line \in Points(lines) /\ k3 \in Points(c) /\ h = line * c + k3
  BY <1>0, <1>1, SplitBelow
<1> HIDE DEF line, k3
<1>3. Numbers(x, a * (b * c))
  BY <1>2 DEF Filled
<1>4. batch = (line * c + k3) * a + n1
  BY <1>1, <1>2
<1>5. Interim3(Source(ThreeUpload(1, a, b, c), b, direction, (line * c + k3) * a + n1, first),
               x, a, b, c, n1, k3, direction, scale)
  BY <1>1, <1>2, <1>3, SecondOfThreeReads
<1>6. Interim3(y, x, a, b, c, n1, k3, direction, scale)
  BY <1>4, <1>5
<1>7. 0 \in Points(b)
  BY DEF Points, Positive
<1> HIDE DEF x, y
<1>8. Numbers(y, b)
  BY <1>1, <1>2, <1>3, <1>6, <1>7, SecondOfThree
<1> QED
  BY <1>8 DEF y

LEMMA ThirdOfThreeNumbers ==
    ASSUME NEW a \in Positive, NEW b \in Positive, NEW c \in Positive, Divides(a * (b * c)),
           NEW direction, NEW scale, NEW lines \in Nat, NEW before, NEW first, NEW second,
           Filled(before, a * (b * c), lines),
           Transformed(ThreeUpload(2, a, b, c), c, direction, scale, lines * (a * b), before, first),
           Transformed(ThreeUpload(1, a, b, c), b, direction, scale, (lines * c) * a, first, second),
           NEW batch \in Points((lines * c) * b)
    PROVE  Numbers(Source(ThreeUpload(0, a, b, c), a, direction, batch, second), a)
<1> DEFINE h == batch \div b  k2 == batch % b  line == h \div c  k3 == h % c
           x == Line(before, a * (b * c), line)
           z == Source(ThreeUpload(0, a, b, c), a, direction, batch, second)
<1>0. b \in Int /\ c \in Int /\ lines * c \in Nat /\ b \in Nat /\ c \in Nat
  BY Times DEF Positive
<1>1. h \in Points(lines * c) /\ k2 \in Points(b) /\ batch = h * b + k2
  BY <1>0, SplitBelow
<1> HIDE DEF h, k2
<1>2. line \in Points(lines) /\ k3 \in Points(c) /\ h = line * c + k3
  BY <1>0, <1>1, SplitBelow
<1> HIDE DEF line, k3
<1>3. Numbers(x, a * (b * c))
  BY <1>2 DEF Filled
<1>4. batch = (line * c + k3) * b + k2
  BY <1>1, <1>2
<1> DEFINE j == k2 * c + k3  m == b * c
<1>5. Interim(Source(ThreeUpload(0, a, b, c), a, direction, (line * c + k3) * b + k2, second),
              x, a, b * c, k2 * c + k3, direction, scale)
  BY <1>1, <1>2, <1>3, ThirdOfThreeReads
<1>6. Interim(z, x, a, m, j, direction, scale)
  BY <1>4, <1>5
<1>7. 0 \in Points(a) /\ m \in Positive /\ j \in Points(m)
  <2>1. k2 * c + k3 \in Points(b * c)
    BY <1>0, <1>1, <1>2, JoinBelow
  <2> QED
    BY <2>1, PositiveTimes DEF Points, Positive
<1>8. Divides(a * m) /\ Numbers(x, a * m)
  BY <1>3
<1> HIDE DEF x, z, m, j
<1>9. Numbers(z, a)
  BY <1>6, <1>7, <1>8, TwoSteps
<1> QED
  BY <1>9 DEF z

LEMMA ThreeUploadTurning ==
    ASSUME NEW a \in Positive, NEW b \in Positive, NEW c \in Positive, Divides(a * (b * c)),
           NEW n \in Nat
    PROVE  /\ Turning(ThreeUpload(2, a, b, c), c, n) /\ Turning(ThreeUpload(1, a, b, c), b, n)
           /\ Turning(ThreeUpload(0, a, b, c), a, n)
<1>0. a \in Nat /\ b \in Nat /\ c \in Nat /\ a * b \in Positive
  BY PositiveTimes DEF Positive
<1>1. a * (b * c) = (a * b) * c
  BY <1>0
<1>2. Turning(ThreeUpload(0, a, b, c), a, n)
  BY NoTurning DEF ThreeUpload
<1>3. Turning(ThreeUpload(1, a, b, c), b, n)
  <2> DEFINE io == ThreeUpload(1, a, b, c)  ab == a * b
  <2>1. io.kind = "ThreeUpload1" /\ io.a = a /\ io.b = b
    BY DEF ThreeUpload
  <2>2. Divides(a * b)
    <3>1. Divides(ab * c) /\ ab \in Positive
      BY <1>0, <1>1
    <3> HIDE DEF ab
    <3>2. Divides(ab)
      BY <3>1, DividesPart
    <3> QED
      BY <3>2 DEF ab
  <2> HIDE DEF io
  <2> QED
    BY <2>1, <2>2, UploadTurning DEF io
<1>4. Turning(ThreeUpload(2, a, b, c), c, n)
  <2> DEFINE io == ThreeUpload(2, a, b, c)  ab == a * b
  <2> SUFFICES ASSUME NEW batch \in Points(n), NEW i \in Points(c)
               PROVE  output_turn(io, batch, i)[1] \in Int /\ Divides(output_turn(io, batch, i)[2])
    BY DEF Turning
  <2>1. output_turn(io, batch, i) = <<(batch % ab) * i, ab * c>>
    BY DEF output_turn, ThreeUpload
  <2>2. batch \in Nat /\ i \in Nat /\ ab \in Positive /\ Divides(ab * c)
    BY <1>0, <1>1 DEF Points
  <2> HIDE DEF ab, io
  <2>3. batch % ab \in Nat
    BY <2>2, DivMod DEF Points
  <2> QED
    BY <2>1, <2>2, <2>3
<1> QED
  BY <1>2, <1>3, <1>4

LEMMA ThreeUploadFacts ==
    ASSUME NEW a \in Positive, NEW b \in Positive, NEW c \in Positive, NEW lines \in Nat,
           Divides(a * (b * c))
    PROVE  /\ Divides(a) /\ Divides(b) /\ Divides(c)
           /\ IsMapping(ThreeUpload(2, a, b, c), c) /\ IsMapping(ThreeUpload(1, a, b, c), b)
           /\ IsMapping(ThreeUpload(0, a, b, c), a)
           /\ lines * PerLine(ThreeUpload(2, a, b, c)) = lines * (a * b)
           /\ (lines * c) * PerLine(ThreeUpload(1, a, b, c)) = (lines * c) * a
           /\ lines * PerLine(ThreeUpload(0, a, b, c)) = (lines * c) * b
           /\ (lines * (a * b)) * c = lines * (a * (b * c))
           /\ ((lines * c) * a) * b = lines * (a * (b * c))
           /\ ((lines * c) * b) * a = lines * (a * (b * c))
           /\ lines * (a * b) \in Nat /\ (lines * c) * a \in Nat /\ (lines * c) * b \in Nat
           /\ lines * c \in Nat
           /\ \A y, i : /\ input_index(ThreeUpload(2, a, b, c), c, y, i)
                             = Strided(y, i, a * b, (a * b) * c)
                        /\ input_turn(ThreeUpload(2, a, b, c), y, i) = <<0, 1>>
<1>0. a \in Nat /\ b \in Nat /\ c \in Nat /\ b * c \in Positive
  BY PositiveTimes DEF Positive
<1>1. Divides(a) /\ Divides(b) /\ Divides(c)
  <2> DEFINE m == b * c
  <2>1. Divides(a * m) /\ m \in Positive
    BY <1>0
  <2> HIDE DEF m
  <2>2. Divides(a) /\ Divides(m)
    BY <2>1, DividesPart
  <2> QED
    BY <2>2, DividesPart DEF m
<1>2. /\ IsMapping(ThreeUpload(2, a, b, c), c) /\ IsMapping(ThreeUpload(1, a, b, c), b)
      /\ IsMapping(ThreeUpload(0, a, b, c), a)
  BY DEF IsMapping, IsUpload
<1>3. /\ PerLine(ThreeUpload(2, a, b, c)) = a * b /\ PerLine(ThreeUpload(1, a, b, c)) = a
      /\ PerLine(ThreeUpload(0, a, b, c)) = b * c
  BY DEF PerLine, PerLineOf, ThreeUpload
<1>4. lines * (b * c) = (lines * c) * b
  BY <1>0
<1>5. /\ (lines * (a * b)) * c = lines * (a * (b * c))
      /\ ((lines * c) * a) * b = lines * (a * (b * c))
      /\ ((lines * c) * b) * a = lines * (a * (b * c))
  BY <1>0
<1>6. /\ lines * (a * b) \in Nat /\ (lines * c) * a \in Nat /\ (lines * c) * b \in Nat
      /\ lines * c \in Nat
  BY <1>0
<1>7. \A y, i : /\ input_index(ThreeUpload(2, a, b, c), c, y, i)
                     = Strided(y, i, a * b, (a * b) * c)
                /\ input_turn(ThreeUpload(2, a, b, c), y, i) = <<0, 1>>
  BY DEF ThreeUpload, input_index, PrimeIndex, input_turn
<1> QED
  BY <1>1, <1>2, <1>3, <1>4, <1>5, <1>6, <1>7

\* The same of three uploads, through two buffers: one of them may be the output
\* (flatten_recursive_ir of src/src/program_ir.rs).
THEOREM DeviceThreeUploads ==
    ASSUME NEW a \in Positive, NEW b \in Positive, NEW c \in Positive, Divides(a * (b * c)),
           NEW direction, NEW scale, NEW lines \in Nat,
           NEW third, Leaf(third, ThreeUpload(2, a, b, c), c, direction, scale),
           third.batches = lines * (a * b),
           NEW second, Leaf(second, ThreeUpload(1, a, b, c), b, direction, scale),
           second.batches = (lines * c) * a,
           NEW first, Leaf(first, ThreeUpload(0, a, b, c), a, direction, scale),
           first.batches = (lines * c) * b,
           NEW p, NEW source, NEW one, NEW two, NEW target,
           p.passes = <<Between("Stockham", third, source, one),
                        Between("Stockham", second, one, two),
                        Between("Stockham", first, two, target)>>,
           NEW contents, Buffers(contents, source, one, lines * (a * (b * c))),
           Buffers(contents, one, two, lines * (a * (b * c))),
           Buffers(contents, two, target, lines * (a * (b * c))),
           Filled(contents[source], a * (b * c), lines)
    PROVE  Device(p, contents)
             => [](/\ WorkgroupsIndependent /\ NothingFromUnwritten
                   /\ ~Running => LinesTransformed(a * (b * c), direction, scale, lines,
                                                   contents[source], memory[target]))
<1> DEFINE up2 == ThreeUpload(2, a, b, c)  up1 == ThreeUpload(1, a, b, c)  up0 == ThreeUpload(0, a, b, c)
           q1 == Between("Stockham", third, source, one)
           q2 == Between("Stockham", second, one, two)
           q3 == Between("Stockham", first, two, target)
           y1 == AfterPass(contents, q1)  y2 == AfterPass(y1, q2)  y3 == AfterPass(y2, q3)
           m == lines * (a * (b * c))  before == contents[source]
           n2 == lines * (a * b)  n1 == (lines * c) * a  n0 == (lines * c) * b
<1>0. /\ Divides(a) /\ Divides(b) /\ Divides(c) /\ IsMapping(up2, c) /\ IsMapping(up1, b) /\ IsMapping(up0, a)
      /\ lines * PerLine(up2) = n2 /\ (lines * c) * PerLine(up1) = n1 /\ lines * PerLine(up0) = n0
      /\ n2 * c = m /\ n1 * b = m /\ n0 * a = m /\ n2 \in Nat /\ n1 \in Nat /\ n0 \in Nat
      /\ lines * c \in Nat
  BY ThreeUploadFacts
<1>1. Turning(up2, c, n2) /\ Turning(up1, b, n1) /\ Turning(up0, a, n0)
  <2> HIDE DEF n2, n1, n0
  <2> QED
    BY <1>0, ThreeUploadTurning
<1>2. ASSUME NEW batch \in Points(n2) PROVE Numbers(Source(up2, c, direction, batch, before), c)
  <2> DEFINE ab == a * b
  <2>1. \A w, i : /\ input_index(up2, c, w, i) = Strided(w, i, ab, ab * c)
                  /\ input_turn(up2, w, i) = <<0, 1>>
    BY ThreeUploadFacts
  <2>2. ab \in Positive /\ ab * c = a * (b * c)
    <3>1. a \in Nat /\ b \in Nat /\ c \in Nat
      BY DEF Positive
    <3> QED
      BY <3>1, PositiveTimes
  <2>3. Filled(before, ab * c, lines) /\ batch \in Points(lines * ab)
    BY <2>2
  <2> HIDE DEF up2, before, ab
  <2> QED
    BY <2>1, <2>2, <2>3, StridedNumbers
<1>3. /\ Proper(q1, contents)
      /\ Transformed(up2, c, direction, scale, n2, before, y1[one])
  <2>1. /\ Leaf(third, up2, c, direction, scale) /\ third.batches = n2
        /\ Buffers(contents, source, one, m)
    OBVIOUS
  <2> HIDE DEF up2, m, q1, n2
  <2>2. /\ third.batches = lines * PerLine(up2) /\ third.batches \in Nat
        /\ Buffers(contents, source, one, lines * PerLine(up2) * c)
        /\ Turning(up2, c, lines * PerLine(up2))
        /\ \A batch \in Points(lines * PerLine(up2)) : Numbers(Source(up2, c, direction, batch, before), c)
    BY <1>0, <1>1, <1>2, <2>1
  <2>3. /\ Proper(q1, contents)
        /\ Transformed(up2, c, direction, scale, lines * PerLine(up2), before, y1[one])
    BY <1>0, <2>1, <2>2, StockhamStep DEF q1
  <2> QED
    BY <1>0, <2>3
<1>4. ASSUME NEW batch \in Points(n1) PROVE Numbers(Source(up1, b, direction, batch, y1[one]), b)
  <2> HIDE DEF y1
  <2> QED
    BY <1>3, SecondOfThreeNumbers
<1>5. /\ Proper(q2, y1)
      /\ Transformed(up1, b, direction, scale, n1, y1[one], y2[two])
  <2>1. /\ Leaf(second, up1, b, direction, scale) /\ second.batches = n1
        /\ Buffers(y1, one, two, m)
    BY <1>3, ProperKeeps
  <2> DEFINE l == lines * c
  <2> HIDE DEF up1, m, q1, q2, y1, n1, l
  <2>2. /\ second.batches = l * PerLine(up1) /\ second.batches \in Nat
        /\ Buffers(y1, one, two, l * PerLine(up1) * b)
        /\ Turning(up1, b, l * PerLine(up1)) /\ l \in Nat
        /\ \A batch \in Points(l * PerLine(up1)) : Numbers(Source(up1, b, direction, batch, y1[one]), b)
    BY <1>0, <1>1, <1>4, <2>1 DEF l
  <2>3. /\ Proper(q2, y1)
        /\ Transformed(up1, b, direction, scale, l * PerLine(up1), y1[one], y2[two])
    BY <1>0, <2>1, <2>2, StockhamStep DEF q2
  <2> QED
    BY <1>0, <2>3 DEF l
<1>6. ASSUME NEW batch \in Points(n0) PROVE Numbers(Source(up0, a, direction, batch, y2[two]), a)
  <2> HIDE DEF y1, y2
  <2> QED
    BY <1>3, <1>5, ThirdOfThreeNumbers
<1>7. /\ Proper(q3, y2)
      /\ Transformed(up0, a, direction, scale, n0, y2[two], y3[target])
  <2>1. Buffers(y1, two, target, m)
    BY <1>3, ProperKeeps
  <2>2. /\ Leaf(first, up0, a, direction, scale) /\ first.batches = n0
        /\ Buffers(y2, two, target, m)
    BY <1>5, <2>1, ProperKeeps
  <2> HIDE DEF up0, m, q1, q2, q3, y1, y2, n0
  <2>3. /\ first.batches = lines * PerLine(up0) /\ first.batches \in Nat
        /\ Buffers(y2, two, target, lines * PerLine(up0) * a)
        /\ Turning(up0, a, lines * PerLine(up0))
        /\ \A batch \in Points(lines * PerLine(up0)) : Numbers(Source(up0, a, direction, batch, y2[two]), a)
    BY <1>0, <1>1, <1>6, <2>2
  <2>4. /\ Proper(q3, y2)
        /\ Transformed(up0, a, direction, scale, lines * PerLine(up0), y2[two], y3[target])
    BY <1>0, <2>2, <2>3, StockhamStep DEF q3
  <2> QED
    BY <1>0, <2>4
<1>8. LinesTransformed(a * (b * c), direction, scale, lines, before, y3[target])
  <2> HIDE DEF y1, y2, y3
  <2> QED
    BY <1>3, <1>5, <1>7, ThreeUploadsAreFourier
<1>9. Leaves(p, contents, y3)
  <2>1. p.passes = <<q1, q2, q3>> /\ IsMemory(contents)
    BY DEF Buffers
  <2> HIDE DEF q1, q2, q3
  <2> QED
    BY <1>3, <1>5, <1>7, <2>1, ThreePasses
<1> HIDE DEF y3, before
<1>10. ASSUME memory = y3
       PROVE  LinesTransformed(a * (b * c), direction, scale, lines, before, memory[target])
  BY <1>8, <1>10
<1> QED
  BY <1>9, <1>10, PTL DEF Leaves, before

-----------------------------------------------------------------------------
(* Passes over whole lines.                                                *)

\* The first size places hold numbers.
Full(values, size) == \A j \in Points(size) : At(values, j) \in Number

\* A pass that stores numbers through a mapping is proper, leaves each of them at its
\* place, and fills its lines.
LEMMA MappedStep ==
    ASSUME NEW x, IsMemory(x), NEW q, NEW len \in Positive, NEW io, IsMapping(io, len),
           NEW lines \in Nat, q.ir.batches = lines * PerLine(io), q.ir.batches \in Nat,
           q.output \in DOMAIN x, Places(io, len, lines) \subseteq DOMAIN x[q.output],
           \A r \in {q.input, q.lookup, q.auxiliary} :
             r # q.output /\ (r # NoResource => r \in DOMAIN x),
           NEW v, StoresMapped(q, x, io, len, v),
           \A w \in Workgroups(q), i \in Points(len) : v[w][i] \in Number
    PROVE  /\ Proper(q, x)
           /\ \A w \in Workgroups(q) : Holds(AfterPass(x, q)[q.output], Stores(q, w, x))
           /\ \A w \in Workgroups(q), i \in Points(len) :
                At(AfterPass(x, q)[q.output], output_index(io, len, w, i)) = v[w][i]
           /\ Full(AfterPass(x, q)[q.output], lines * PerLine(io) * len)
<1> DEFINE after == AfterPass(x, q)[q.output]  done == DoneStores(q, x, Workgroups(q))
           Index(w, i) == output_index(io, len, w, i)
<1>1. Separate(q, x)
  BY MappedSeparate
<1>2. \A w \in Workgroups(q) : Stores(q, w, x) = {<<Index(w, i), v[w][i]>> : i \in Points(len)}
  BY DEF StoresMapped
<1>3. Determined(q, x)
  <2> SUFFICES ASSUME NEW w \in Workgroups(q), NEW s \in Stores(q, w, x) PROVE Defined(s[2])
    BY DEF Determined
  <2>1. PICK i \in Points(len) : s = <<Index(w, i), v[w][i]>>
    BY <1>2
  <2> QED
    BY <2>1, NumberDefined
<1>4. Proper(q, x)
  BY <1>1, <1>3, ProperPass
<1>5. after = Written(x[q.output], done)
  BY AfterPassMemory
<1>6. Holds(after, done)
  <2>1. \A s \in done : s[1] \in DOMAIN x[q.output]
    BY <1>1 DEF Separate, DoneStores
  <2>2. \A s, u \in done : s[1] = u[1] => s = u
    BY <1>1 DEF Separate, DoneStores
  <2> HIDE DEF done, after
  <2> QED
    BY <1>5, <2>1, <2>2, WrittenHolds
<1> HIDE DEF after
<1>7. \A w \in Workgroups(q) : Holds(after, Stores(q, w, x))
  BY <1>6 DEF Holds, DoneStores
<1>8. ASSUME NEW w \in Workgroups(q), NEW i \in Points(len) PROVE At(after, Index(w, i)) = v[w][i]
  <2> DEFINE s == <<Index(w, i), v[w][i]>>
  <2>1. s \in Stores(q, w, x)
    BY <1>2
  <2>2. s[1] = Index(w, i) /\ s[2] = v[w][i]
    OBVIOUS
  <2> HIDE DEF s
  <2> QED
    BY <1>7, <2>1, <2>2 DEF Holds
<1>9. Full(after, lines * PerLine(io) * len)
  <2> DEFINE S == Elements(io, len, lines)  place == [p \in S |-> output_index(io, len, p[1], p[2])]
  <2>1. place \in Bijection(S, Places(io, len, lines))
    BY StoresOnce
  <2> SUFFICES ASSUME NEW j \in Places(io, len, lines) PROVE At(after, j) \in Number
    BY DEF Full, Places
  <2>2. PICK p \in S : place[p] = j
    <3> HIDE DEF place, S
    <3> QED
      BY <2>1 DEF Bijection, Surjection
  <2>3. place[p] = Index(p[1], p[2]) /\ p[1] \in Workgroups(q) /\ p[2] \in Points(len)
    BY DEF Elements, Workgroups, Points
  <2> HIDE DEF place, S, Index
  <2> QED
    BY <1>8, <2>2, <2>3
<1> QED
  BY <1>4, <1>7, <1>8, <1>9 DEF after, Index

\* What a transform of every line through a mapping is asked for.
Task(io, len, direction, scale, lines) ==
  [io |-> io, len |-> len, direction |-> direction, scale |-> scale, lines |-> lines]

Batches(t) == t.lines * PerLine(t.io)
Size(t) == Batches(t) * t.len

\* The turns by which a mapping reads are turns of the circle.
ReadTurning(io, len, n) ==
  \A batch \in Points(n), i \in Points(len) :
    input_turn(io, batch, i)[1] \in Int /\ Divides(input_turn(io, batch, i)[2])

LEMMA NoReadTurning ==
    ASSUME NEW io, io.kind \notin {"CooleyLeft", "PreTwiddle"}, NEW len, NEW n
    PROVE  ReadTurning(io, len, n)
<1>1. Divides(1)
  <2>1. 1 \in Positive /\ Q + 1 \in Positive /\ Q + 1 = 1 * (Q + 1)
    BY Modulus DEF Positive
  <2> QED
    BY <2>1 DEF Divides
<1> QED
  BY <1>1 DEF ReadTurning, input_turn

LEMMA TurnedNumber ==
    ASSUME NEW x \in Number, NEW turn, turn[1] \in Int, Divides(turn[2]), NEW direction
    PROVE  Turned(x, turn, direction) \in Number
<1>1. Turned(x, turn, direction) = Mul(x, W(turn[1], turn[2], direction))
  BY DEF Turned, W
<1>2. W(turn[1], turn[2], direction) \in Number
  BY WNumber
<1>3. Mul(x, W(turn[1], turn[2], direction)) \in Number
  BY <1>2, NumberClosed
<1> QED
  BY <1>1, <1>3

\* What the mapping turns, as it reads and as it stores, it turns on the circle.
IsTask(t) ==
  /\ Divides(t.len) /\ IsMapping(t.io, t.len) /\ t.lines \in Nat
  /\ Turning(t.io, t.len, Batches(t)) /\ ReadTurning(t.io, t.len, Batches(t))

Fulfilled(t, before, after) ==
  Transformed(t.io, t.len, t.direction, t.scale, Batches(t), before, after)

LEMMA MappingPerLine ==
    ASSUME NEW len \in Positive, NEW io, IsMapping(io, len)
    PROVE  PerLine(io) \in Nat
<1>1. CASE IsUpload(io, len)
  <2>1. io.kind # "CooleyLeft"
    BY <1>1 DEF IsUpload, Contiguous, FourStepRight, FourStepLeft, ThreeUpload, PreTwiddle
  <2> QED
    BY <1>1, <2>1, PerLineType DEF PerLine
<1>2. ASSUME NEW a \in Positive, NEW b \in Positive, io = CooleyRight(a, b)
      PROVE  PerLine(io) \in Nat
  BY <1>2 DEF CooleyRight, PerLine, PerLineOf, Positive
<1>3. ASSUME NEW a \in Positive, NEW b \in Positive, NEW outer, IsUpload(outer, a * b),
             io = CooleyLeft(a, b, outer)
      PROVE  PerLine(io) \in Nat
  <2>1. PerLineOf(outer) \in Nat /\ b \in Nat
    BY <1>3, PositiveTimes, PerLineType DEF Positive
  <2>2. PerLine(io) = PerLineOf(outer) * b
    BY <1>3 DEF CooleyLeft, PerLine
  <2> DEFINE n == PerLineOf(outer)
  <2> HIDE DEF n
  <2>3. n * b \in Nat
    BY <2>1, Times DEF n
  <2> QED
    BY <2>2, <2>3 DEF n
<1> QED
  BY <1>1, <1>2, <1>3 DEF IsMapping

LEMMA TaskNumbers ==
    ASSUME NEW t, IsTask(t)
    PROVE  t.len \in Positive /\ Batches(t) \in Nat /\ Size(t) \in Nat
           /\ Places(t.io, t.len, t.lines) = Points(Size(t))
<1>1. t.len \in Positive /\ t.len \in Nat /\ t.lines \in Nat
  BY DEF IsTask, Divides, Positive
<1>2. PerLine(t.io) \in Nat
  BY <1>1, MappingPerLine DEF IsTask
<1>3. Batches(t) \in Nat
  <2> DEFINE n == PerLine(t.io)
  <2>1. n \in Nat
    BY <1>2
  <2> HIDE DEF n
  <2>2. t.lines * n \in Nat
    BY <1>1, <2>1, Times
  <2> QED
    BY <2>2 DEF Batches, n
<1>4. Size(t) \in Nat
  BY <1>1, <1>3, Times DEF Size
<1> QED
  BY <1>1, <1>3, <1>4 DEF Size, Places, Batches

\* A pass over full lines reads numbers.
LEMMA FullSource ==
    ASSUME NEW t, IsTask(t), NEW values, Full(values, Size(t)), NEW batch \in Points(Batches(t))
    PROVE  /\ \A i \in Points(t.len) : At(values, input_index(t.io, t.len, batch, i)) \in Number
           /\ Numbers(Source(t.io, t.len, t.direction, batch, values), t.len)
<1> DEFINE S == Elements(t.io, t.len, t.lines)  P == Places(t.io, t.len, t.lines)
           place == [p \in S |-> input_index(t.io, t.len, p[1], p[2])]
<1>1. t.len \in Positive /\ P = Points(Size(t))
  BY TaskNumbers
<1>2. place \in Bijection(S, P)
  BY <1>1, ReadsOnce DEF IsTask
<1>3. place \in [S -> P]
  BY <1>2 DEF Bijection, Injection
<1>4. ASSUME NEW i \in Points(t.len)
      PROVE  At(values, input_index(t.io, t.len, batch, i)) \in Number
  <2>1. <<batch, i>> \in S
    BY DEF Elements, Batches
  <2>2. place[<<batch, i>>] = input_index(t.io, t.len, batch, i)
    BY <2>1
  <2> HIDE DEF place, S, P
  <2>3. input_index(t.io, t.len, batch, i) \in Points(Size(t))
    BY <1>1, <1>3, <2>1, <2>2
  <2> QED
    BY <2>3 DEF Full
<1> HIDE DEF place, S, P
<1>5. ASSUME NEW i \in 0 .. t.len - 1
      PROVE  Source(t.io, t.len, t.direction, batch, values)[i] \in Number
  <2>1. i \in Points(t.len)
    BY DEF Points
  <2> DEFINE turn == input_turn(t.io, batch, i)
  <2>2. Source(t.io, t.len, t.direction, batch, values)[i]
          = Turned(At(values, input_index(t.io, t.len, batch, i)), turn, t.direction)
    BY DEF Source
  <2>3. turn[1] \in Int /\ Divides(turn[2])
    BY <2>1 DEF IsTask, ReadTurning
  <2> HIDE DEF turn
  <2> QED
    BY <1>4, <2>1, <2>2, <2>3, TurnedNumber
<1> QED
  BY <1>4, <1>5 DEF Numbers

\* What it stores fills the lines again.
LEMMA FullResult ==
    ASSUME NEW t, IsTask(t), NEW before, Full(before, Size(t)), NEW after, Fulfilled(t, before, after)
    PROVE  Full(after, Size(t))
<1> DEFINE S == Elements(t.io, t.len, t.lines)  P == Places(t.io, t.len, t.lines)
           place == [p \in S |-> output_index(t.io, t.len, p[1], p[2])]
<1>1. t.len \in Positive /\ P = Points(Size(t))
  BY TaskNumbers
<1>2. place \in Bijection(S, P)
  BY <1>1, StoresOnce DEF IsTask
<1> SUFFICES ASSUME NEW j \in P PROVE At(after, j) \in Number
  BY <1>1 DEF Full
<1>3. PICK p \in S : place[p] = j
  <2> HIDE DEF place, S, P
  <2> QED
    BY <1>2 DEF Bijection, Surjection
<1> DEFINE w == p[1]  i == p[2]
<1>4. w \in Points(Batches(t)) /\ i \in Points(t.len) /\ j = output_index(t.io, t.len, w, i)
  BY <1>3 DEF Elements, Batches
<1> HIDE DEF place, S, P, w, i
<1>5. Numbers(Source(t.io, t.len, t.direction, w, before), t.len)
  BY <1>4, FullSource
<1>6. Result(t.io, t.len, t.direction, t.scale, w, before, i) \in Number
  BY <1>4, <1>5, ResultDefined DEF IsTask
<1> QED
  BY <1>4, <1>6 DEF Fulfilled, Transformed, Result

-----------------------------------------------------------------------------
(* Sequences of passes.                                                    *)

IsPasses(s) == \E S : s \in Seq(S)

LEMMA Concatenated ==
    ASSUME NEW s, IsPasses(s), NEW u, IsPasses(u)
    PROVE  /\ IsPasses(s \o u) /\ Len(s) \in Nat /\ Len(u) \in Nat
           /\ Len(s \o u) = Len(s) + Len(u)
           /\ \A n \in 1 .. Len(s) : (s \o u)[n] = s[n]
           /\ \A n \in 1 .. Len(u) : (s \o u)[Len(s) + n] = u[n]
<1>1. PICK A : s \in Seq(A)
  BY DEF IsPasses
<1>2. PICK B : u \in Seq(B)
  BY DEF IsPasses
<1> DEFINE S == A \cup B
<1>3. s \in Seq(S) /\ u \in Seq(S)
  BY <1>1, <1>2
<1> HIDE DEF S
<1>4. s \o u \in Seq(S)
  BY <1>3
<1>5. IsPasses(s \o u)
  BY <1>4 DEF IsPasses
<1>6. Len(s) \in Nat /\ Len(u) \in Nat /\ Len(s \o u) = Len(s) + Len(u)
  BY <1>3
<1>7. ASSUME NEW n \in 1 .. Len(s) PROVE (s \o u)[n] = s[n]
  BY <1>3, <1>6
<1>8. ASSUME NEW n \in 1 .. Len(u) PROVE (s \o u)[Len(s) + n] = u[n]
  BY <1>3, <1>6
<1> QED
  BY <1>5, <1>6, <1>7, <1>8

\* From memory x the passes s, each of them proper, lead to memory z.
Reaches(s, x, z) ==
  \E f : /\ f[0] = x /\ f[Len(s)] = z
         /\ \A n \in 1 .. Len(s) : Proper(s[n], f[n - 1]) /\ f[n] = AfterPass(f[n - 1], s[n])

LEMMA ReachesOne ==
    ASSUME NEW q, NEW x, Proper(q, x)
    PROVE  IsPasses(<<q>>) /\ Reaches(<<q>>, x, AfterPass(x, q))
<1> DEFINE f == [n \in 0 .. 1 |-> IF n = 0 THEN x ELSE AfterPass(x, q)]  s == <<q>>
<1>1. f[0] = x /\ f[1] = AfterPass(x, q)
  OBVIOUS
<1>2. Len(s) = 1 /\ s[1] = q /\ s \in Seq({q})
  OBVIOUS
<1> HIDE DEF f, s
<1>3. \A n \in 1 .. Len(s) : n = 1 /\ n - 1 = 0
  BY <1>2
<1>4. Reaches(s, x, AfterPass(x, q))
  BY <1>1, <1>2, <1>3 DEF Reaches
<1>5. IsPasses(s)
  BY <1>2 DEF IsPasses
<1> QED
  BY <1>4, <1>5 DEF s

LEMMA ReachesThen ==
    ASSUME NEW s, IsPasses(s), NEW u, IsPasses(u), NEW x, NEW y, NEW z,
           Reaches(s, x, y), Reaches(u, y, z)
    PROVE  IsPasses(s \o u) /\ Reaches(s \o u, x, z)
<1> DEFINE n == Len(s)  m == Len(u)  c == s \o u
<1>1. /\ IsPasses(c) /\ n \in Nat /\ m \in Nat /\ Len(c) = n + m
      /\ (\A k \in 1 .. n : c[k] = s[k]) /\ (\A k \in 1 .. m : c[n + k] = u[k])
  BY Concatenated
<1>2. PICK f : /\ f[0] = x /\ f[n] = y
               /\ \A k \in 1 .. n : Proper(s[k], f[k - 1]) /\ f[k] = AfterPass(f[k - 1], s[k])
  BY DEF Reaches
<1>3. PICK g : /\ g[0] = y /\ g[m] = z
               /\ \A k \in 1 .. m : Proper(u[k], g[k - 1]) /\ g[k] = AfterPass(g[k - 1], u[k])
  BY DEF Reaches
<1> HIDE DEF c, n, m
<1> DEFINE h == [k \in 0 .. n + m |-> IF k <= n THEN f[k] ELSE g[k - n]]
<1>4. \A k \in 0 .. n : h[k] = f[k]
  BY <1>1
<1>5. \A k \in 0 .. m : h[n + k] = g[k]
  <2> TAKE k \in 0 .. m
  <2>1. CASE k = 0
    BY <1>1, <1>2, <1>3, <2>1
  <2>2. CASE k # 0
    <3>1. n + k \in 0 .. n + m /\ ~(n + k <= n) /\ (n + k) - n = k
      BY <1>1, <2>2
    <3> QED
      BY <3>1
  <2> QED
    BY <2>1, <2>2
<1> HIDE DEF h
<1>6. h[0] = x /\ h[n + m] = z
  BY <1>1, <1>2, <1>3, <1>4, <1>5
<1>7. ASSUME NEW k \in 1 .. n + m
      PROVE  Proper(c[k], h[k - 1]) /\ h[k] = AfterPass(h[k - 1], c[k])
  <2>1. CASE k <= n
    <3>1. k \in 1 .. n /\ k \in 0 .. n /\ k - 1 \in 0 .. n
      BY <1>1, <2>1
    <3> QED
      BY <1>1, <1>2, <1>4, <3>1
  <2>2. CASE ~(k <= n)
    <3> DEFINE j == k - n
    <3>1. j \in 1 .. m /\ j \in 0 .. m /\ j - 1 \in 0 .. m /\ k = n + j /\ k - 1 = n + (j - 1)
      BY <1>1, <2>2
    <3> HIDE DEF j
    <3>2. c[k] = u[j] /\ h[k] = g[j] /\ h[k - 1] = g[j - 1]
      BY <1>1, <1>5, <3>1
    <3> QED
      BY <1>3, <3>1, <3>2
  <2> QED
    BY <2>1, <2>2
<1>8. Reaches(c, x, z)
  BY <1>1, <1>6, <1>7 DEF Reaches
<1> QED
  BY <1>1, <1>8 DEF c

\* What a device that executes the passes does.
LEMMA ReachesLeaves ==
    ASSUME NEW p, IsPasses(p.passes), NEW contents, IsMemory(contents), NEW z,
           Reaches(p.passes, contents, z)
    PROVE  Leaves(p, contents, z)
<1> DEFINE s == p.passes  x == Interpreted(p, contents)
<1>0. Len(s) \in Nat
  BY DEF IsPasses
<1>1. x[0] = contents /\ \A n \in 1 .. Len(s) : x[n] = AfterPass(x[n - 1], s[n])
  BY <1>0, InterpretedStep
<1> HIDE DEF x
<1>2. PICK f : /\ f[0] = contents /\ f[Len(s)] = z
               /\ \A n \in 1 .. Len(s) : Proper(s[n], f[n - 1]) /\ f[n] = AfterPass(f[n - 1], s[n])
  BY DEF Reaches
<1> DEFINE S == {n \in Nat : n <= Len(s) => x[n] = f[n]}
<1>3. 0 \in S
  BY <1>1, <1>2
<1>4. ASSUME NEW n \in Nat, n \in S PROVE n + 1 \in S
  <2> SUFFICES ASSUME n + 1 <= Len(s) PROVE x[n + 1] = f[n + 1]
    OBVIOUS
  <2>1. n + 1 \in 1 .. Len(s) /\ (n + 1) - 1 = n /\ n <= Len(s)
    BY <1>0
  <2>2. x[n] = f[n]
    BY <1>4, <2>1
  <2> QED
    BY <1>1, <1>2, <2>1, <2>2
<1> HIDE DEF S
<1>5. \A n \in Nat : n \in S
  BY <1>3, <1>4, SetInduction
<1>6. \A n \in 0 .. Len(s) : x[n] = f[n]
  <2> TAKE n \in 0 .. Len(s)
  <2>1. n \in Nat /\ n <= Len(s)
    BY <1>0
  <2> QED
    BY <1>5, <2>1 DEF S
<1>7. \A n \in 1 .. Len(s) : Separate(s[n], x[n - 1]) /\ Determined(s[n], x[n - 1])
  <2> TAKE n \in 1 .. Len(s)
  <2>1. n - 1 \in 0 .. Len(s)
    BY <1>0
  <2> QED
    BY <1>2, <1>6, <2>1 DEF Proper
<1>8. Complete(p, contents)
  BY <1>0, <1>7 DEF Complete, Executable, x
<1>9. x[Len(s)] = z
  <2>1. Len(s) \in 0 .. Len(s)
    BY <1>0
  <2> QED
    BY <1>2, <1>6, <2>1
<1> QED
  BY <1>8, <1>9, CompleteLeaves DEF x

-----------------------------------------------------------------------------
(* Programs that compute transforms.                                       *)

\* The passes may write the resources "written", of size places or more; the source is
\* full and is not one of them, nor are the tables.
Ready(x, source, written, tables, size) ==
  /\ IsMemory(x) /\ NoResource \notin DOMAIN x
  /\ source \in DOMAIN x /\ source \notin written /\ Full(x[source], size)
  /\ \A r \in written : r \in DOMAIN x /\ Points(size) \subseteq DOMAIN x[r]
  /\ \A r \in DOMAIN tables : r \in DOMAIN x /\ r \notin written /\ x[r] = tables[r]

\* Memory z is x but for what the passes may write.
Kept(x, z, written) ==
  /\ IsMemory(z) /\ DOMAIN z = DOMAIN x
  /\ \A r \in DOMAIN x : DOMAIN z[r] = DOMAIN x[r]
  /\ \A r \in DOMAIN x : r \notin written => z[r] = x[r]

\* The passes s compute task t from source to target, whatever they find there.
Computes(s, source, target, written, tables, t) ==
  /\ IsPasses(s) /\ target \in written
  /\ \A x : Ready(x, source, written, tables, Size(t)) =>
       \E z : Reaches(s, x, z) /\ Kept(x, z, written) /\ Fulfilled(t, x[source], z[target])

LEMMA ComputesFrom ==
    ASSUME NEW s, NEW source, NEW target, NEW written, NEW tables, NEW t,
           Computes(s, source, target, written, tables, t),
           NEW x, Ready(x, source, written, tables, Size(t))
    PROVE  /\ IsPasses(s) /\ target \in written
           /\ \E z : Reaches(s, x, z) /\ Kept(x, z, written) /\ Fulfilled(t, x[source], z[target])
  BY DEF Computes

LEMMA KeptThen ==
    ASSUME NEW x, NEW y, NEW z, NEW V, NEW T, Kept(x, y, V), Kept(y, z, T)
    PROVE  Kept(x, z, V \cup T)
  BY DEF Kept

LEMMA ProperKept ==
    ASSUME NEW x, NEW q, Proper(q, x)
    PROVE  Kept(x, AfterPass(x, q), {q.output})
  BY DEF Proper, Kept

\* What the next passes find.
LEMMA ReadyNext ==
    ASSUME NEW x, NEW y, NEW V, NEW T, NEW source, NEW middle, NEW tables, NEW size,
           Ready(x, source, V \cup T, tables, size), Kept(x, y, V),
           middle \in V, middle \notin T, Full(y[middle], size)
    PROVE  Ready(y, middle, T, tables, size)
  BY DEF Ready, Kept

LEMMA ReadyFor ==
    ASSUME NEW x, NEW V, NEW T, NEW source, NEW tables, NEW size,
           Ready(x, source, T, tables, size), V \subseteq T
    PROVE  Ready(x, source, V, tables, size)
  BY DEF Ready

\* One pass: a Stockham transform, or a prime transform by multiplication with the roots
\* of a table.
IsKernel(q, source, target, tables, t) ==
  /\ q.input = source /\ q.output = target /\ q.auxiliary = NoResource
  /\ q.ir.batches = Batches(t)
  /\ \/ /\ q.kind = "Stockham" /\ q.lookup = NoResource
        /\ Leaf(q.ir, t.io, t.len, t.direction, t.scale)
     \/ /\ q.kind = "RaderDirect" /\ q.lookup \in DOMAIN tables
        /\ PrimeLeaf(q.ir, t.io, t.len, t.direction, t.scale)
        /\ RootsTable(tables[q.lookup], t.len, q.ir.generator, t.direction)

\* What workgroup w has to store.
Share(t, w, values) ==
  {<<output_index(t.io, t.len, w, i), Result(t.io, t.len, t.direction, t.scale, w, values, i)>>
   : i \in Points(t.len)}

LEMMA KernelStores ==
    ASSUME NEW t, IsTask(t), NEW source, NEW target, NEW tables, NEW q,
           IsKernel(q, source, target, tables, t),
           NEW x, Ready(x, source, {target}, tables, Size(t)), NEW w \in Points(Batches(t))
    PROVE  Stores(q, w, x) = Share(t, w, x[source])
<1>1. /\ \A i \in Points(t.len) : At(x[source], input_index(t.io, t.len, w, i)) \in Number
      /\ Numbers(Source(t.io, t.len, t.direction, w, x[source]), t.len)
  BY FullSource DEF Ready
<1>2. /\ q.input = source /\ source # NoResource /\ Divides(t.len) /\ IsMapping(t.io, t.len)
      /\ q.auxiliary = NoResource
  BY DEF IsKernel, Ready, IsTask
<1>3. CASE q.kind = "Stockham"
  <2>1. q.lookup = NoResource /\ Leaf(q.ir, t.io, t.len, t.direction, t.scale)
    BY <1>3 DEF IsKernel
  <2>2. Stores(q, w, x) = Stockham(q.ir, w, x[source], << >>, << >>)
    BY <1>2, <1>3, <2>1 DEF Stores
  <2> QED
    BY <1>1, <1>2, <2>1, <2>2, StockhamStores DEF Share
<1>4. CASE q.kind # "Stockham"
  <2>1. /\ q.kind = "RaderDirect" /\ q.lookup \in DOMAIN tables
        /\ PrimeLeaf(q.ir, t.io, t.len, t.direction, t.scale)
        /\ RootsTable(tables[q.lookup], t.len, q.ir.generator, t.direction)
    BY <1>4 DEF IsKernel
  <2>2. q.lookup # NoResource /\ x[q.lookup] = tables[q.lookup]
    BY <2>1 DEF Ready
  <2>3. Stores(q, w, x) = RaderDirect(q.ir, w, x[source], x[q.lookup])
    BY <1>2, <2>1, <2>2 DEF Stores
  <2> QED
    BY <1>1, <1>2, <2>1, <2>2, <2>3, RaderDirectStores DEF Share
<1> QED
  BY <1>3, <1>4

\* A kernel computes its transforms (the kernels that src/src/kernel_ir.rs and
\* src/src/rader_ir.rs emit, for every mapping).
THEOREM KernelComputes ==
    ASSUME NEW t, IsTask(t), NEW source, NEW target, NEW tables, NEW q,
           IsKernel(q, source, target, tables, t)
    PROVE  Computes(<<q>>, source, target, {target}, tables, t)
<1>1. ASSUME NEW x, Ready(x, source, {target}, tables, Size(t))
      PROVE  /\ Proper(q, x)
             /\ Fulfilled(t, x[source], AfterPass(x, q)[target])
  <2> DEFINE v == [w \in Workgroups(q) |-> [i \in Points(t.len) |->
                     Result(t.io, t.len, t.direction, t.scale, w, x[source], i)]]
  <2>1. Workgroups(q) = Points(Batches(t)) /\ q.output = target
    BY DEF Workgroups, IsKernel, Points
  <2>2. StoresMapped(q, x, t.io, t.len, v)
    <3> SUFFICES ASSUME NEW w \in Workgroups(q)
                 PROVE  Stores(q, w, x) = {<<output_index(t.io, t.len, w, i), v[w][i]>> : i \in Points(t.len)}
      BY DEF StoresMapped
    <3>1. Stores(q, w, x) = Share(t, w, x[source])
      BY <1>1, <2>1, KernelStores
    <3> QED
      BY <3>1 DEF Share
  <2>3. \A w \in Workgroups(q), i \in Points(t.len) :
          /\ v[w][i] = Result(t.io, t.len, t.direction, t.scale, w, x[source], i)
          /\ v[w][i] \in Number
    <3> TAKE w \in Workgroups(q), i \in Points(t.len)
    <3>1. Numbers(Source(t.io, t.len, t.direction, w, x[source]), t.len)
      BY <1>1, <2>1, FullSource DEF Ready
    <3>2. Result(t.io, t.len, t.direction, t.scale, w, x[source], i) \in Number
      BY <2>1, <3>1, ResultDefined DEF IsTask
    <3> QED
      BY <3>2
  <2> HIDE DEF v
  <2>4. /\ t.len \in Positive /\ IsMapping(t.io, t.len) /\ t.lines \in Nat
        /\ q.ir.batches = t.lines * PerLine(t.io) /\ q.ir.batches \in Nat
    BY TaskNumbers DEF IsTask, IsKernel, Batches
  <2>5. /\ IsMemory(x) /\ q.output \in DOMAIN x
        /\ Places(t.io, t.len, t.lines) \subseteq DOMAIN x[q.output]
    BY <1>1, TaskNumbers DEF Ready, IsKernel
  <2>6. \A r \in {q.input, q.lookup, q.auxiliary} :
          r # q.output /\ (r # NoResource => r \in DOMAIN x)
    BY <1>1 DEF Ready, IsKernel
  <2>7. /\ Proper(q, x)
        /\ \A w \in Workgroups(q), i \in Points(t.len) :
             At(AfterPass(x, q)[q.output], output_index(t.io, t.len, w, i)) = v[w][i]
    BY <2>2, <2>3, <2>4, <2>5, <2>6, MappedStep
  <2> QED
    BY <2>1, <2>3, <2>7 DEF Fulfilled, Transformed, Result
<1>2. ASSUME NEW x, Ready(x, source, {target}, tables, Size(t))
      PROVE  \E z : /\ Reaches(<<q>>, x, z) /\ Kept(x, z, {target})
                    /\ Fulfilled(t, x[source], z[target])
  <2>1. Reaches(<<q>>, x, AfterPass(x, q)) /\ Kept(x, AfterPass(x, q), {q.output})
    BY <1>1, <1>2, ReachesOne, ProperKept
  <2>2. q.output = target
    BY DEF IsKernel
  <2> QED
    BY <1>1, <1>2, <2>1, <2>2
<1>3. IsPasses(<<q>>)
  <2>1. <<q>> \in Seq({q})
    OBVIOUS
  <2> QED
    BY <2>1 DEF IsPasses
<1> QED
  BY <1>2, <1>3 DEF Computes

\* Whole lines, read and stored in order.
Lines(len, direction, scale, lines) == Task(Contiguous, len, direction, scale, lines)

LEMMA LinesTask ==
    ASSUME NEW len, Divides(len), NEW direction, NEW scale, NEW lines \in Nat
    PROVE  /\ IsTask(Lines(len, direction, scale, lines))
           /\ Batches(Lines(len, direction, scale, lines)) = lines
           /\ Size(Lines(len, direction, scale, lines)) = lines * len
<1> DEFINE t == Lines(len, direction, scale, lines)
<1>1. t.io = Contiguous /\ t.len = len /\ t.direction = direction /\ t.scale = scale /\ t.lines = lines
  BY DEF Lines, Task
<1> HIDE DEF t
<1>2. PerLine(Contiguous) = 1 /\ lines * 1 = lines
  BY DEF PerLine, PerLineOf, Contiguous
<1>3. Batches(t) = lines /\ Size(t) = lines * len
  BY <1>1, <1>2 DEF Batches, Size
<1>4. Turning(t.io, t.len, Batches(t)) /\ IsMapping(t.io, t.len)
  <2>1. Contiguous.kind = "Contiguous"
    BY DEF Contiguous
  <2>2. Turning(Contiguous, len, lines)
    BY <2>1, NoTurning
  <2>3. IsMapping(Contiguous, len)
    BY DEF IsMapping, IsUpload
  <2> QED
    BY <1>1, <1>3, <2>2, <2>3
<1>5. ReadTurning(t.io, t.len, Batches(t))
  <2>1. Contiguous.kind \notin {"CooleyLeft", "PreTwiddle"}
    BY DEF Contiguous
  <2> QED
    BY <1>1, <2>1, NoReadTurning
<1> QED
  BY <1>1, <1>3, <1>4, <1>5 DEF IsTask, t

LEMMA FilledFull ==
    ASSUME NEW len \in Positive, NEW lines \in Nat, NEW values
    PROVE  Full(values, lines * len) <=> Filled(values, len, lines)
<1>0. len \in Nat /\ len \in Int
  BY DEF Positive
<1>1. ASSUME Full(values, lines * len) PROVE Filled(values, len, lines)
  <2> SUFFICES ASSUME NEW line \in Points(lines), NEW i \in 0 .. len - 1
               PROVE  Line(values, len, line)[i] \in Number
    BY DEF Filled, Numbers
  <2>1. i \in Points(len)
    BY DEF Points
  <2>2. line * len + i \in Points(lines * len)
    BY <1>0, <2>1, JoinBelow
  <2> QED
    BY <1>1, <2>2 DEF Full, Line
<1>2. ASSUME Filled(values, len, lines) PROVE Full(values, lines * len)
  <2> SUFFICES ASSUME NEW j \in Points(lines * len) PROVE At(values, j) \in Number
    BY DEF Full
  <2> DEFINE line == j \div len  i == j % len
  <2>1. line \in Points(lines) /\ i \in Points(len) /\ j = line * len + i
    BY <1>0, SplitBelow
  <2> HIDE DEF line, i
  <2>2. i \in 0 .. len - 1
    BY <2>1 DEF Points
  <2>3. Line(values, len, line)[i] \in Number
    BY <1>2, <2>1, <2>2 DEF Filled, Numbers
  <2> QED
    BY <2>1, <2>2, <2>3 DEF Line
<1> QED
  BY <1>1, <1>2

LEMMA FulfilledLines ==
    ASSUME NEW len, Divides(len), NEW direction, NEW scale, NEW lines \in Nat,
           NEW before, NEW after, Full(before, lines * len)
    PROVE  Fulfilled(Lines(len, direction, scale, lines), before, after)
             <=> LinesTransformed(len, direction, scale, lines, before, after)
<1> DEFINE t == Lines(len, direction, scale, lines)
           y(line) == Fourier(Source(Contiguous, len, direction, line, before), len, direction)
           u(line, k) == Scaled(Fourier(Line(before, len, line), len, direction)[k], scale, len)
<1>0. len \in Positive /\ len \in Nat
  BY DEF Divides, Positive
<1>1. Filled(before, len, lines)
  BY <1>0, FilledFull
<1>2. ASSUME NEW line \in Points(lines), NEW k \in Points(len)
      PROVE  /\ output_index(Contiguous, len, line, k) = line * len + k
             /\ Turned(Scaled(y(line)[k], scale, len), output_turn(Contiguous, line, k), direction) = u(line, k)
  <2>1. output_index(Contiguous, len, line, k) = line * len + k /\ output_turn(Contiguous, line, k) = <<0, 1>>
    BY DEF Contiguous, output_index, UploadIndex, output_turn
  <2>2. ASSUME NEW i \in Points(len)
        PROVE  Source(Contiguous, len, direction, line, before)[i] = Line(before, len, line)[i]
    <3>0. i \in 0 .. len - 1
      BY DEF Points
    <3>1. Line(before, len, line)[i] \in Number
      BY <1>1, <3>0 DEF Filled, Numbers
    <3>2. Line(before, len, line)[i] = At(before, line * len + i)
      BY <3>0 DEF Line
    <3>3. Source(Contiguous, len, direction, line, before)[i]
            = Turned(At(before, line * len + i), <<0, 1>>, direction)
      BY <3>0 DEF Source, Contiguous, input_index, input_turn, PrimeIndex
    <3> QED
      BY <3>1, <3>2, <3>3, Unturned
  <2>3. y(line) = Fourier(Line(before, len, line), len, direction)
    BY <2>2, FourierSame
  <2>4. u(line, k) \in Number
    <3>1. Numbers(Line(before, len, line), len)
      BY <1>1 DEF Filled
    <3>2. Fourier(Line(before, len, line), len, direction)[k] \in Number
      BY <3>1, FourierAt
    <3> QED
      BY <3>2, ScaledFactor, NumberClosed
  <2>5. Scaled(y(line)[k], scale, len) = u(line, k)
    BY <2>3
  <2> HIDE DEF u, y
  <2> QED
    BY <2>1, <2>4, <2>5, Unturned
<1>3. t.io = Contiguous /\ t.len = len /\ t.direction = direction /\ t.scale = scale /\ Batches(t) = lines
  BY LinesTask DEF Lines, Task
<1>4. Fulfilled(t, before, after)
        <=> \A line \in Points(lines), k \in Points(len) :
              At(after, output_index(Contiguous, len, line, k))
                = Turned(Scaled(y(line)[k], scale, len), output_turn(Contiguous, line, k), direction)
  <2> HIDE DEF t
  <2> QED
    BY <1>3 DEF Fulfilled, Transformed
<1>5. LinesTransformed(len, direction, scale, lines, before, after)
        <=> \A line \in Points(lines), k \in Points(len) : At(after, line * len + k) = u(line, k)
  BY DEF LinesTransformed
<1> HIDE DEF t, u, y
<1> QED
  BY <1>2, <1>4, <1>5 DEF t

\* Two tasks of the same size, one after the other.
LEMMA ComputesThen ==
    ASSUME NEW s, NEW u, NEW source, NEW middle, NEW target, NEW V, NEW T, NEW tables,
           NEW t1, IsTask(t1), NEW t2, IsTask(t2), NEW t, Size(t1) = Size(t), Size(t2) = Size(t),
           Computes(s, source, middle, V, tables, t1), Computes(u, middle, target, T, tables, t2),
           middle \notin T,
           \A before, between, after :
             Full(before, Size(t)) /\ Fulfilled(t1, before, between) /\ Fulfilled(t2, between, after)
               => Fulfilled(t, before, after)
    PROVE  Computes(s \o u, source, target, V \cup T, tables, t)
<1>0. IsPasses(s) /\ IsPasses(u) /\ middle \in V /\ target \in T
  BY DEF Computes
<1>1. ASSUME NEW x, Ready(x, source, V \cup T, tables, Size(t))
      PROVE  \E z : /\ Reaches(s \o u, x, z) /\ Kept(x, z, V \cup T)
                    /\ Fulfilled(t, x[source], z[target])
  <2>1. Ready(x, source, V, tables, Size(t1))
    <3>1. V \subseteq V \cup T
      OBVIOUS
    <3> DEFINE A == V \cup T
    <3> HIDE DEF A
    <3> QED
      BY <1>1, <3>1, ReadyFor DEF A
  <2>2. PICK y : Reaches(s, x, y) /\ Kept(x, y, V) /\ Fulfilled(t1, x[source], y[middle])
    BY <2>1, ComputesFrom
  <2>3. Full(x[source], Size(t1)) /\ Full(x[source], Size(t))
    BY <1>1, <2>1 DEF Ready
  <2>4. Full(y[middle], Size(t))
    BY <2>2, <2>3, FullResult
  <2>5. Ready(y, middle, T, tables, Size(t2))
    BY <1>0, <1>1, <2>2, <2>4, ReadyNext
  <2>6. PICK z : Reaches(u, y, z) /\ Kept(y, z, T) /\ Fulfilled(t2, y[middle], z[target])
    BY <2>5, ComputesFrom
  <2>7. Reaches(s \o u, x, z)
    BY <1>0, <2>2, <2>6, ReachesThen
  <2>8. Kept(x, z, V \cup T)
    BY <2>2, <2>6, KeptThen
  <2> QED
    BY <2>2, <2>3, <2>6, <2>7, <2>8
<1>2. IsPasses(s \o u)
  BY <1>0, Concatenated
<1> QED
  BY <1>0, <1>1, <1>2 DEF Computes

-----------------------------------------------------------------------------
(* Two and three uploads.                                                  *)

LEMMA ReadyStill ==
    ASSUME NEW x, NEW y, NEW V, NEW T, NEW source, NEW tables, NEW size,
           Ready(x, source, T, tables, size), Kept(x, y, V), V \subseteq T
    PROVE  Ready(y, source, T, tables, size)
  BY DEF Ready, Kept

\* Three tasks of the same size: the last may store where the first one did.
LEMMA ComputesThree ==
    ASSUME NEW s, NEW u, NEW v, NEW source, NEW one, NEW two, NEW target,
           NEW U, NEW V, NEW T, NEW tables,
           NEW t1, IsTask(t1), NEW t2, IsTask(t2), NEW t3, IsTask(t3), NEW t,
           Size(t1) = Size(t), Size(t2) = Size(t), Size(t3) = Size(t),
           Computes(s, source, one, U, tables, t1), Computes(u, one, two, V, tables, t2),
           Computes(v, two, target, T, tables, t3), one \notin V, two \notin T,
           \A before, first, second, after :
             Full(before, Size(t)) /\ Fulfilled(t1, before, first) /\ Fulfilled(t2, first, second)
               /\ Fulfilled(t3, second, after) => Fulfilled(t, before, after)
    PROVE  Computes((s \o u) \o v, source, target, (U \cup V) \cup T, tables, t)
<1> DEFINE A == (U \cup V) \cup T  c == (s \o u) \o v
<1>0. IsPasses(s) /\ IsPasses(u) /\ IsPasses(v) /\ one \in U /\ two \in V /\ target \in T
  BY DEF Computes
<1>s. U \subseteq A /\ U \cup V \subseteq A /\ V \cup T \subseteq A /\ target \in A
  BY <1>0
<1>p. IsPasses(s \o u) /\ IsPasses(c)
  BY <1>0, Concatenated
<1> HIDE DEF A, c
<1>1. ASSUME NEW x, Ready(x, source, A, tables, Size(t))
      PROVE  \E z : Reaches(c, x, z) /\ Kept(x, z, A) /\ Fulfilled(t, x[source], z[target])
  <2>1. Ready(x, source, U, tables, Size(t1)) /\ Ready(x, source, U \cup V, tables, Size(t))
    BY <1>1, <1>s, ReadyFor
  <2>2. PICK y1 : Reaches(s, x, y1) /\ Kept(x, y1, U) /\ Fulfilled(t1, x[source], y1[one])
    BY <2>1, ComputesFrom
  <2>3. Full(x[source], Size(t1)) /\ Full(x[source], Size(t))
    BY <1>1, <2>1 DEF Ready
  <2>4. Full(y1[one], Size(t1)) /\ Full(y1[one], Size(t))
    BY <2>2, <2>3, FullResult
  <2>5. Ready(y1, one, V, tables, Size(t2))
    BY <1>0, <2>1, <2>2, <2>4, ReadyNext
  <2>6. PICK y2 : Reaches(u, y1, y2) /\ Kept(y1, y2, V) /\ Fulfilled(t2, y1[one], y2[two])
    BY <2>5, ComputesFrom
  <2>7. Full(y2[two], Size(t))
    BY <2>4, <2>6, FullResult
  <2>8. Ready(y1, source, A, tables, Size(t))
    BY <1>1, <1>s, <2>2, ReadyStill
  <2>9. Ready(y1, source, V \cup T, tables, Size(t))
    BY <1>s, <2>8, ReadyFor
  <2>10. Ready(y2, two, T, tables, Size(t3))
    BY <1>0, <2>6, <2>7, <2>9, ReadyNext
  <2>11. PICK z : Reaches(v, y2, z) /\ Kept(y2, z, T) /\ Fulfilled(t3, y2[two], z[target])
    BY <2>10, ComputesFrom
  <2>12. Reaches(s \o u, x, y2)
    BY <1>0, <2>2, <2>6, ReachesThen
  <2>13. Reaches(c, x, z)
    BY <1>0, <1>p, <2>11, <2>12, ReachesThen DEF c
  <2>14. Kept(x, y2, U \cup V)
    BY <2>2, <2>6, KeptThen
  <2>15. Kept(x, z, A)
    BY <2>11, <2>14, KeptThen DEF A
  <2> QED
    BY <2>2, <2>3, <2>6, <2>11, <2>13, <2>15
<1> QED
  BY <1>s, <1>p, <1>1 DEF Computes, A, c

\* The two uploads of the four-step method, each of them computed in whatever way, compute
\* the transform of whole lines (the split of src/src/recursive_ir.rs).
THEOREM TwoUploadsCompute ==
    ASSUME NEW a \in Positive, NEW b \in Positive, Divides(a * b),
           NEW direction, NEW scale, NEW lines \in Nat,
           NEW u, NEW v, NEW source, NEW middle, NEW target, NEW U, NEW V, NEW tables,
           Computes(u, source, middle, U, tables, Task(FourStepRight(a, b), b, direction, scale, lines)),
           Computes(v, middle, target, V, tables, Task(FourStepLeft(a, b), a, direction, scale, lines)),
           middle \notin V
    PROVE  Computes(u \o v, source, target, U \cup V, tables, Lines(a * b, direction, scale, lines))
<1> DEFINE t1 == Task(FourStepRight(a, b), b, direction, scale, lines)
           t2 == Task(FourStepLeft(a, b), a, direction, scale, lines)
           t == Lines(a * b, direction, scale, lines)
<1>0. /\ Divides(a) /\ Divides(b)
      /\ IsMapping(FourStepRight(a, b), b) /\ IsMapping(FourStepLeft(a, b), a)
      /\ PerLine(FourStepRight(a, b)) = a /\ PerLine(FourStepLeft(a, b)) = b
      /\ lines * a * b = lines * (a * b) /\ lines * b * a = lines * (a * b)
      /\ Turning(FourStepRight(a, b), b, lines * a) /\ Turning(FourStepLeft(a, b), a, lines * b)
  BY FourStepUploads
<1>1. /\ t1.io = FourStepRight(a, b) /\ t1.len = b /\ t1.direction = direction /\ t1.scale = scale
      /\ t1.lines = lines /\ t2.io = FourStepLeft(a, b) /\ t2.len = a /\ t2.direction = direction
      /\ t2.scale = scale /\ t2.lines = lines
  BY DEF Task
<1>2. Size(t) = lines * (a * b)
  BY LinesTask
<1> HIDE DEF t1, t2, t
<1>3. Batches(t1) = lines * a /\ Batches(t2) = lines * b
  BY <1>0, <1>1 DEF Batches
<1>4. Size(t1) = Size(t) /\ Size(t2) = Size(t)
  BY <1>0, <1>1, <1>2, <1>3 DEF Size
<1>5. ReadTurning(t1.io, t1.len, Batches(t1)) /\ ReadTurning(t2.io, t2.len, Batches(t2))
  <2>1. /\ FourStepRight(a, b).kind \notin {"CooleyLeft", "PreTwiddle"}
        /\ FourStepLeft(a, b).kind \notin {"CooleyLeft", "PreTwiddle"}
    BY DEF FourStepRight, FourStepLeft
  <2> QED
    BY <1>1, <2>1, NoReadTurning
<1>6. IsTask(t1) /\ IsTask(t2)
  BY <1>0, <1>1, <1>3, <1>5 DEF IsTask
<1>7. ASSUME NEW before, NEW between, NEW after, Full(before, Size(t)),
             Fulfilled(t1, before, between), Fulfilled(t2, between, after)
      PROVE  Fulfilled(t, before, after)
  <2>1. /\ Transformed(FourStepRight(a, b), b, direction, scale, lines * a, before, between)
        /\ Transformed(FourStepLeft(a, b), a, direction, scale, lines * b, between, after)
    BY <1>1, <1>3, <1>7 DEF Fulfilled
  <2> DEFINE ab == a * b
  <2>2. ab \in Positive /\ Full(before, lines * ab)
    BY <1>2, <1>7, PositiveTimes
  <2>3. Filled(before, ab, lines)
    <3> HIDE DEF ab
    <3> QED
      BY <2>2, FilledFull
  <2>4. LinesTransformed(ab, direction, scale, lines, before, after)
    BY <2>1, <2>3, TwoUploadsAreFourier
  <2>5. Divides(ab)
    OBVIOUS
  <2> HIDE DEF ab
  <2>6. Fulfilled(Lines(ab, direction, scale, lines), before, after)
    BY <2>2, <2>4, <2>5, FulfilledLines
  <2> QED
    BY <2>6 DEF t, ab
<1>8. Computes(u, source, middle, U, tables, t1) /\ Computes(v, middle, target, V, tables, t2)
  BY DEF t1, t2
<1>9. Computes(u \o v, source, target, U \cup V, tables, t)
  BY <1>4, <1>6, <1>7, <1>8, ComputesThen
<1> QED
  BY <1>9 DEF t

\* The same of three uploads.
THEOREM ThreeUploadsCompute ==
    ASSUME NEW a \in Positive, NEW b \in Positive, NEW c \in Positive, Divides(a * (b * c)),
           NEW direction, NEW scale, NEW lines \in Nat,
           NEW s, NEW u, NEW v, NEW source, NEW one, NEW two, NEW target,
           NEW U, NEW V, NEW T, NEW tables,
           Computes(s, source, one, U, tables, Task(ThreeUpload(2, a, b, c), c, direction, scale, lines)),
           Computes(u, one, two, V, tables, Task(ThreeUpload(1, a, b, c), b, direction, scale, lines * c)),
           Computes(v, two, target, T, tables, Task(ThreeUpload(0, a, b, c), a, direction, scale, lines)),
           one \notin V, two \notin T
    PROVE  Computes((s \o u) \o v, source, target, (U \cup V) \cup T, tables,
                    Lines(a * (b * c), direction, scale, lines))
<1> DEFINE up2 == ThreeUpload(2, a, b, c)  up1 == ThreeUpload(1, a, b, c)  up0 == ThreeUpload(0, a, b, c)
           t1 == Task(up2, c, direction, scale, lines)
           t2 == Task(up1, b, direction, scale, lines * c)
           t3 == Task(up0, a, direction, scale, lines)
           t == Lines(a * (b * c), direction, scale, lines)
           n2 == lines * (a * b)  n1 == (lines * c) * a  n0 == (lines * c) * b  m == lines * (a * (b * c))
<1>0. /\ Divides(a) /\ Divides(b) /\ Divides(c) /\ IsMapping(up2, c) /\ IsMapping(up1, b) /\ IsMapping(up0, a)
      /\ lines * PerLine(up2) = n2 /\ (lines * c) * PerLine(up1) = n1 /\ lines * PerLine(up0) = n0
      /\ n2 * c = m /\ n1 * b = m /\ n0 * a = m /\ n2 \in Nat /\ n1 \in Nat /\ n0 \in Nat
      /\ lines * c \in Nat
  BY ThreeUploadFacts
<1>1. Turning(up2, c, n2) /\ Turning(up1, b, n1) /\ Turning(up0, a, n0)
  <2> HIDE DEF n2, n1, n0
  <2> QED
    BY <1>0, ThreeUploadTurning
<1>2. /\ t1.io = up2 /\ t1.len = c /\ t1.direction = direction /\ t1.scale = scale /\ t1.lines = lines
      /\ t2.io = up1 /\ t2.len = b /\ t2.direction = direction /\ t2.scale = scale /\ t2.lines = lines * c
      /\ t3.io = up0 /\ t3.len = a /\ t3.direction = direction /\ t3.scale = scale /\ t3.lines = lines
  BY DEF Task
<1>3. Size(t) = m
  BY LinesTask
<1>4. \A r \in {up2, up1, up0} : \A len, n : ReadTurning(r, len, n)
  <2> SUFFICES ASSUME NEW r \in {up2, up1, up0} PROVE r.kind \notin {"CooleyLeft", "PreTwiddle"}
    BY NoReadTurning
  <2> QED
    BY DEF ThreeUpload
<1> HIDE DEF t1, t2, t3, t, n2, n1, n0, m, up2, up1, up0
<1>5. Batches(t1) = n2 /\ Batches(t2) = n1 /\ Batches(t3) = n0
  BY <1>0, <1>2 DEF Batches
<1>6. Size(t1) = Size(t) /\ Size(t2) = Size(t) /\ Size(t3) = Size(t)
  BY <1>0, <1>2, <1>3, <1>5 DEF Size
<1>7. IsTask(t1) /\ IsTask(t2) /\ IsTask(t3)
  BY <1>0, <1>1, <1>2, <1>4, <1>5 DEF IsTask
<1>8. ASSUME NEW before, NEW first, NEW second, NEW after, Full(before, Size(t)),
             Fulfilled(t1, before, first), Fulfilled(t2, first, second), Fulfilled(t3, second, after)
      PROVE  Fulfilled(t, before, after)
  <2>1. /\ Transformed(up2, c, direction, scale, n2, before, first)
        /\ Transformed(up1, b, direction, scale, n1, first, second)
        /\ Transformed(up0, a, direction, scale, n0, second, after)
    BY <1>2, <1>5, <1>8 DEF Fulfilled
  <2> DEFINE len == a * (b * c)
  <2>2. len \in Positive /\ Full(before, lines * len)
    <3>1. b * c \in Positive
      BY PositiveTimes
    <3> QED
      BY <1>3, <1>8, <3>1, PositiveTimes DEF m
  <2>3. Filled(before, len, lines)
    <3> HIDE DEF len
    <3> QED
      BY <2>2, FilledFull
  <2>4. LinesTransformed(len, direction, scale, lines, before, after)
    BY <2>1, <2>3, ThreeUploadsAreFourier DEF up2, up1, up0, n2, n1, n0
  <2>5. Divides(len)
    OBVIOUS
  <2> HIDE DEF len
  <2>6. Fulfilled(Lines(len, direction, scale, lines), before, after)
    BY <2>2, <2>4, <2>5, FulfilledLines
  <2> QED
    BY <2>6 DEF t, len
<1>9. /\ Computes(s, source, one, U, tables, t1) /\ Computes(u, one, two, V, tables, t2)
      /\ Computes(v, two, target, T, tables, t3)
  BY DEF t1, t2, t3, up2, up1, up0
<1>10. Computes((s \o u) \o v, source, target, (U \cup V) \cup T, tables, t)
  BY <1>6, <1>7, <1>8, <1>9, ComputesThree
<1> QED
  BY <1>10 DEF t

-----------------------------------------------------------------------------
(* Cooley-Tukey nodes.                                                     *)

\* Values f[<<n1, n2>>] at row w * a + n1 and column n2 of rows of b cells ...
Grid(a, b, w, f) ==
  {<<(w * a + p[1]) * b + p[2], f[p]>> : p \in (0 .. a - 1) \X (0 .. b - 1)}

\* ... and values g[i] in row w of len cells.
Row(len, w, g) == {<<w * len + i, g[i]>> : i \in Points(len)}

Regroups(g, f, len, a, b) ==
  len = a * b /\ \A i \in Points(len) : g[i] = f[<<i \div b, i % b>>]

LEMMA GridRow ==
    ASSUME NEW a \in Positive, NEW b \in Positive, NEW len, NEW w \in Nat,
           NEW f, NEW g, Regroups(g, f, len, a, b)
    PROVE  Grid(a, b, w, f) = Row(len, w, g)
<1> USE DEF Regroups
<1> DEFINE S == (0 .. a - 1) \X (0 .. b - 1)
           e(p) == <<(w * a + p[1]) * b + p[2], f[p]>>
           h(i) == <<w * (a * b) + i, g[i]>>
<1>0. a \in Nat /\ b \in Nat /\ a \in Int /\ b \in Int
  BY DEF Positive
<1>1. ASSUME NEW p \in S
      PROVE  p[1] * b + p[2] \in Points(a * b) /\ e(p) = h(p[1] * b + p[2])
  <2> DEFINE n1 == p[1]  n2 == p[2]
  <2>1. n1 \in Points(a) /\ n2 \in Points(b) /\ n1 \in Nat /\ n2 \in Nat /\ p = <<n1, n2>>
    BY <1>0 DEF Points
  <2> HIDE DEF n1, n2, S
  <2>2. n1 * b + n2 \in Points(a * b)
    BY <1>0, <2>1, JoinBelow
  <2>3. (n1 * b + n2) \div b = n1 /\ (n1 * b + n2) % b = n2
    BY <1>0, <2>1, Split
  <2>4. w * (a * b) + (n1 * b + n2) = (w * a + n1) * b + n2
    BY <1>0, <2>1
  <2>5. g[n1 * b + n2] = f[p]
    BY <2>1, <2>2, <2>3
  <2> QED
    BY <2>2, <2>4, <2>5 DEF n1, n2
<1>2. ASSUME NEW i \in Points(a * b)
      PROVE  <<i \div b, i % b>> \in S /\ e(<<i \div b, i % b>>) = h(i)
  <2>1. i \div b \in Points(a) /\ i % b \in Points(b) /\ i = (i \div b) * b + (i % b)
    BY <1>0, SplitBelow
  <2>2. <<i \div b, i % b>> \in S
    BY <2>1 DEF Points
  <2> DEFINE p == <<i \div b, i % b>>
  <2>3. p[1] * b + p[2] = i
    BY <2>1
  <2>4. p \in S
    BY <2>2
  <2> HIDE DEF p, e, h, S
  <2>5. e(p) = h(p[1] * b + p[2])
    BY <1>1, <2>4
  <2> QED
    BY <2>3, <2>4, <2>5 DEF p
<1>3. Grid(a, b, w, f) = {e(p) : p \in S} /\ Row(len, w, g) = {h(i) : i \in Points(len)}
  BY DEF Grid, Row
<1> HIDE DEF e, h, S
<1>4. \A p \in S : \E i \in Points(len) : e(p) = h(i)
  BY <1>1
<1>5. \A i \in Points(len) : \E p \in S : h(i) = e(p)
  BY <1>2
<1>6. {e(p) : p \in S} = {h(i) : i \in Points(len)}
  BY <1>4, <1>5
<1> QED
  BY <1>3, <1>6

\* A pass of numbers through a mapping, between the resources of a program.
DispatchesLines(q, io, len, lines) ==
  IsMapping(io, len) /\ lines \in Nat /\ q.ir.batches = lines * PerLine(io) /\ q.ir.batches \in Nat

StoresNumbers(q, len, v) == \A w \in Workgroups(q), i \in Points(len) : v[w][i] \in Number

LEMMA MappedPass ==
    ASSUME NEW x, NEW source, NEW target, NEW tables, NEW size, Ready(x, source, {target}, tables, size),
           NEW q, q.input = source, q.output = target, q.lookup = NoResource, q.auxiliary = NoResource,
           NEW len \in Positive, NEW io, NEW lines, DispatchesLines(q, io, len, lines),
           Places(io, len, lines) = Points(size),
           NEW v, StoresMapped(q, x, io, len, v), StoresNumbers(q, len, v)
    PROVE  /\ IsPasses(<<q>>) /\ Reaches(<<q>>, x, AfterPass(x, q)) /\ Kept(x, AfterPass(x, q), {target})
           /\ \A w \in Workgroups(q) : Holds(AfterPass(x, q)[target], Stores(q, w, x))
           /\ Full(AfterPass(x, q)[target], size)
<1>1. IsMemory(x) /\ q.output \in DOMAIN x /\ Places(io, len, lines) \subseteq DOMAIN x[q.output]
  BY DEF Ready
<1>2. \A r \in {q.input, q.lookup, q.auxiliary} : r # q.output /\ (r # NoResource => r \in DOMAIN x)
  BY DEF Ready
<1>3. /\ Proper(q, x)
      /\ \A w \in Workgroups(q) : Holds(AfterPass(x, q)[q.output], Stores(q, w, x))
      /\ Full(AfterPass(x, q)[q.output], lines * PerLine(io) * len)
  BY <1>1, <1>2, MappedStep DEF DispatchesLines, StoresNumbers
<1>4. Full(AfterPass(x, q)[q.output], size)
  BY <1>3 DEF Full, Places
<1> QED
  BY <1>3, <1>4, ReachesOne, ProperKept

\* The resource "middle", which the passes have filled, is ready for the next ones.
LEMMA ReadyFrom ==
    ASSUME NEW x, NEW A, NEW V, NEW source, NEW middle, NEW tables, NEW size,
           Ready(x, source, A, tables, size), middle \in A, V \subseteq A, middle \notin V,
           Full(x[middle], size)
    PROVE  Ready(x, middle, V, tables, size)
  BY DEF Ready

\* Workgroup w of the pass stores the numbers f[w] in row w, as a grid of a rows.
StoresGrids(q, x, n, a, b, f) ==
  /\ n \in Nat /\ q.ir.batches = n
  /\ \A w \in Points(n) : Stores(q, w, x) = Grid(a, b, w, f[w])
  /\ \A w \in Points(n), p \in (0 .. a - 1) \X (0 .. b - 1) : f[w][p] \in Number

LEMMA GridPass ==
    ASSUME NEW x, NEW source, NEW target, NEW tables, NEW size, Ready(x, source, {target}, tables, size),
           NEW q, q.input = source, q.output = target, q.lookup = NoResource, q.auxiliary = NoResource,
           NEW a \in Positive, NEW b \in Positive, NEW n, NEW f, StoresGrids(q, x, n, a, b, f),
           size = n * (a * b)
    PROVE  /\ IsPasses(<<q>>) /\ Reaches(<<q>>, x, AfterPass(x, q)) /\ Kept(x, AfterPass(x, q), {target})
           /\ \A w \in Points(n) : Holds(AfterPass(x, q)[target], Stores(q, w, x))
           /\ Full(AfterPass(x, q)[target], size)
<1> USE DEF StoresGrids
<1> DEFINE len == a * b
           v == [w \in Points(n) |-> [i \in Points(len) |-> f[w][<<i \div b, i % b>>]]]
<1>0. a \in Nat /\ b \in Nat /\ b \in Int /\ len \in Positive
  BY PositiveTimes DEF Positive
<1>1. Workgroups(q) = Points(n)
  BY DEF Workgroups, Points
<1>2. ASSUME NEW w \in Points(n) PROVE Stores(q, w, x) = Row(len, w, v[w])
  <2>0. w \in Nat
    BY DEF Points
  <2> DEFINE g == v[w]  h == f[w]
  <2>1. Regroups(g, h, len, a, b)
    BY DEF Regroups
  <2>2. Grid(a, b, w, h) = Row(len, w, g)
    <3> HIDE DEF len, g, h
    <3> QED
      BY <2>0, <2>1, GridRow
  <2> QED
    BY <2>2
<1>3. ASSUME NEW w \in Points(n), NEW i \in Points(len) PROVE v[w][i] \in Number
  <2> DEFINE p == <<i \div b, i % b>>
  <2>1. i \div b \in Points(a) /\ i % b \in Points(b)
    BY <1>0, SplitBelow
  <2>2. p \in (0 .. a - 1) \X (0 .. b - 1)
    BY <2>1 DEF Points
  <2>3. v[w][i] = f[w][p]
    OBVIOUS
  <2> HIDE DEF p, v
  <2> QED
    BY <2>2, <2>3
<1> HIDE DEF v
<1>5. StoresMapped(q, x, Contiguous, len, v)
  <2> SUFFICES ASSUME NEW w \in Points(n)
               PROVE  Stores(q, w, x) = {<<output_index(Contiguous, len, w, i), v[w][i]>> : i \in Points(len)}
    BY <1>1 DEF StoresMapped
  <2>1. \A i \in Points(len) : output_index(Contiguous, len, w, i) = w * len + i
    BY DEF Contiguous, output_index, UploadIndex
  <2>2. {<<output_index(Contiguous, len, w, i), v[w][i]>> : i \in Points(len)} = Row(len, w, v[w])
    BY <2>1 DEF Row
  <2> QED
    BY <1>2, <2>2
<1>6. /\ PerLine(Contiguous) = 1 /\ n * 1 = n /\ IsMapping(Contiguous, len)
      /\ Places(Contiguous, len, n) = Points(size)
  BY <1>0 DEF PerLine, PerLineOf, Contiguous, IsMapping, IsUpload, Places
<1>7. DispatchesLines(q, Contiguous, len, n)
  BY <1>0, <1>1, <1>6 DEF DispatchesLines
<1>8. StoresNumbers(q, len, v)
  BY <1>1, <1>3 DEF StoresNumbers
<1> HIDE DEF len
<1>9. /\ IsPasses(<<q>>) /\ Reaches(<<q>>, x, AfterPass(x, q)) /\ Kept(x, AfterPass(x, q), {target})
      /\ \A w \in Workgroups(q) : Holds(AfterPass(x, q)[target], Stores(q, w, x))
      /\ Full(AfterPass(x, q)[target], size)
  BY <1>0, <1>5, <1>6, <1>7, <1>8, MappedPass
<1> QED
  BY <1>1, <1>9

\* What the pack pass stores.
LEMMA PackStep ==
    ASSUME NEW a \in Positive, NEW b \in Positive, NEW t, IsTask(t), t.len = a * b,
           NEW ir, Branch(ir, t.io, a, b, t.direction, Batches(t)), ir.batches = Batches(t),
           NEW source, NEW target, NEW q, q = Between("PackRightInput", ir, source, target),
           NEW tables, NEW x, Ready(x, source, {target}, tables, Size(t))
    PROVE  /\ IsPasses(<<q>>) /\ Reaches(<<q>>, x, AfterPass(x, q)) /\ Kept(x, AfterPass(x, q), {target})
           /\ \A w \in Points(Batches(t)) :
                Holds(AfterPass(x, q)[target], PackRightInput(ir, w, x[source], << >>))
           /\ Full(AfterPass(x, q)[target], Size(t))
<1> DEFINE n == Batches(t)  len == a * b  values == x[source]
           S == (0 .. a - 1) \X (0 .. b - 1)
           value(w, n1, n2) == InputValue(ir, ir.packIo, FALSE, w, n1 + a * n2, values, << >>)
           f == [w \in Points(n) |-> [p \in S |-> value(w, p[1], p[2])]]
<1>0. a \in Nat /\ b \in Nat /\ n \in Nat /\ Divides(len)
  BY TaskNumbers DEF Positive, IsTask
<1>2. ASSUME NEW w \in Points(n)
      PROVE  Stores(q, w, x) = PackRightInput(ir, w, values, << >>)
  BY DEF Stores, Between, Ready
<1>f. ASSUME NEW w \in Points(n), NEW p \in S PROVE f[w][p] = value(w, p[1], p[2])
  <2> HIDE DEF value, S
  <2> QED
    OBVIOUS
<1> HIDE DEF f
<1>3. ASSUME NEW w \in Points(n)
      PROVE  PackRightInput(ir, w, values, << >>) = Grid(a, b, w, f[w])
  <2> DEFINE cell(n1, n2) == <<(w * ir.leftLen + n1) * ir.rightLen + n2,
                               InputValue(ir, ir.packIo, ir.packMultiply, w, n1 + ir.leftLen * n2,
                                          values, << >>)>>
             C == {cell(n1, n2) : n1 \in 0 .. a - 1, n2 \in 0 .. b - 1}
             e(p) == <<(w * a + p[1]) * b + p[2], f[w][p]>>
  <2>1. ir.leftLen = a /\ ir.rightLen = b /\ ir.packMultiply = FALSE
    BY DEF Branch
  <2>2. PackRightInput(ir, w, values, << >>) = C
    <3> HIDE DEF n
    <3> QED
      BY <2>1 DEF PackRightInput
  <2>3. ASSUME NEW p \in S PROVE cell(p[1], p[2]) = e(p)
    BY <1>f, <2>1
  <2>4. Grid(a, b, w, f[w]) = {e(p) : p \in S}
    BY DEF Grid
  <2> HIDE DEF cell, e
  <2>5. ASSUME NEW s \in C PROVE s \in {e(p) : p \in S}
    <3>1. PICK n1 \in 0 .. a - 1, n2 \in 0 .. b - 1 : s = cell(n1, n2)
      OBVIOUS
    <3> DEFINE p == <<n1, n2>>
    <3>2. p \in S /\ p[1] = n1 /\ p[2] = n2
      OBVIOUS
    <3> HIDE DEF p
    <3> QED
      BY <2>3, <3>1, <3>2
  <2>6. ASSUME NEW p \in S PROVE e(p) \in C
    <3>1. p[1] \in 0 .. a - 1 /\ p[2] \in 0 .. b - 1
      OBVIOUS
    <3> QED
      BY <2>3, <3>1
  <2> HIDE DEF C, S
  <2>7. C = {e(p) : p \in S}
    BY <2>5, <2>6
  <2> QED
    BY <2>2, <2>4, <2>7
<1>4. ASSUME NEW w \in Points(n), NEW p \in S PROVE f[w][p] \in Number
  <2> DEFINE n1 == p[1]  n2 == p[2]  j == n1 + a * n2
  <2>1. n1 \in 0 .. a - 1 /\ n2 \in 0 .. b - 1
    OBVIOUS
  <2>2. f[w][p] = value(w, n1, n2)
    BY <1>f
  <2> HIDE DEF n1, n2
  <2>3. j \in 0 .. len - 1 /\ j \in Points(len)
    <3>1. n1 + a * n2 \in 0 .. b * a - 1 /\ b * a = a * b
      BY <1>0, <2>1, ColumnBelow
    <3> QED
      BY <3>1 DEF Points
  <2>4. value(w, n1, n2)
          = Turned(At(values, input_index(ir.packIo, len, w, j)), input_turn(ir.packIo, w, j), t.direction)
    BY DEF InputValue, Branch
  <2>5. /\ input_index(ir.packIo, len, w, j) = input_index(t.io, len, w, j)
        /\ input_turn(ir.packIo, w, j) = input_turn(t.io, w, j)
    BY <2>3 DEF Branch, SameReads
  <2> DEFINE turn == input_turn(t.io, w, j)
  <2>6. At(values, input_index(t.io, len, w, j)) \in Number
    BY <2>3, FullSource DEF Ready
  <2>7. turn[1] \in Int /\ Divides(turn[2])
    BY <2>3 DEF IsTask, ReadTurning
  <2> HIDE DEF turn, value, j, len, values
  <2>8. Turned(At(values, input_index(t.io, len, w, j)), turn, t.direction) \in Number
    BY <2>6, <2>7, TurnedNumber
  <2> QED
    BY <2>2, <2>4, <2>5, <2>8 DEF turn
<1>5. StoresGrids(q, x, n, a, b, f)
  <2>1. q.ir.batches = n
    BY DEF Between
  <2> HIDE DEF n, values
  <2> QED
    BY <1>0, <1>2, <1>3, <1>4, <2>1 DEF StoresGrids
<1>6. /\ q.input = source /\ q.output = target /\ q.lookup = NoResource /\ q.auxiliary = NoResource
      /\ Size(t) = n * (a * b)
  BY DEF Between, Size
<1> HIDE DEF n, values
<1>7. /\ IsPasses(<<q>>) /\ Reaches(<<q>>, x, AfterPass(x, q)) /\ Kept(x, AfterPass(x, q), {target})
      /\ \A w \in Points(n) : Holds(AfterPass(x, q)[target], Stores(q, w, x))
      /\ Full(AfterPass(x, q)[target], Size(t))
  BY <1>5, <1>6, GridPass
<1> QED
  BY <1>2, <1>7 DEF n, values

\* What the twiddle pass stores.
LEMMA TwiddleStep ==
    ASSUME NEW a \in Positive, NEW b \in Positive, NEW t, IsTask(t), t.len = a * b,
           NEW ir, Branch(ir, t.io, a, b, t.direction, Batches(t)), ir.batches = Batches(t),
           NEW source, NEW target, NEW q, q = Between("TwiddleTranspose", ir, source, target),
           NEW tables, NEW x, Ready(x, source, {target}, tables, Size(t))
    PROVE  /\ IsPasses(<<q>>) /\ Reaches(<<q>>, x, AfterPass(x, q)) /\ Kept(x, AfterPass(x, q), {target})
           /\ \A w \in Points(Batches(t)) :
                Holds(AfterPass(x, q)[target], TwiddleTranspose(ir, w, x[source]))
           /\ Full(AfterPass(x, q)[target], Size(t))
<1> DEFINE n == Batches(t)  len == a * b  values == x[source]
           S == (0 .. b - 1) \X (0 .. a - 1)
           value(w, n1, k2) == Turned(At(values, (w * a + n1) * b + k2), <<n1 * k2, len>>, t.direction)
           f == [w \in Points(n) |-> [p \in S |-> value(w, p[2], p[1])]]
<1>0. a \in Nat /\ b \in Nat /\ n \in Nat /\ Divides(len)
  BY TaskNumbers DEF Positive, IsTask
<1>2. ASSUME NEW w \in Points(n)
      PROVE  Stores(q, w, x) = TwiddleTranspose(ir, w, values)
  BY DEF Stores, Between, Ready
<1>f. ASSUME NEW w \in Points(n), NEW p \in S PROVE f[w][p] = value(w, p[2], p[1])
  <2> HIDE DEF value, S
  <2> QED
    OBVIOUS
<1> HIDE DEF f
<1>3. ASSUME NEW w \in Points(n)
      PROVE  TwiddleTranspose(ir, w, values) = Grid(b, a, w, f[w])
  <2> DEFINE cell(n1, k2) == <<(w * ir.rightLen + k2) * ir.leftLen + n1,
                               Turned(At(values, (w * ir.leftLen + n1) * ir.rightLen + k2),
                                      <<n1 * k2, ir.len>>, ir.direction)>>
             C == {cell(n1, k2) : n1 \in 0 .. a - 1, k2 \in 0 .. b - 1}
             e(p) == <<(w * b + p[1]) * a + p[2], f[w][p]>>
  <2>1. ir.leftLen = a /\ ir.rightLen = b /\ ir.len = len /\ ir.direction = t.direction
    BY DEF Branch
  <2>2. TwiddleTranspose(ir, w, values) = C
    <3> HIDE DEF n
    <3> QED
      BY <2>1 DEF TwiddleTranspose
  <2>3. ASSUME NEW p \in S PROVE cell(p[2], p[1]) = e(p)
    BY <1>f, <2>1
  <2>4. Grid(b, a, w, f[w]) = {e(p) : p \in S}
    BY DEF Grid
  <2> HIDE DEF cell, e
  <2>5. ASSUME NEW s \in C PROVE s \in {e(p) : p \in S}
    <3>1. PICK n1 \in 0 .. a - 1, k2 \in 0 .. b - 1 : s = cell(n1, k2)
      OBVIOUS
    <3> DEFINE p == <<k2, n1>>
    <3>2. p \in S /\ p[1] = k2 /\ p[2] = n1
      OBVIOUS
    <3> HIDE DEF p
    <3> QED
      BY <2>3, <3>1, <3>2
  <2>6. ASSUME NEW p \in S PROVE e(p) \in C
    <3>1. p[1] \in 0 .. b - 1 /\ p[2] \in 0 .. a - 1
      OBVIOUS
    <3> QED
      BY <2>3, <3>1
  <2> HIDE DEF C, S
  <2>7. C = {e(p) : p \in S}
    BY <2>5, <2>6
  <2> QED
    BY <2>2, <2>4, <2>7
<1>4. ASSUME NEW w \in Points(n), NEW p \in S PROVE f[w][p] \in Number
  <2> DEFINE k2 == p[1]  n1 == p[2]  place == (w * a + n1) * b + k2  turn == <<n1 * k2, len>>
  <2>1. n1 \in Points(a) /\ k2 \in Points(b)
    BY <1>0 DEF Points
  <2>2. f[w][p] = value(w, n1, k2)
    BY <1>f
  <2> HIDE DEF n1, k2, n
  <2>3. place \in Points((n * a) * b)
    <3>1. w * a + n1 \in Points(n * a) /\ n * a \in Nat
      BY <1>0, <2>1, JoinBelow
    <3> QED
      BY <1>0, <2>1, <3>1, JoinBelow
  <2>4. (n * a) * b = Size(t)
    BY <1>0 DEF Size, n
  <2>5. At(values, place) \in Number
    BY <2>3, <2>4 DEF Ready, Full
  <2>6. turn[1] \in Int /\ turn[2] = len
    BY <2>1 DEF Points
  <2>7. value(w, n1, k2) = Turned(At(values, place), turn, t.direction)
    OBVIOUS
  <2> HIDE DEF turn, value, place, len, values
  <2>8. Turned(At(values, place), turn, t.direction) \in Number
    BY <1>0, <2>5, <2>6, TurnedNumber
  <2> QED
    BY <2>2, <2>7, <2>8
<1>5. StoresGrids(q, x, n, b, a, f)
  <2>1. q.ir.batches = n
    BY DEF Between
  <2> HIDE DEF n, values
  <2> QED
    BY <1>0, <1>2, <1>3, <1>4, <2>1 DEF StoresGrids
<1>6. /\ q.input = source /\ q.output = target /\ q.lookup = NoResource /\ q.auxiliary = NoResource
      /\ Size(t) = n * (b * a)
  BY <1>0 DEF Between, Size
<1> HIDE DEF n, values
<1>7. /\ IsPasses(<<q>>) /\ Reaches(<<q>>, x, AfterPass(x, q)) /\ Kept(x, AfterPass(x, q), {target})
      /\ \A w \in Points(n) : Holds(AfterPass(x, q)[target], Stores(q, w, x))
      /\ Full(AfterPass(x, q)[target], Size(t))
  BY <1>5, <1>6, GridPass
<1> QED
  BY <1>2, <1>7 DEF n, values

\* What the scatter pass stores.
LEMMA ScatterStep ==
    ASSUME NEW a \in Positive, NEW b \in Positive, NEW t, IsTask(t), t.len = a * b,
           NEW ir, Branch(ir, t.io, a, b, t.direction, Batches(t)), ir.batches = Batches(t),
           NEW source, NEW target, NEW q, q = Between("ScatterOutput", ir, source, target),
           NEW tables, NEW x, Ready(x, source, {target}, tables, Size(t))
    PROVE  /\ IsPasses(<<q>>) /\ Reaches(<<q>>, x, AfterPass(x, q)) /\ Kept(x, AfterPass(x, q), {target})
           /\ \A w \in Points(Batches(t)) :
                Holds(AfterPass(x, q)[target], ScatterOutput(ir, w, x[source], << >>))
<1> DEFINE n == Batches(t)  len == a * b  values == x[source]
           place(w, k) == (w * b + (k % b)) * a + (k \div b)
           cell(w, k) == At(values, place(w, k))
           v == [w \in Points(n) |-> [k \in Points(len) |->
                   Turned(cell(w, k), output_turn(t.io, w, k), t.direction)]]
<1>0. a \in Nat /\ b \in Nat /\ b \in Int /\ n \in Nat /\ Divides(len) /\ len \in Positive
  BY TaskNumbers DEF Positive, IsTask
<1>1. Workgroups(q) = Points(n) /\ q.ir = ir
  BY DEF Between, Workgroups, Points
<1>2. ASSUME NEW w \in Points(n)
      PROVE  Stores(q, w, x) = ScatterOutput(ir, w, values, << >>)
  BY DEF Stores, Between, Ready
<1>3. ASSUME NEW w \in Points(n)
      PROVE  ScatterOutput(ir, w, values, << >>)
               = {<<output_index(t.io, len, w, k), v[w][k]>> : k \in Points(len)}
  <2> DEFINE value == [k \in 0 .. ir.len - 1 |->
                         At(values, (w * ir.rightLen + (k % ir.rightLen)) * ir.leftLen
                                       + (k \div ir.rightLen))]
             e(k) == <<k, value[k]>>
             E == {e(k) : k \in Points(len)}
             g(p) == <<output_index(t.io, len, w, p[1]),
                       Turned(p[2], output_turn(t.io, w, p[1]), t.direction)>>
             h(k) == <<output_index(t.io, len, w, k), v[w][k]>>
  <2>1. /\ ir.leftLen = a /\ ir.rightLen = b /\ ir.len = len /\ ir.direction = t.direction
        /\ ir.scatterIo = t.io /\ ir.modifier = NoModifier
    BY DEF Branch
  <2>2. DOMAIN value = Points(len) /\ \A k \in Points(len) : value[k] = cell(w, k)
    BY <2>1 DEF Points
  <2>3. ScatterOutput(ir, w, values, << >>) = Outputs(t.io, NoModifier, ir, w, value, << >>)
    BY <2>1 DEF ScatterOutput
  <2>4. Outputs(t.io, NoModifier, ir, w, value, << >>) = Mapped(t.io, len, t.direction, w, E)
    <3> HIDE DEF value
    <3> QED
      BY <2>1, <2>2 DEF Outputs, NoModifier
  <2>5. ASSUME NEW k \in Points(len) PROVE g(e(k)) = h(k)
    <3>1. v[w][k] = Turned(cell(w, k), output_turn(t.io, w, k), t.direction)
      <4> HIDE DEF cell
      <4> QED
        OBVIOUS
    <3> HIDE DEF value, v, cell
    <3> QED
      BY <2>2, <3>1
  <2>6. Mapped(t.io, len, t.direction, w, E) = {g(p) : p \in E}
    BY DEF Mapped
  <2> HIDE DEF g, e, h, value, v
  <2>7. {g(p) : p \in E} = {h(k) : k \in Points(len)}
    BY <2>5
  <2> QED
    BY <2>3, <2>4, <2>6, <2>7 DEF h
<1>4. ASSUME NEW w \in Points(n), NEW k \in Points(len) PROVE v[w][k] \in Number
  <2>1. k \div b \in Points(a) /\ k % b \in Points(b)
    BY <1>0, SplitBelow
  <2>2. v[w][k] = Turned(cell(w, k), output_turn(t.io, w, k), t.direction)
    <3> HIDE DEF cell
    <3> QED
      OBVIOUS
  <2> HIDE DEF v, n
  <2>3. place(w, k) \in Points((n * b) * a)
    <3> DEFINE k1 == k \div b  k2 == k % b
    <3>0. k1 \in Points(a) /\ k2 \in Points(b)
      BY <2>1
    <3> HIDE DEF k1, k2
    <3>1. w * b + k2 \in Points(n * b) /\ n * b \in Nat
      BY <1>0, <3>0, JoinBelow
    <3>2. (w * b + k2) * a + k1 \in Points((n * b) * a)
      BY <1>0, <3>0, <3>1, JoinBelow
    <3> QED
      BY <3>2 DEF k1, k2
  <2>4. (n * b) * a = Size(t)
    BY <1>0 DEF Size, n
  <2> DEFINE turn == output_turn(t.io, w, k)
  <2>5. cell(w, k) \in Number
    <3> HIDE DEF place
    <3> QED
      BY <2>3, <2>4 DEF Ready, Full
  <2>6. turn[1] \in Int /\ Divides(turn[2])
    BY DEF IsTask, Turning, n
  <2> HIDE DEF turn, cell
  <2>7. Turned(cell(w, k), turn, t.direction) \in Number
    BY <2>5, <2>6, TurnedNumber
  <2> QED
    BY <2>2, <2>7 DEF turn
<1> HIDE DEF v
<1>5. StoresMapped(q, x, t.io, len, v)
  BY <1>1, <1>2, <1>3 DEF StoresMapped
<1>6. Places(t.io, len, t.lines) = Points(Size(t)) /\ IsMapping(t.io, len)
  BY TaskNumbers DEF IsTask
<1>7. DispatchesLines(q, t.io, len, t.lines)
  BY <1>0, <1>1, <1>6 DEF DispatchesLines, IsTask, Batches
<1>8. StoresNumbers(q, len, v)
  BY <1>1, <1>4 DEF StoresNumbers
<1>p. q.input = source /\ q.output = target /\ q.lookup = NoResource /\ q.auxiliary = NoResource
  BY DEF Between
<1> HIDE DEF n, len, values
<1>9. /\ IsPasses(<<q>>) /\ Reaches(<<q>>, x, AfterPass(x, q)) /\ Kept(x, AfterPass(x, q), {target})
      /\ \A w \in Workgroups(q) : Holds(AfterPass(x, q)[target], Stores(q, w, x))
  BY <1>0, <1>p, <1>5, <1>6, <1>7, <1>8, MappedPass
<1> QED
  BY <1>1, <1>2, <1>9 DEF n, values

\* A Cooley-Tukey node: its right child transforms the rows that the pack pass gathers,
\* its left child the columns that the twiddle pass turns.
IsNode(pack, twiddle, scatter, a, b, source, target, right, result, left, finished, t) ==
  /\ t.len = a * b
  /\ \E ir : /\ Branch(ir, t.io, a, b, t.direction, Batches(t)) /\ ir.batches = Batches(t)
            /\ pack = Between("PackRightInput", ir, source, right)
            /\ twiddle = Between("TwiddleTranspose", ir, result, left)
            /\ scatter = Between("ScatterOutput", ir, finished, target)

LEMMA FivePasses ==
    ASSUME NEW s1, NEW s2, NEW s3, NEW s4, NEW s5,
           IsPasses(s1), IsPasses(s2), IsPasses(s3), IsPasses(s4), IsPasses(s5),
           NEW x0, NEW x1, NEW x2, NEW x3, NEW x4, NEW x5,
           Reaches(s1, x0, x1), Reaches(s2, x1, x2), Reaches(s3, x2, x3), Reaches(s4, x3, x4),
           Reaches(s5, x4, x5)
    PROVE  /\ IsPasses((((s1 \o s2) \o s3) \o s4) \o s5)
           /\ Reaches((((s1 \o s2) \o s3) \o s4) \o s5, x0, x5)
<1> DEFINE c2 == s1 \o s2  c3 == c2 \o s3  c4 == c3 \o s4  c5 == c4 \o s5
<1>1. IsPasses(c2) /\ Reaches(c2, x0, x2)
  BY ReachesThen
<1> HIDE DEF c2
<1>2. IsPasses(c3) /\ Reaches(c3, x0, x3)
  BY <1>1, ReachesThen
<1> HIDE DEF c3
<1>3. IsPasses(c4) /\ Reaches(c4, x0, x4)
  BY <1>2, ReachesThen
<1> HIDE DEF c4
<1>4. IsPasses(c5) /\ Reaches(c5, x0, x5)
  BY <1>3, ReachesThen
<1> QED
  BY <1>4 DEF c5, c4, c3, c2

LEMMA KeptWithin ==
    ASSUME NEW x, NEW y, NEW V, NEW T, Kept(x, y, V), V \subseteq T
    PROVE  Kept(x, y, T)
  BY DEF Kept

LEMMA KeptOn ==
    ASSUME NEW x, NEW y, NEW z, NEW T, Kept(x, y, T), Kept(y, z, T)
    PROVE  Kept(x, z, T)
  BY DEF Kept

\* A Cooley-Tukey node whose children are computed, in whatever way, computes the transforms
\* of a * b points through its mapping (flatten_node of src/src/program_ir.rs).  The
\* children may use any resource that does not hold what they still have to read.
THEOREM CooleyTukeyComputes ==
    ASSUME NEW a \in Positive, NEW b \in Positive, NEW t, IsTask(t),
           NEW pack, NEW twiddle, NEW scatter, NEW source, NEW target,
           NEW right, NEW result, NEW left, NEW finished,
           IsNode(pack, twiddle, scatter, a, b, source, target, right, result, left, finished, t),
           NEW r, NEW l, NEW R, NEW L, NEW tables,
           Computes(r, right, result, R, tables, Lines(b, t.direction, t.scale, Batches(t) * a)),
           Computes(l, left, finished, L, tables, Lines(a, t.direction, t.scale, Batches(t) * b)),
           right \notin R, left \notin L, result # left, finished # target
    PROVE  Computes((((<<pack>> \o r) \o <<twiddle>>) \o l) \o <<scatter>>, source, target,
                    {right, left, target} \cup R \cup L, tables, t)
<1> DEFINE n == Batches(t)  A == {right, left, target} \cup R \cup L  size == Size(t)
           tr == Lines(b, t.direction, t.scale, n * a)  tl == Lines(a, t.direction, t.scale, n * b)
           c == (((<<pack>> \o r) \o <<twiddle>>) \o l) \o <<scatter>>
<1>0. /\ a \in Nat /\ b \in Nat /\ n \in Nat /\ n * a \in Nat /\ n * b \in Nat
      /\ size = n * (a * b) /\ t.len = a * b /\ Divides(a * b) /\ Divides(a) /\ Divides(b)
  <2>1. a \in Nat /\ b \in Nat /\ n \in Nat /\ t.len = a * b /\ Divides(a * b)
    BY TaskNumbers DEF Positive, IsTask, IsNode
  <2>2. Divides(a) /\ Divides(b)
    BY <2>1, DividesPart
  <2> QED
    BY <2>1, <2>2, Times DEF Size
<1>1. PICK ir : /\ Branch(ir, t.io, a, b, t.direction, n) /\ ir.batches = n
                /\ pack = Between("PackRightInput", ir, source, right)
                /\ twiddle = Between("TwiddleTranspose", ir, result, left)
                /\ scatter = Between("ScatterOutput", ir, finished, target)
  BY DEF IsNode
<1>2. IsTask(tr) /\ IsTask(tl) /\ Size(tr) = size /\ Size(tl) = size
  <2>1. /\ IsTask(tr) /\ Size(tr) = (n * a) * b /\ IsTask(tl) /\ Size(tl) = (n * b) * a
    <3> HIDE DEF n
    <3> QED
      BY <1>0, LinesTask
  <2> HIDE DEF n, tr, tl, size
  <2> QED
    BY <1>0, <2>1
<1>3. IsPasses(r) /\ IsPasses(l) /\ result \in R /\ finished \in L
  BY DEF Computes
<1>4. /\ right \in A /\ left \in A /\ target \in A /\ result \in A /\ finished \in A
      /\ {right} \subseteq A /\ {left} \subseteq A /\ {target} \subseteq A /\ R \subseteq A /\ L \subseteq A
      /\ result \notin {left} /\ finished \notin {target}
  BY <1>3
<1>c. Computes(r, right, result, R, tables, tr) /\ Computes(l, left, finished, L, tables, tl)
  OBVIOUS
<1>p. IsPasses(<<pack>>) /\ IsPasses(<<twiddle>>) /\ IsPasses(<<scatter>>)
  <2> SUFFICES ASSUME NEW q PROVE IsPasses(<<q>>)
    OBVIOUS
  <2>1. <<q>> \in Seq({q})
    OBVIOUS
  <2> QED
    BY <2>1 DEF IsPasses
<1>q. IsPasses(c)
  <2> DEFINE c2 == <<pack>> \o r  c3 == c2 \o <<twiddle>>  c4 == c3 \o l  c5 == c4 \o <<scatter>>
  <2>1. IsPasses(c2)
    BY <1>3, <1>p, Concatenated
  <2> HIDE DEF c2
  <2>2. IsPasses(c3)
    BY <1>p, <2>1, Concatenated
  <2> HIDE DEF c3
  <2>3. IsPasses(c4)
    BY <1>3, <2>2, Concatenated
  <2> HIDE DEF c4
  <2>4. IsPasses(c5)
    BY <1>p, <2>3, Concatenated
  <2> QED
    BY <2>4 DEF c5, c4, c3, c2
<1> HIDE DEF A, tr, tl, n, size
<1>5. ASSUME NEW x, Ready(x, source, A, tables, size)
      PROVE  \E z : Reaches(c, x, z) /\ Kept(x, z, A) /\ Fulfilled(t, x[source], z[target])
  <2> DEFINE x1 == AfterPass(x, pack)
  <2>1. /\ Reaches(<<pack>>, x, x1) /\ Kept(x, x1, {right})
        /\ \A w \in Points(n) : Holds(x1[right], PackRightInput(ir, w, x[source], << >>))
        /\ Full(x1[right], size)
    <3>1. Ready(x, source, {right}, tables, size)
      BY <1>4, <1>5, ReadyFor
    <3> QED
      BY <1>0, <1>1, <3>1, PackStep DEF n, size
  <2> HIDE DEF x1
  <2>2. Ready(x1, source, A, tables, size)
    BY <1>4, <1>5, <2>1, ReadyStill
  <2>3. Ready(x1, right, R, tables, Size(tr))
    BY <1>2, <1>4, <2>1, <2>2, ReadyFrom
  <2>4. PICK x2 : Reaches(r, x1, x2) /\ Kept(x1, x2, R) /\ Fulfilled(tr, x1[right], x2[result])
    BY <1>c, <2>3, ComputesFrom
  <2>5. Full(x2[result], size)
    BY <1>2, <2>1, <2>4, FullResult
  <2>6. Ready(x2, source, A, tables, size)
    BY <1>4, <2>2, <2>4, ReadyStill
  <2> DEFINE x3 == AfterPass(x2, twiddle)
  <2>7. /\ Reaches(<<twiddle>>, x2, x3) /\ Kept(x2, x3, {left})
        /\ \A w \in Points(n) : Holds(x3[left], TwiddleTranspose(ir, w, x2[result]))
        /\ Full(x3[left], size)
    <3>1. Ready(x2, result, {left}, tables, size)
      BY <1>4, <2>5, <2>6, ReadyFrom
    <3> QED
      BY <1>0, <1>1, <3>1, TwiddleStep DEF n, size
  <2> HIDE DEF x3
  <2>8. Ready(x3, source, A, tables, size)
    BY <1>4, <2>6, <2>7, ReadyStill
  <2>9. Ready(x3, left, L, tables, Size(tl))
    BY <1>2, <1>4, <2>7, <2>8, ReadyFrom
  <2>10. PICK x4 : Reaches(l, x3, x4) /\ Kept(x3, x4, L) /\ Fulfilled(tl, x3[left], x4[finished])
    BY <1>c, <2>9, ComputesFrom
  <2>11. Full(x4[finished], size)
    BY <1>2, <2>7, <2>10, FullResult
  <2>12. Ready(x4, source, A, tables, size)
    BY <1>4, <2>8, <2>10, ReadyStill
  <2> DEFINE x5 == AfterPass(x4, scatter)
  <2>13. /\ Reaches(<<scatter>>, x4, x5) /\ Kept(x4, x5, {target})
         /\ \A w \in Points(n) : Holds(x5[target], ScatterOutput(ir, w, x4[finished], << >>))
    <3>1. Ready(x4, finished, {target}, tables, size)
      BY <1>4, <2>11, <2>12, ReadyFrom
    <3> QED
      BY <1>0, <1>1, <3>1, ScatterStep DEF n, size
  <2> HIDE DEF x5
  <2>14. Reaches(c, x, x5)
    BY <1>3, <1>p, <2>1, <2>4, <2>7, <2>10, <2>13, FivePasses
  <2>15. Kept(x, x5, A)
    <3>1. /\ Kept(x, x1, A) /\ Kept(x1, x2, A) /\ Kept(x2, x3, A) /\ Kept(x3, x4, A) /\ Kept(x4, x5, A)
      BY <1>4, <2>1, <2>4, <2>7, <2>10, <2>13, KeptWithin
    <3> QED
      BY <3>1, KeptOn
  <2>16. LinesTransformed(b, t.direction, t.scale, n * a, x1[right], x2[result])
    <3>1. size = (n * a) * b
      BY <1>0
    <3> DEFINE m == n * a
    <3>2. m \in Nat /\ Full(x1[right], m * b)
      BY <1>0, <2>1, <3>1
    <3>3. Fulfilled(Lines(b, t.direction, t.scale, m), x1[right], x2[result])
      BY <2>4 DEF tr
    <3> HIDE DEF m
    <3>4. LinesTransformed(b, t.direction, t.scale, m, x1[right], x2[result])
      BY <1>0, <3>2, <3>3, FulfilledLines
    <3> QED
      BY <3>4 DEF m
  <2>17. LinesTransformed(a, t.direction, t.scale, n * b, x3[left], x4[finished])
    <3>1. size = (n * b) * a
      BY <1>0
    <3> DEFINE m == n * b
    <3>2. m \in Nat /\ Full(x3[left], m * a)
      BY <1>0, <2>7, <3>1
    <3>3. Fulfilled(Lines(a, t.direction, t.scale, m), x3[left], x4[finished])
      BY <2>10 DEF tl
    <3> HIDE DEF m
    <3>4. LinesTransformed(a, t.direction, t.scale, m, x3[left], x4[finished])
      BY <1>0, <3>2, <3>3, FulfilledLines
    <3> QED
      BY <3>4 DEF m
  <2>18. \A w \in Points(n) : Numbers(Source(t.io, a * b, t.direction, w, x[source]), a * b)
    <3>1. Full(x[source], Size(t))
      BY <1>5 DEF Ready, size
    <3> QED
      BY <1>0, <3>1, FullSource DEF n
  <2>19. Transformed(t.io, a * b, t.direction, t.scale, n, x[source], x5[target])
    BY <1>0, <1>1, <2>1, <2>7, <2>13, <2>16, <2>17, <2>18, CooleyTukeyIsFourier
  <2>20. Fulfilled(t, x[source], x5[target])
    BY <1>0, <2>19 DEF Fulfilled, n
  <2> QED
    BY <2>14, <2>15, <2>20
<1>6. Computes(c, source, target, A, tables, t)
  BY <1>4, <1>5, <1>q DEF Computes, size
<1> QED
  BY <1>6 DEF A

\* The left child of a Cooley-Tukey node, composed with the twiddle pass and the scatter
\* pass (fused_fft_rader_left_stockham of src/src/recursive_ir.rs).
LeftTask(a, b, t) == Task(CooleyLeft(a, b, t.io), a, t.direction, t.scale, t.lines)

LEMMA LeftTaskFacts ==
    ASSUME NEW a \in Positive, NEW b \in Positive, NEW t, IsTask(t), t.len = a * b,
           t.io = Contiguous \/ (\E c, d \in Positive : t.io = FourStepLeft(c, d))
    PROVE  /\ IsTask(LeftTask(a, b, t)) /\ Batches(LeftTask(a, b, t)) = Batches(t) * b
           /\ Size(LeftTask(a, b, t)) = Size(t)
<1> DEFINE io == CooleyLeft(a, b, t.io)  t2 == LeftTask(a, b, t)  n == Batches(t)
<1>0. /\ a \in Nat /\ b \in Nat /\ n \in Nat /\ Divides(a * b) /\ Divides(a) /\ t.lines \in Nat
      /\ a * b \in Positive
  <2>1. a \in Nat /\ b \in Nat /\ n \in Nat /\ t.len = a * b /\ Divides(a * b)
    BY TaskNumbers DEF Positive, IsTask
  <2>2. Divides(a)
    BY <2>1, DividesPart
  <2> QED
    BY <2>1, <2>2, PositiveTimes DEF IsTask
<1>1. /\ t2.io = io /\ t2.len = a /\ t2.direction = t.direction /\ t2.scale = t.scale
      /\ t2.lines = t.lines
  BY DEF LeftTask, Task
<1>2. io.kind = "CooleyLeft" /\ io.a = a /\ io.b = b /\ io.outer = t.io
  BY DEF CooleyLeft
<1> HIDE DEF io, t2, n
<1>3. t.io.kind \in {"Contiguous", "FourStepLeft"}
  <2>1. CASE t.io = Contiguous
    <3>1. Contiguous.kind = "Contiguous"
      BY DEF Contiguous
    <3> QED
      BY <2>1, <3>1
  <2>2. CASE \E c, d \in Positive : t.io = FourStepLeft(c, d)
    <3>1. PICK c, d \in Positive : t.io = FourStepLeft(c, d)
      BY <2>2
    <3>2. FourStepLeft(c, d).kind = "FourStepLeft"
      BY DEF FourStepLeft
    <3> QED
      BY <3>1, <3>2
  <2> QED
    BY <2>1, <2>2
<1>4. IsUpload(t.io, a * b)
  <2>1. IsMapping(t.io, a * b)
    BY <1>0 DEF IsTask
  <2> DEFINE z == t.io
  <2>2. \A x, y, o : /\ CooleyRight(x, y).kind = "CooleyRight"
                    /\ CooleyLeft(x, y, o).kind = "CooleyLeft"
    BY DEF CooleyRight, CooleyLeft
  <2>3. \A x, y, o : z # CooleyRight(x, y) /\ z # CooleyLeft(x, y, o)
    BY <1>3, <2>2
  <2>4. IsMapping(z, a * b)
    BY <2>1
  <2> HIDE DEF z
  <2>5. IsUpload(z, a * b)
    BY <2>3, <2>4 DEF IsMapping
  <2> QED
    BY <2>5 DEF z
<1> USE DEF io, t2, n
<1>5. IsMapping(io, a)
  BY <1>4 DEF IsMapping
<1>6. PerLine(io) = PerLine(t.io) * b /\ PerLine(t.io) \in Nat
  <2>1. PerLine(t.io) = PerLineOf(t.io) /\ PerLineOf(t.io) \in Nat
    BY <1>0, <1>3, <1>4, PerLineType DEF PerLine
  <2> QED
    BY <1>2, <2>1 DEF PerLine
<1> HIDE DEF io, t2
<1>7. Batches(t2) = n * b
  <2> DEFINE p == PerLine(t.io)
  <2>1. n = t.lines * p /\ Batches(t2) = t.lines * (p * b) /\ p \in Nat
    BY <1>1, <1>6 DEF Batches
  <2> HIDE DEF n, p
  <2> QED
    BY <1>0, <2>1
<1>8. Size(t2) = Size(t)
  <2>1. Size(t2) = (n * b) * a /\ Size(t) = n * (a * b)
    BY <1>1, <1>7 DEF Size
  <2> HIDE DEF n
  <2> QED
    BY <1>0, <2>1
<1>9. Turning(io, a, n * b)
  <2> SUFFICES ASSUME NEW batch \in Points(n * b), NEW i \in Points(a)
               PROVE  output_turn(io, batch, i)[1] \in Int /\ Divides(output_turn(io, batch, i)[2])
    BY DEF Turning
  <2>1. output_turn(io, batch, i) = <<0, 1>>
    BY <1>2 DEF output_turn
  <2>2. Divides(1)
    <3>1. 1 \in Positive /\ Q + 1 \in Positive /\ Q + 1 = 1 * (Q + 1)
      BY Modulus DEF Positive
    <3> QED
      BY <3>1 DEF Divides
  <2> QED
    BY <2>1, <2>2
<1>10. ReadTurning(io, a, n * b)
  <2> SUFFICES ASSUME NEW batch \in Points(n * b), NEW i \in Points(a)
               PROVE  input_turn(io, batch, i)[1] \in Int /\ Divides(input_turn(io, batch, i)[2])
    BY DEF ReadTurning
  <2>1. input_turn(io, batch, i) = <<i * (batch % b), a * b>>
    BY <1>2 DEF input_turn
  <2>2. batch \in Nat /\ i \in Nat
    BY DEF Points
  <2>3. batch % b \in Nat
    BY <2>2, DivMod DEF Points
  <2> QED
    BY <1>0, <2>1, <2>2, <2>3
<1>11. IsTask(t2)
  BY <1>0, <1>1, <1>5, <1>7, <1>9, <1>10 DEF IsTask
<1> QED
  BY <1>7, <1>8, <1>11 DEF t2

\* A Cooley-Tukey node of that kind: the pack pass, the right child, and the left child
\* through the composed mapping.
THEOREM FusedCooleyTukeyComputes ==
    ASSUME NEW a \in Positive, NEW b \in Positive, NEW t, IsTask(t), t.len = a * b,
           t.io = Contiguous \/ (\E c, d \in Positive : t.io = FourStepLeft(c, d)),
           NEW ir, Branch(ir, t.io, a, b, t.direction, Batches(t)), ir.batches = Batches(t),
           NEW source, NEW target, NEW right, NEW result, NEW r, NEW l, NEW R, NEW L, NEW tables,
           Computes(r, right, result, R, tables, Lines(b, t.direction, t.scale, Batches(t) * a)),
           Computes(l, result, target, L, tables, LeftTask(a, b, t)),
           right \notin R, result \notin L
    PROVE  Computes((<<Between("PackRightInput", ir, source, right)>> \o r) \o l, source, target,
                    {right} \cup R \cup L, tables, t)
<1> DEFINE pack == Between("PackRightInput", ir, source, right)
           n == Batches(t)  A == {right} \cup R \cup L  size == Size(t)
           tr == Lines(b, t.direction, t.scale, n * a)  tl == LeftTask(a, b, t)
           c2 == <<pack>> \o r  c == c2 \o l
<1>0. /\ a \in Nat /\ b \in Nat /\ n \in Nat /\ n * a \in Nat
      /\ size = n * (a * b) /\ t.len = a * b /\ Divides(a * b) /\ Divides(b)
  <2>1. a \in Nat /\ b \in Nat /\ n \in Nat /\ t.len = a * b /\ Divides(a * b)
    BY TaskNumbers DEF Positive, IsTask
  <2>2. Divides(b)
    BY <2>1, DividesPart
  <2> QED
    BY <2>1, <2>2, Times DEF Size
<1>1. IsTask(tr) /\ Size(tr) = size
  <2>1. IsTask(tr) /\ Size(tr) = (n * a) * b
    <3> HIDE DEF n
    <3> QED
      BY <1>0, LinesTask
  <2> HIDE DEF n, tr, size
  <2> QED
    BY <1>0, <2>1
<1>2. IsTask(tl) /\ Size(tl) = size /\ Batches(tl) = n * b
  BY LeftTaskFacts
<1>3. IsPasses(r) /\ IsPasses(l) /\ result \in R /\ target \in L
  BY DEF Computes
<1>4. /\ right \in A /\ result \in A /\ target \in A
      /\ {right} \subseteq A /\ R \subseteq A /\ L \subseteq A
  BY <1>3
<1>c. Computes(r, right, result, R, tables, tr) /\ Computes(l, result, target, L, tables, tl)
  OBVIOUS
<1>p. IsPasses(<<pack>>)
  <2> DEFINE q == pack
  <2> HIDE DEF q
  <2>1. <<q>> \in Seq({q})
    OBVIOUS
  <2> QED
    BY <2>1 DEF IsPasses, q
<1>q. IsPasses(c2) /\ IsPasses(c)
  <2>1. IsPasses(c2)
    BY <1>3, <1>p, Concatenated
  <2> HIDE DEF c2
  <2> QED
    BY <1>3, <2>1, Concatenated
<1> HIDE DEF A, tr, tl, n, size, c, c2, pack
<1>5. ASSUME NEW x, Ready(x, source, A, tables, size)
      PROVE  \E z : Reaches(c, x, z) /\ Kept(x, z, A) /\ Fulfilled(t, x[source], z[target])
  <2> DEFINE x1 == AfterPass(x, pack)
  <2>1. /\ Reaches(<<pack>>, x, x1) /\ Kept(x, x1, {right})
        /\ \A w \in Points(n) : Holds(x1[right], PackRightInput(ir, w, x[source], << >>))
        /\ Full(x1[right], size)
    <3>1. Ready(x, source, {right}, tables, size)
      BY <1>4, <1>5, ReadyFor
    <3> QED
      BY <1>0, <3>1, PackStep DEF n, size, pack
  <2> HIDE DEF x1
  <2>2. Ready(x1, source, A, tables, size)
    BY <1>4, <1>5, <2>1, ReadyStill
  <2>3. Ready(x1, right, R, tables, Size(tr))
    BY <1>1, <1>4, <2>1, <2>2, ReadyFrom
  <2>4. PICK x2 : Reaches(r, x1, x2) /\ Kept(x1, x2, R) /\ Fulfilled(tr, x1[right], x2[result])
    BY <1>c, <2>3, ComputesFrom
  <2>5. Full(x2[result], size)
    BY <1>1, <2>1, <2>4, FullResult
  <2>6. Ready(x2, source, A, tables, size)
    BY <1>4, <2>2, <2>4, ReadyStill
  <2>7. Ready(x2, result, L, tables, Size(tl))
    BY <1>2, <1>4, <2>5, <2>6, ReadyFrom
  <2>8. PICK x3 : Reaches(l, x2, x3) /\ Kept(x2, x3, L) /\ Fulfilled(tl, x2[result], x3[target])
    BY <1>c, <2>7, ComputesFrom
  <2>9. Reaches(c, x, x3)
    <3>1. Reaches(c2, x, x2)
      BY <1>3, <1>p, <2>1, <2>4, ReachesThen DEF c2
    <3> QED
      BY <1>3, <1>q, <2>8, <3>1, ReachesThen DEF c
  <2>10. Kept(x, x3, A)
    <3>1. Kept(x, x1, A) /\ Kept(x1, x2, A) /\ Kept(x2, x3, A)
      BY <1>4, <2>1, <2>4, <2>8, KeptWithin
    <3> QED
      BY <3>1, KeptOn
  <2>11. LinesTransformed(b, t.direction, t.scale, n * a, x1[right], x2[result])
    <3>1. size = (n * a) * b
      BY <1>0
    <3> DEFINE m == n * a
    <3>2. m \in Nat /\ Full(x1[right], m * b)
      BY <1>0, <2>1, <3>1
    <3>3. Fulfilled(Lines(b, t.direction, t.scale, m), x1[right], x2[result])
      BY <2>4 DEF tr
    <3> HIDE DEF m
    <3>4. LinesTransformed(b, t.direction, t.scale, m, x1[right], x2[result])
      BY <1>0, <3>2, <3>3, FulfilledLines
    <3> QED
      BY <3>4 DEF m
  <2>12. Transformed(CooleyLeft(a, b, t.io), a, t.direction, t.scale, n * b, x2[result], x3[target])
    <3>1. /\ tl.io = CooleyLeft(a, b, t.io) /\ tl.len = a /\ tl.direction = t.direction
          /\ tl.scale = t.scale
      BY DEF tl, LeftTask, Task
    <3> QED
      BY <1>2, <2>8, <3>1 DEF Fulfilled
  <2>13. \A w \in Points(n) : Numbers(Source(t.io, a * b, t.direction, w, x[source]), a * b)
    <3>1. Full(x[source], Size(t))
      BY <1>5 DEF Ready, size
    <3> QED
      BY <1>0, <3>1, FullSource DEF n
  <2>14. Transformed(t.io, a * b, t.direction, t.scale, n, x[source], x3[target])
    <3>1. Branch(ir, t.io, a, b, t.direction, n)
      BY DEF n
    <3> QED
      BY <1>0, <2>1, <2>11, <2>12, <2>13, <3>1, FusedCooleyTukeyIsFourier
  <2>15. Fulfilled(t, x[source], x3[target])
    BY <1>0, <2>14 DEF Fulfilled, n
  <2> QED
    BY <2>9, <2>10, <2>15
<1>6. Computes(c, source, target, A, tables, t)
  BY <1>3, <1>4, <1>5, <1>q DEF Computes, size
<1> QED
  BY <1>6 DEF A, c, c2, pack

-----------------------------------------------------------------------------
(* Composed programs on the device.                                        *)

\* A device that executes passes that compute a task, on memory that is ready for them,
\* keeps its workgroups apart, stores nothing it has not computed, and ends with the task
\* fulfilled, in whatever order the workgroups run.
THEOREM DeviceComputes ==
    ASSUME NEW p, NEW source, NEW target, NEW written, NEW tables, NEW t,
           Computes(p.passes, source, target, written, tables, t),
           NEW contents, Ready(contents, source, written, tables, Size(t))
    PROVE  Device(p, contents)
             => [](/\ WorkgroupsIndependent /\ NothingFromUnwritten
                   /\ ~Running => Fulfilled(t, contents[source], memory[target]))
<1>1. PICK z : Reaches(p.passes, contents, z) /\ Fulfilled(t, contents[source], z[target])
  BY ComputesFrom
<1>2. IsPasses(p.passes) /\ IsMemory(contents)
  BY ComputesFrom DEF Ready
<1>3. Leaves(p, contents, z)
  BY <1>1, <1>2, ReachesLeaves
<1> DEFINE before == contents[source]
<1>4. Fulfilled(t, before, z[target])
  BY <1>1
<1> HIDE DEF before
<1>5. ASSUME memory = z PROVE Fulfilled(t, before, memory[target])
  BY <1>4, <1>5
<1> QED
  BY <1>3, <1>5, PTL DEF Leaves, before

=============================================================================
