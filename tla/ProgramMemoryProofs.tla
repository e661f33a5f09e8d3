------------------------- MODULE ProgramMemoryProofs -------------------------
(* Theorems about ProgramMemory, for every set of programs.                *)
EXTENDS ProgramMemory, FiniteSetTheorems, SequenceTheorems, TLAPS

ResourceKinds == {"Input", "Output", "Scratch", "LookupTable"}

AllocationTypes ==
    [kind : ResourceKinds, scalar : Scalars, elements : Nat,
     resources : Seq(ResourceIds(program))]

LifetimeTypes ==
    [resource : OfKind(program, "Scratch"),
     first : PassIds(program), last : PassIds(program)]

-----------------------------------------------------------------------------
(* Programs.                                                               *)

\* Every nonempty set of natural numbers has a least element.
LEMMA Least ==
    ASSUME NEW S, S \subseteq Nat, S # {}
    PROVE  \E x \in S : \A y \in S : x <= y
<1> DEFINE Rel == OpToRel(<, Nat)
<1>1. PICK x \in S : \A y \in S : <<y, x>> \notin Rel
  BY NatLessThanWellFounded, WFMin
<1>2. \A y \in S : <<y, x>> \in Rel <=> y < x
  BY DEF OpToRel
<1> HIDE DEF Rel
<1>3. \A y \in S : ~ (y < x)
  BY <1>1, <1>2
<1>4. S \subseteq Nat
  OBVIOUS
<1> QED
  BY <1>3, <1>4

\* The fields of a program, its resources and its bindings.
LEMMA ProgramTypes ==
    ASSUME program \in Programs
    PROVE  /\ program \in ProgramIrs
           /\ Len(program.resources) \in Nat
           /\ ResourceIds(program) = 1 .. Len(program.resources)
           /\ Len(program.passes) \in Nat
           /\ PassIds(program) = 1 .. Len(program.passes)
           /\ \A i \in ResourceIds(program) : Resource(i) \in Resources
           /\ \A n \in PassIds(program) :
                 /\ program.passes[n] \in Seq(Bindings)
                 /\ \A m \in DOMAIN program.passes[n] :
                       /\ m \in Nat
                       /\ Binding(n, m) \in Bindings
<1>1. program \in ProgramIrs
  BY ProgramsAssumption
<1>2. /\ program.resources \in Seq(Resources)
      /\ program.passes \in Seq(Seq(Bindings))
  BY <1>1 DEF ProgramIrs
<1>3. /\ Len(program.resources) \in Nat
      /\ ResourceIds(program) = 1 .. Len(program.resources)
      /\ \A i \in ResourceIds(program) : Resource(i) \in Resources
  BY <1>2, LenProperties, ElementOfSeq DEF ResourceIds, Resource
<1>4. /\ Len(program.passes) \in Nat
      /\ PassIds(program) = 1 .. Len(program.passes)
      /\ \A n \in PassIds(program) : program.passes[n] \in Seq(Bindings)
  BY <1>2, LenProperties, ElementOfSeq DEF PassIds
<1>5. ASSUME NEW n \in PassIds(program), NEW m \in DOMAIN program.passes[n]
      PROVE  m \in Nat /\ Binding(n, m) \in Bindings
  BY <1>4, <1>5, LenProperties, ElementOfSeq DEF Binding
<1> QED
  BY <1>1, <1>3, <1>4, <1>5

-----------------------------------------------------------------------------
(* The inductive invariant.                                                *)

\* The tables that share an allocation.
SameTable(i, j) ==
    /\ Resource(i).kind = "LookupTable" /\ Resource(j).kind = "LookupTable"
    /\ Resource(i).scalar = Resource(j).scalar
    /\ Resource(i).init = Resource(j).init
    /\ Resource(i).table = Resource(j).table

\* Scratch resource j takes over after the last pass that uses i, and is
\* overwritten first.
Follows(i, j) ==
    /\ Resource(i).kind = "Scratch" /\ Resource(j).kind = "Scratch"
    /\ \A n, k \in PassIds(program) : Binds(n, i) /\ Binds(k, j) => n < k
    /\ can_alias(j)

\* Two resources share an allocation only as equal tables or one after the
\* other.
Shared ==
    \A i, j \in ResourceIds(program) :
       /\ i # j
       /\ resource_allocations[i] # Unassigned
       /\ resource_allocations[i] = resource_allocations[j]
       => SameTable(i, j) \/ Follows(i, j) \/ Follows(j, i)

\* The resources of an allocation and the allocation of a resource agree.
Linked ==
    /\ \A a \in DOMAIN allocations :
          /\ allocations[a].resources # <<>>
          /\ \A k \in DOMAIN allocations[a].resources :
                resource_allocations[allocations[a].resources[k]] = a
    /\ \A i \in ResourceIds(program) :
          resource_allocations[i] # Unassigned
             => LET rs == allocations[resource_allocations[i]].resources IN
                \E k \in DOMAIN rs : rs[k] = i

\* The resources the planner has not reached yet.
Pending(i) ==
    \/ step = "external"
       /\ (i >= next \/ Resource(i).kind \in {"Scratch", "LookupTable"})
    \/ step = "table"
       /\ \/ Resource(i).kind = "Scratch"
          \/ Resource(i).kind = "LookupTable" /\ i >= next
    \/ step = "lifetime"
       /\ Resource(i).kind = "Scratch"
       /\ (i >= next \/ \E t \in lifetimes : t.resource = i)
    \/ step = "assign" /\ \E t \in lifetimes : t.resource = i

Planned ==
    \A i \in ResourceIds(program) :
       resource_allocations[i] = Unassigned <=> Pending(i)

Lifetimes ==
    /\ \A t \in lifetimes : IsLifetime(t.resource, t.first, t.last)
    /\ \A t, u \in lifetimes : t.resource = u.resource => t = u
    /\ step \notin {"lifetime", "assign"} => lifetimes = {}
    /\ step = "lifetime" => \A t \in lifetimes : t.resource < next

\* The last pass of a slot is the last pass of all its users.
Slots ==
    /\ \A s \in DOMAIN scratch_slots : \A i \in ResourceIds(program) :
          resource_allocations[i] = scratch_slots[s].allocation =>
             /\ Resource(i).kind = "Scratch"
             /\ \A n \in PassIds(program) :
                   Binds(n, i) => n <= scratch_slots[s].last
    /\ \A s, q \in DOMAIN scratch_slots :
          scratch_slots[s].allocation = scratch_slots[q].allocation => s = q

Sizes ==
    \A i \in ResourceIds(program) :
       resource_allocations[i] # Unassigned =>
          LET alloc == allocations[resource_allocations[i]]
              first == Resource(alloc.resources[1]) IN
          /\ Resource(i).elements <= alloc.elements
          /\ alloc.scalar = first.scalar
          /\ Resource(i).kind = "Scratch" => Resource(i).shape = first.shape

PlanInv ==
    validate(program) /\ Shared /\ Linked /\ Planned /\ Lifetimes /\ Slots
       /\ Sizes

\* What an allocation holds: what its last writer left, or the preparation.
Holds(a) ==
    \/ /\ \A k \in finished : WrittenIn(k, a) = {}
       /\ memory[a] = Prepared(a)
    \/ \E w \in finished :
          /\ WrittenIn(w, a) # {}
          /\ \A k \in finished : k > w => WrittenIn(k, a) = {}
          /\ memory[a] = [origin |-> "pass", of |-> WrittenIn(w, a), by |-> w]

\* At most the pass started last is running.
RunInv ==
    /\ step \in PlanSteps => started = 0 /\ finished = {}
    /\ step \in {"run", "done"} =>
          /\ DOMAIN memory = DOMAIN allocations
          /\ \A a \in DOMAIN allocations : Holds(a)
    /\ step = "done" => finished = PassIds(program)
    /\ \/ finished = 1 .. started
       \/ started >= 1 /\ finished = 1 .. started - 1

-----------------------------------------------------------------------------
(* Type correctness.                                                       *)

PlanTypes ==
    /\ allocations \in Seq(AllocationTypes)
    /\ resource_allocations \in
          [ResourceIds(program) -> {Unassigned} \cup DOMAIN allocations]

LEMMA AllocationType ==
    ASSUME program \in Programs, NEW i \in ResourceIds(program)
    PROVE  Allocation(i) \in AllocationTypes
<1>1. Resource(i) \in Resources /\ <<i>> \in Seq(ResourceIds(program))
  BY ProgramTypes
<1> QED
  BY <1>1 DEF Allocation, AllocationTypes, Resources, ResourceKinds

\* A dedicated allocation is appended and its resource is assigned to it.
LEMMA Added ==
    ASSUME program \in Programs, PlanTypes, NEW i \in ResourceIds(program),
           add_dedicated(i), program' = program
    PROVE  LET new == Len(allocations) + 1 IN
           /\ PlanTypes'
           /\ Len(allocations) \in Nat
           /\ DOMAIN allocations = 1 .. Len(allocations)
           /\ DOMAIN allocations' = 1 .. new
           /\ allocations'[new] = Allocation(i)
           /\ \A a \in DOMAIN allocations : allocations'[a] = allocations[a]
           /\ resource_allocations'[i] = new
           /\ \A j \in ResourceIds(program) \ {i} :
                 resource_allocations'[j] = resource_allocations[j]
<1> DEFINE new == Len(allocations) + 1
<1>1. allocations \in Seq(AllocationTypes) /\ Allocation(i) \in AllocationTypes
  BY AllocationType DEF PlanTypes
<1>2. /\ Len(allocations) \in Nat
      /\ DOMAIN allocations = 1 .. Len(allocations)
  BY <1>1, LenProperties
<1>3. allocations' = Append(allocations, Allocation(i))
  BY DEF add_dedicated
<1>4. /\ allocations' \in Seq(AllocationTypes)
      /\ Len(allocations') = new
      /\ allocations'[new] = Allocation(i)
      /\ \A a \in 1 .. Len(allocations) : allocations'[a] = allocations[a]
  BY <1>1, <1>2, <1>3, AppendProperties
<1>5. DOMAIN allocations' = 1 .. new
  BY <1>4, LenProperties
<1>6. AllocationTypes' = AllocationTypes
  BY DEF AllocationTypes, ResourceIds
<1>7. /\ resource_allocations \in
            [ResourceIds(program) -> {Unassigned} \cup DOMAIN allocations]
      /\ resource_allocations' = [resource_allocations EXCEPT ![i] = new]
  BY DEF PlanTypes, add_dedicated
<1>8. resource_allocations' \in
         [ResourceIds(program) -> {Unassigned} \cup DOMAIN allocations']
  BY <1>2, <1>5, <1>7
<1>9. /\ resource_allocations'[i] = new
      /\ \A j \in ResourceIds(program) \ {i} :
            resource_allocations'[j] = resource_allocations[j]
  BY <1>7
<1>10. ResourceIds(program') = ResourceIds(program)
  BY DEF ResourceIds
<1>11. PlanTypes'
  BY <1>4, <1>6, <1>8, <1>10 DEF PlanTypes
<1> QED
  BY <1>2, <1>4, <1>5, <1>9, <1>11

\* A joined allocation gets one more resource and its new size.
LEMMA Joined ==
    ASSUME program \in Programs, PlanTypes, NEW i \in ResourceIds(program),
           NEW a \in DOMAIN allocations, NEW e \in Nat, Join(i, a, e),
           program' = program
    PROVE  /\ PlanTypes'
           /\ DOMAIN allocations' = DOMAIN allocations
           /\ Len(allocations') = Len(allocations)
           /\ allocations'[a].elements = e
           /\ allocations'[a].scalar = allocations[a].scalar
           /\ allocations'[a].resources = Append(allocations[a].resources, i)
           /\ \A b \in DOMAIN allocations \ {a} : allocations'[b] = allocations[b]
           /\ resource_allocations'[i] = a
           /\ \A j \in ResourceIds(program) \ {i} :
                 resource_allocations'[j] = resource_allocations[j]
<1> DEFINE new == [allocations[a] EXCEPT !.elements = e,
                                         !.resources = Append(@, i)]
<1>1. /\ allocations \in Seq(AllocationTypes)
      /\ DOMAIN allocations = 1 .. Len(allocations)
      /\ allocations[a] \in AllocationTypes
  BY LenProperties, ElementOfSeq DEF PlanTypes
<1>2. allocations[a].resources \in Seq(ResourceIds(program))
  BY <1>1 DEF AllocationTypes
<1>3. Append(allocations[a].resources, i) \in Seq(ResourceIds(program))
  BY <1>2, AppendProperties
<1>4. /\ new \in AllocationTypes
      /\ new.elements = e
      /\ new.scalar = allocations[a].scalar
      /\ new.resources = Append(allocations[a].resources, i)
  BY <1>1, <1>3 DEF AllocationTypes
<1>5. allocations' = [allocations EXCEPT ![a] = new]
  BY DEF Join
<1> HIDE DEF new
<1>6. /\ allocations' \in Seq(AllocationTypes)
      /\ Len(allocations') = Len(allocations)
      /\ \A b \in 1 .. Len(allocations) :
            allocations'[b] = IF b = a THEN new ELSE allocations[b]
  BY <1>1, <1>4, <1>5, ExceptSeq
<1>7. DOMAIN allocations' = DOMAIN allocations
  BY <1>1, <1>6, LenProperties
<1>8. AllocationTypes' = AllocationTypes /\ ResourceIds(program') = ResourceIds(program)
  BY DEF AllocationTypes, ResourceIds
<1>9. /\ resource_allocations \in
            [ResourceIds(program) -> {Unassigned} \cup DOMAIN allocations]
      /\ resource_allocations' = [resource_allocations EXCEPT ![i] = a]
  BY DEF PlanTypes, Join
<1>10. /\ resource_allocations' \in
            [ResourceIds(program) -> {Unassigned} \cup DOMAIN allocations']
       /\ resource_allocations'[i] = a
       /\ \A j \in ResourceIds(program) \ {i} :
             resource_allocations'[j] = resource_allocations[j]
  BY <1>7, <1>9
<1>11. PlanTypes'
  BY <1>6, <1>8, <1>10 DEF PlanTypes
<1> QED
  BY <1>1, <1>4, <1>6, <1>7, <1>10, <1>11

SlotTypes ==
    scratch_slots \in Seq([allocation : DOMAIN allocations,
                           last : PassIds(program)])

RunTypes ==
    /\ memory \in Seq(Contents)
    /\ started \in 0 .. Len(program.passes)
    /\ finished \subseteq 1 .. started

LEMMA TypeParts ==
    TypeOK <=> /\ program \in Programs
               /\ step \in PlanSteps \cup {"run", "done"}
               /\ next \in ResourceIds(program)
               /\ lifetimes \subseteq LifetimeTypes
               /\ PlanTypes /\ SlotTypes /\ RunTypes
  BY DEF TypeOK, LifetimeTypes, PlanTypes, SlotTypes, RunTypes,
         AllocationTypes, ResourceKinds

LEMMA TypePartsAfter ==
    ASSUME program' \in Programs,
           step' \in PlanSteps \cup {"run", "done"},
           next' \in ResourceIds(program'),
           lifetimes' \subseteq LifetimeTypes',
           PlanTypes', SlotTypes', RunTypes'
    PROVE  TypeOK'
  BY DEF TypeOK, LifetimeTypes, PlanTypes, SlotTypes, RunTypes,
         AllocationTypes, ResourceKinds

\* The size of an allocation is a number.
LEMMA ElementsType ==
    ASSUME PlanTypes, NEW a \in DOMAIN allocations
    PROVE  /\ allocations[a] \in AllocationTypes
           /\ allocations[a].elements \in Nat
           /\ allocations[a].resources \in Seq(ResourceIds(program))
<1>1. allocations \in Seq(AllocationTypes)
  BY DEF PlanTypes
<1>2. allocations[a] \in AllocationTypes
  BY <1>1, LenProperties, ElementOfSeq
<1> QED
  BY <1>2 DEF AllocationTypes

LEMMA SlotTypesKept ==
    ASSUME SlotTypes, program' = program, scratch_slots' = scratch_slots,
           DOMAIN allocations \subseteq DOMAIN allocations'
    PROVE  SlotTypes'
<1> DEFINE Before0 == [allocation : DOMAIN allocations, last : PassIds(program)]
           After0  == [allocation : DOMAIN allocations', last : PassIds(program)]
<1>1. Before0 \subseteq After0
  OBVIOUS
<1>2. scratch_slots \in Seq(Before0)
  BY DEF SlotTypes
<1> HIDE DEF Before0, After0
<1>3. scratch_slots \in Seq(After0)
  BY <1>1, <1>2, SeqMonotonic
<1> QED
  BY <1>3 DEF SlotTypes, After0, PassIds

LEMMA AdvanceType ==
    ASSUME TypeOK, NEW to \in PlanSteps, Advance(to), program' = program
    PROVE  /\ step' \in PlanSteps \cup {"run", "done"}
           /\ next' \in ResourceIds(program')
<1>1. /\ program \in Programs
      /\ next \in ResourceIds(program)
      /\ step \in PlanSteps \cup {"run", "done"}
  BY DEF TypeOK
<1>2. /\ Len(program.resources) \in Nat
      /\ ResourceIds(program) = 1 .. Len(program.resources)
  BY <1>1, ProgramTypes
<1>3. ResourceIds(program') = ResourceIds(program)
  BY DEF ResourceIds
<1> QED
  BY <1>1, <1>2, <1>3 DEF Advance

LEMMA PlanExternalType ==
    ASSUME TypeOK, PlanExternal PROVE TypeOK'
<1>1. PlanTypes' /\ DOMAIN allocations \subseteq DOMAIN allocations'
  <2>1. CASE add_dedicated(next)
    BY <2>1, TypeParts, Added DEF PlanExternal
  <2>2. CASE UNCHANGED <<allocations, resource_allocations>>
    BY <2>2, TypeParts DEF PlanExternal, PlanTypes, AllocationTypes, ResourceIds
  <2> QED
    BY <2>1, <2>2 DEF PlanExternal
<1>2. SlotTypes'
  BY <1>1, TypeParts, SlotTypesKept DEF PlanExternal
<1>3. step' \in PlanSteps \cup {"run", "done"} /\ next' \in ResourceIds(program')
  BY AdvanceType DEF PlanExternal, PlanSteps
<1>4. LifetimeTypes' = LifetimeTypes
  BY DEF PlanExternal, LifetimeTypes, OfKind, ResourceIds, PassIds
<1>5. RunTypes' /\ lifetimes' \subseteq LifetimeTypes' /\ program' \in Programs
  BY <1>4, TypeParts DEF PlanExternal, RunTypes, runVars
<1> QED
  BY <1>1, <1>2, <1>3, <1>5, TypePartsAfter

\* The first table with the values of another one is already planned.
LEMMA PlanTableType ==
    ASSUME TypeOK, Planned, PlanTable PROVE TypeOK'
<1>1. PlanTypes' /\ DOMAIN allocations \subseteq DOMAIN allocations'
  <2>1. CASE add_dedicated(next)
    BY <2>1, TypeParts, Added DEF PlanTable
  <2>2. ASSUME NEW c \in SameTables(next),
               Join(next, resource_allocations[c],
                    allocations[resource_allocations[c]].elements)
        PROVE  PlanTypes' /\ DOMAIN allocations' = DOMAIN allocations
    <3>1. resource_allocations[c] \in DOMAIN allocations
      <4>1. /\ c \in ResourceIds(program) /\ c < next
            /\ Resource(c).kind = "LookupTable"
        BY TypeParts, ProgramTypes DEF SameTables
      <4>2. resource_allocations[c] # Unassigned
        BY <4>1, TypeParts, ProgramTypes DEF Planned, Pending, PlanTable
      <4> QED
        BY <4>1, <4>2, TypeParts DEF PlanTypes
    <3>2. allocations[resource_allocations[c]].elements \in Nat
      BY <3>1, TypeParts, ElementsType
    <3> QED
      BY <2>2, <3>1, <3>2, TypeParts, Joined DEF PlanTable
  <2>3. CASE UNCHANGED <<allocations, resource_allocations>>
    BY <2>3, TypeParts DEF PlanTable, PlanTypes, AllocationTypes, ResourceIds
  <2> QED
    BY <2>1, <2>2, <2>3 DEF PlanTable
<1>2. SlotTypes'
  BY <1>1, TypeParts, SlotTypesKept DEF PlanTable
<1>3. step' \in PlanSteps \cup {"run", "done"} /\ next' \in ResourceIds(program')
  BY AdvanceType DEF PlanTable, PlanSteps
<1>4. LifetimeTypes' = LifetimeTypes
  BY DEF PlanTable, LifetimeTypes, OfKind, ResourceIds, PassIds
<1>5. RunTypes' /\ lifetimes' \subseteq LifetimeTypes' /\ program' \in Programs
  BY <1>4, TypeParts DEF PlanTable, RunTypes, runVars
<1> QED
  BY <1>1, <1>2, <1>3, <1>5, TypePartsAfter

LEMMA PlanLifetimeType ==
    ASSUME TypeOK, PlanLifetime PROVE TypeOK'
<1>1. PlanTypes' /\ DOMAIN allocations \subseteq DOMAIN allocations'
  <2>1. CASE add_dedicated(next)
    BY <2>1, TypeParts, Added DEF PlanLifetime
  <2>2. CASE UNCHANGED <<allocations, resource_allocations>>
    BY <2>2, TypeParts DEF PlanLifetime, PlanTypes, AllocationTypes, ResourceIds
  <2> QED
    BY <2>1, <2>2 DEF PlanLifetime
<1>2. SlotTypes'
  BY <1>1, TypeParts, SlotTypesKept DEF PlanLifetime
<1>3. step' \in PlanSteps \cup {"run", "done"} /\ next' \in ResourceIds(program')
  BY AdvanceType DEF PlanLifetime, PlanSteps
<1>4. RunTypes' /\ program' \in Programs
  BY TypeParts DEF PlanLifetime, RunTypes, runVars
<1>5. lifetimes' \subseteq LifetimeTypes
  <2>1. lifetimes \subseteq LifetimeTypes /\ next \in ResourceIds(program)
    BY TypeParts
  <2>2. ASSUME Resource(next).kind = "Scratch",
               NEW first \in PassIds(program), NEW last \in PassIds(program)
        PROVE  [resource |-> next, first |-> first, last |-> last] \in LifetimeTypes
    BY <2>1, <2>2 DEF LifetimeTypes, OfKind, Resource
  <2> QED
    BY <2>1, <2>2 DEF PlanLifetime
<1>6. LifetimeTypes' = LifetimeTypes
  BY DEF PlanLifetime, LifetimeTypes, OfKind, ResourceIds, PassIds
<1> QED
  BY <1>1, <1>2, <1>3, <1>4, <1>5, <1>6, TypeParts, TypePartsAfter

SlotType == [allocation : DOMAIN allocations, last : PassIds(program)]

\* A slot names an allocation and a pass.
LEMMA SlotElements ==
    ASSUME SlotTypes, NEW s \in DOMAIN scratch_slots
    PROVE  /\ scratch_slots[s] \in SlotType
           /\ scratch_slots[s].allocation \in DOMAIN allocations
           /\ scratch_slots[s].last \in PassIds(program)
<1>1. scratch_slots \in Seq(SlotType)
  BY DEF SlotTypes, SlotType
<1>2. scratch_slots[s] \in SlotType
  BY <1>1, LenProperties, ElementOfSeq
<1> QED
  BY <1>2 DEF SlotType

\* The size of the allocation that resource i joins.
LEMMA LargerBounds ==
    ASSUME program \in Programs, PlanTypes, NEW a \in DOMAIN allocations,
           NEW i \in ResourceIds(program)
    PROVE  /\ Larger(a, i) \in Nat
           /\ allocations[a].elements <= Larger(a, i)
           /\ Resource(i).elements <= Larger(a, i)
<1>1. allocations[a].elements \in Nat
  BY ElementsType
<1>2. Resource(i).elements \in Nat
  BY ProgramTypes DEF Resources
<1> QED
  BY <1>1, <1>2 DEF Larger

\* The two ways to assign the scratch resource of a lifetime.
NewSlot(t) ==
    /\ Reusable(t) = {}
    /\ add_dedicated(t.resource)
    /\ scratch_slots' = Append(scratch_slots,
          [allocation |-> Len(allocations) + 1, last |-> t.last])

Reuse(t, s) ==
    LET a == scratch_slots[s].allocation IN
    /\ Join(t.resource, a, Larger(a, t.resource))
    /\ scratch_slots' = [scratch_slots EXCEPT ![s].last = t.last]

LEMMA PlanScratchCases ==
    ASSUME TypeOK, PlanScratch
    PROVE  \E t \in lifetimes :
              /\ t \in LifetimeTypes
              /\ lifetimes' = lifetimes \ {t}
              /\ NewSlot(t) \/ \E s \in Reusable(t) : Reuse(t, s)
  BY TypeParts DEF PlanScratch, NewSlot, Reuse

\* A new slot has the new allocation.
LEMMA NewSlotTypes ==
    ASSUME TypeOK, program' = program, NEW t \in LifetimeTypes, NewSlot(t)
    PROVE  /\ SlotTypes'
           /\ DOMAIN scratch_slots = 1 .. Len(scratch_slots)
           /\ Len(scratch_slots) \in Nat
           /\ DOMAIN scratch_slots' = 1 .. Len(scratch_slots) + 1
           /\ \A s \in DOMAIN scratch_slots : scratch_slots'[s] = scratch_slots[s]
           /\ scratch_slots'[Len(scratch_slots) + 1]
                 = [allocation |-> Len(allocations) + 1, last |-> t.last]
<1> DEFINE slot == [allocation |-> Len(allocations) + 1, last |-> t.last]
<1>1. t.resource \in ResourceIds(program) /\ t.last \in PassIds(program)
  BY DEF LifetimeTypes, OfKind
<1>2. /\ DOMAIN allocations = 1 .. Len(allocations)
      /\ Len(allocations) \in Nat
      /\ DOMAIN allocations' = 1 .. Len(allocations) + 1
  BY <1>1, TypeParts, Added DEF NewSlot
<1>3. SlotType' = [allocation : DOMAIN allocations', last : PassIds(program)]
  BY DEF SlotType, PassIds
<1>4. SlotType \subseteq SlotType' /\ slot \in SlotType'
  BY <1>1, <1>2, <1>3 DEF SlotType
<1>5. scratch_slots \in Seq(SlotType)
  BY TypeParts DEF SlotTypes, SlotType
<1>6. scratch_slots \in Seq(SlotType')
  BY <1>4, <1>5, SeqMonotonic
<1>7. scratch_slots' = Append(scratch_slots, slot)
  BY DEF NewSlot
<1> HIDE DEF slot
<1>8. /\ scratch_slots' \in Seq(SlotType')
      /\ Len(scratch_slots') = Len(scratch_slots) + 1
      /\ \A s \in 1 .. Len(scratch_slots) : scratch_slots'[s] = scratch_slots[s]
      /\ scratch_slots'[Len(scratch_slots) + 1] = slot
  BY <1>4, <1>6, <1>7, AppendProperties
<1>9. /\ Len(scratch_slots) \in Nat
      /\ DOMAIN scratch_slots = 1 .. Len(scratch_slots)
      /\ DOMAIN scratch_slots' = 1 .. Len(scratch_slots')
  BY <1>5, <1>8, LenProperties
<1>10. SlotTypes'
  BY <1>8 DEF SlotTypes, SlotType
<1> QED
  BY <1>8, <1>9, <1>10 DEF slot

\* A reused slot keeps its allocation.
LEMMA ReuseTypes ==
    ASSUME TypeOK, program' = program, NEW t \in LifetimeTypes,
           NEW s \in DOMAIN scratch_slots, Reuse(t, s)
    PROVE  /\ SlotTypes'
           /\ DOMAIN scratch_slots' = DOMAIN scratch_slots
           /\ scratch_slots'[s].allocation = scratch_slots[s].allocation
           /\ scratch_slots'[s].last = t.last
           /\ \A q \in DOMAIN scratch_slots \ {s} :
                 scratch_slots'[q] = scratch_slots[q]
<1> DEFINE a == scratch_slots[s].allocation
           slot == [scratch_slots[s] EXCEPT !.last = t.last]
<1>1. t.resource \in ResourceIds(program) /\ t.last \in PassIds(program)
  BY DEF LifetimeTypes, OfKind
<1>2. scratch_slots[s] \in SlotType /\ a \in DOMAIN allocations
  BY TypeParts, SlotElements
<1>3. Larger(a, t.resource) \in Nat
  BY <1>1, <1>2, TypeParts, LargerBounds
<1>4. DOMAIN allocations' = DOMAIN allocations
  BY <1>1, <1>2, <1>3, TypeParts, Joined DEF Reuse
<1>5. SlotType' = SlotType
  BY <1>4 DEF SlotType, PassIds
<1>6. scratch_slots \in Seq(SlotType) /\ s \in 1 .. Len(scratch_slots)
  BY TypeParts, LenProperties DEF SlotTypes, SlotType
<1>7. /\ slot \in SlotType
      /\ slot.allocation = a /\ slot.last = t.last
  BY <1>1, <1>2 DEF SlotType
<1>8. scratch_slots' = [scratch_slots EXCEPT ![s] = slot]
  BY DEF Reuse
<1> HIDE DEF slot
<1>9. /\ scratch_slots' \in Seq(SlotType)
      /\ Len(scratch_slots') = Len(scratch_slots)
      /\ \A q \in 1 .. Len(scratch_slots) :
            scratch_slots'[q] = IF q = s THEN slot ELSE scratch_slots[q]
  BY <1>6, <1>7, <1>8, ExceptSeq
<1>10. DOMAIN scratch_slots = 1 .. Len(scratch_slots)
       /\ DOMAIN scratch_slots' = DOMAIN scratch_slots
  BY <1>6, <1>9, LenProperties
<1>11. SlotTypes'
  BY <1>5, <1>9 DEF SlotTypes, SlotType
<1> QED
  BY <1>7, <1>9, <1>10, <1>11

LEMMA PlanScratchType ==
    ASSUME TypeOK, PlanScratch PROVE TypeOK'
<1>0. /\ program' = program /\ step' = step /\ next' = next
      /\ RunTypes'
  BY TypeParts DEF PlanScratch, RunTypes, runVars
<1>1. PICK t \in lifetimes :
         /\ t \in LifetimeTypes
         /\ lifetimes' = lifetimes \ {t}
         /\ NewSlot(t) \/ \E s \in Reusable(t) : Reuse(t, s)
  BY PlanScratchCases
<1>2. t.resource \in ResourceIds(program)
  BY <1>1 DEF LifetimeTypes, OfKind
<1>3. PlanTypes' /\ SlotTypes'
  <2>1. CASE NewSlot(t)
    BY <1>0, <1>1, <1>2, <2>1, TypeParts, Added, NewSlotTypes DEF NewSlot
  <2>2. ASSUME NEW s \in Reusable(t), Reuse(t, s)
        PROVE  PlanTypes' /\ SlotTypes'
    <3>1. s \in DOMAIN scratch_slots
      BY DEF Reusable
    <3>2. scratch_slots[s].allocation \in DOMAIN allocations
      BY <3>1, TypeParts, SlotElements
    <3>3. Larger(scratch_slots[s].allocation, t.resource) \in Nat
      BY <1>2, <3>2, TypeParts, LargerBounds
    <3>4. PlanTypes'
      BY <1>0, <1>2, <2>2, <3>2, <3>3, TypeParts, Joined DEF Reuse
    <3> QED
      BY <1>0, <1>1, <2>2, <3>1, <3>4, ReuseTypes
  <2> QED
    BY <1>1, <2>1, <2>2
<1>4. LifetimeTypes' = LifetimeTypes /\ ResourceIds(program') = ResourceIds(program)
  BY <1>0 DEF LifetimeTypes, OfKind, ResourceIds, PassIds
<1> QED
  BY <1>0, <1>1, <1>3, <1>4, TypeParts, TypePartsAfter

LEMMA FunctionIsSeq ==
    ASSUME NEW S, NEW n \in Nat, NEW f \in [1 .. n -> S]
    PROVE  f \in Seq(S)
  BY SeqDef

\* What the preparation uploads.
LEMMA PreparedType ==
    ASSUME program \in Programs, PlanTypes, NEW a \in DOMAIN allocations
    PROVE  Prepared(a) \in Contents
<1>1. ASSUME NEW i \in ResourcesOf(a)
      PROVE  TableData(allocations[a].resources[1]) \in Contents
  <2> DEFINE rs == allocations[a].resources
  <2>1. rs \in Seq(ResourceIds(program))
    BY ElementsType
  <2>2. DOMAIN rs = 1 .. Len(rs) /\ Len(rs) \in Nat /\ DOMAIN rs # {}
    BY <1>1, <2>1, LenProperties DEF ResourcesOf
  <2>3. 1 \in 1 .. Len(rs)
    BY <2>2
  <2>4. rs[1] \in ResourceIds(program)
    BY <2>1, <2>3, ElementOfSeq
  <2>5. Resource(rs[1]).table \in Nat
    BY <2>4, ProgramTypes DEF Resources
  <2> QED
    BY <2>5 DEF TableData, Contents
<1>2. InputData \in Contents /\ Zeros \in Contents /\ Stale \in Contents
  BY DEF InputData, Zeros, Stale, Contents
<1> QED
  BY <1>1, <1>2 DEF Prepared

LEMMA PrepareType ==
    ASSUME TypeOK, Prepare PROVE TypeOK'
<1>1. DOMAIN allocations = 1 .. Len(allocations) /\ Len(allocations) \in Nat
  BY TypeParts, LenProperties DEF PlanTypes
<1>2. memory' \in [1 .. Len(allocations) -> Contents]
  BY <1>1, TypeParts, PreparedType DEF Prepare
<1>3. memory' \in Seq(Contents)
  BY <1>1, <1>2, FunctionIsSeq
<1> QED
  BY <1>3 DEF TypeOK, Prepare, planVars, ResourceIds, PassIds, OfKind

LEMMA WrittenInType ==
    ASSUME program \in Programs, NEW n, NEW a
    PROVE  WrittenIn(n, a) \subseteq Nat
  BY ProgramTypes DEF WrittenIn

LEMMA StartPassType ==
    ASSUME TypeOK, StartPass PROVE TypeOK'
<1>1. Len(program.passes) \in Nat
  BY TypeParts, ProgramTypes
<1> QED
  BY <1>1 DEF TypeOK, StartPass, planVars, ResourceIds, PassIds, OfKind

LEMMA FinishPassType ==
    ASSUME TypeOK, FinishPass PROVE TypeOK'
<1>0. /\ program \in Programs /\ memory \in Seq(Contents)
      /\ Len(program.passes) \in Nat
      /\ started \in 0 .. Len(program.passes)
  BY TypeParts, ProgramTypes DEF RunTypes
<1>1. PICK n \in Running :
         /\ finished' = finished \cup {n}
         /\ memory' = [a \in DOMAIN memory |->
                          IF a \in written_allocations(n)
                          THEN [origin |-> "pass", of |-> WrittenIn(n, a),
                                by |-> n]
                          ELSE memory[a]]
  BY DEF FinishPass
<1>2. n \in 1 .. started /\ n \in Nat
  BY <1>0, <1>1 DEF Running
<1>3. /\ DOMAIN memory = 1 .. Len(memory) /\ Len(memory) \in Nat
      /\ \A a \in 1 .. Len(memory) : memory[a] \in Contents
  BY <1>0, LenProperties, ElementOfSeq
<1>4. \A a : [origin |-> "pass", of |-> WrittenIn(n, a), by |-> n] \in Contents
  BY <1>0, <1>2, WrittenInType DEF Contents
<1>5. memory' \in [1 .. Len(memory) -> Contents]
  BY <1>1, <1>3, <1>4
<1>6. memory' \in Seq(Contents)
  BY <1>3, <1>5, FunctionIsSeq
<1>7. finished' \subseteq 1 .. started
  BY <1>1, <1>2 DEF TypeOK
<1> QED
  BY <1>6, <1>7 DEF TypeOK, FinishPass, planVars, ResourceIds, PassIds, OfKind

-----------------------------------------------------------------------------
(* The planner keeps its invariant.                                        *)

\* What depends on the program only.
LEMMA ProgramKept ==
    ASSUME program' = program
    PROVE  /\ ResourceIds(program') = ResourceIds(program)
           /\ PassIds(program') = PassIds(program)
           /\ \A i : Resource(i)' = Resource(i)
           /\ \A n, i : Binds(n, i)' <=> Binds(n, i)
           /\ \A n, i : Uses(n, i, Writing)' <=> Uses(n, i, Writing)
           /\ \A i : can_alias(i)' <=> can_alias(i)
           /\ \A i : zero_fill(i)' <=> zero_fill(i)
           /\ \A i, j : SameTable(i, j)' <=> SameTable(i, j)
           /\ \A i, j : Follows(i, j)' <=> Follows(i, j)
           /\ \A i, f, l : IsLifetime(i, f, l)' <=> IsLifetime(i, f, l)
<1>1. ResourceIds(program') = ResourceIds(program)
  BY DEF ResourceIds
<1>2. PassIds(program') = PassIds(program)
  BY DEF PassIds
<1>3. \A i : Resource(i)' = Resource(i)
  BY DEF Resource
<1>4. \A n, i : Binds(n, i)' <=> Binds(n, i)
  BY DEF Binds, Uses, Binding
<1>5. \A n, i : Uses(n, i, Writing)' <=> Uses(n, i, Writing)
  BY DEF Uses, Binding
<1>6. \A i : can_alias(i)' <=> can_alias(i)
  BY DEF can_alias, FirstAccess, Binds, Uses, Binding, PassIds, Resource
<1>7. \A i : zero_fill(i)' <=> zero_fill(i)
  BY DEF zero_fill, FirstAccess, Binds, Uses, Binding, PassIds, Resource
<1>8. \A i, j : SameTable(i, j)' <=> SameTable(i, j)
  BY <1>3 DEF SameTable
<1>9. \A i, j : Follows(i, j)' <=> Follows(i, j)
  BY <1>2, <1>3, <1>4, <1>6 DEF Follows
<1>10. \A i, f, l : IsLifetime(i, f, l)' <=> IsLifetime(i, f, l)
  BY <1>2, <1>4 DEF IsLifetime
<1> QED
  BY <1>1, <1>2, <1>3, <1>4, <1>5, <1>6, <1>7, <1>8, <1>9, <1>10

\* A dedicated allocation is shared with nothing.
LEMMA AddedShared ==
    ASSUME program \in Programs, PlanTypes, Shared, Linked, Sizes,
           NEW i \in ResourceIds(program), add_dedicated(i),
           resource_allocations[i] = Unassigned, program' = program
    PROVE  Shared' /\ Linked' /\ Sizes'
<1> DEFINE new == Len(allocations) + 1
           ra == resource_allocations
<1>1. /\ Len(allocations) \in Nat
      /\ DOMAIN allocations = 1 .. Len(allocations)
      /\ DOMAIN allocations' = 1 .. new
      /\ allocations'[new] = Allocation(i)
      /\ \A a \in DOMAIN allocations : allocations'[a] = allocations[a]
      /\ ra'[i] = new
      /\ \A j \in ResourceIds(program) \ {i} : ra'[j] = ra[j]
  BY Added
<1>2. \A j \in ResourceIds(program) :
         ra[j] # Unassigned => ra[j] \in DOMAIN allocations /\ ra[j] # new
  BY <1>1 DEF PlanTypes
<1>3. Shared'
  BY <1>1, <1>2, ProgramKept DEF Shared, Unassigned
<1>4. /\ allocations'[new].resources = <<i>>
      /\ allocations'[new].elements = Resource(i).elements
      /\ allocations'[new].scalar = Resource(i).scalar
  BY <1>1 DEF Allocation
<1>5. Linked'
  <2>3. ASSUME NEW a \in DOMAIN allocations', NEW k \in DOMAIN allocations'[a].resources
        PROVE  ra'[allocations'[a].resources[k]] = a
    <3>1. CASE a = new
      BY <1>1, <1>4, <3>1
    <3>2. CASE a \in DOMAIN allocations
      <4>1. allocations[a].resources[k] \in ResourceIds(program)
        BY <1>1, <3>2, ElementsType, LenProperties, ElementOfSeq
      <4>2. ra[allocations[a].resources[k]] = a
        BY <1>1, <3>2 DEF Linked
      <4>3. a # Unassigned
        BY <1>1, <3>2 DEF Unassigned
      <4> QED
        BY <1>1, <3>2, <4>1, <4>2, <4>3
    <3> QED
      BY <1>1, <3>1, <3>2
  <2>4. ASSUME NEW a \in DOMAIN allocations'
        PROVE  allocations'[a].resources # <<>>
    <3>1. CASE a = new
      <4>1. Len(<<i>>) = 1 /\ Len(<<>>) = 0
        OBVIOUS
      <4>2. <<i>> # <<>>
        BY <4>1
      <4> QED
        BY <1>4, <3>1, <4>2
    <3>2. CASE a \in DOMAIN allocations
      BY <1>1, <3>2 DEF Linked
    <3> QED
      BY <1>1, <3>1, <3>2
  <2>5. ASSUME NEW j \in ResourceIds(program), ra'[j] # Unassigned
        PROVE  \E k \in DOMAIN allocations'[ra'[j]].resources :
                  allocations'[ra'[j]].resources[k] = j
    <3>1. CASE j = i
      BY <1>1, <1>4, <3>1
    <3>2. CASE j # i
      <4>1. ra'[j] = ra[j] /\ allocations'[ra[j]] = allocations[ra[j]]
        BY <1>1, <1>2, <2>5, <3>2
      <4>2. \E k \in DOMAIN allocations[ra[j]].resources :
               allocations[ra[j]].resources[k] = j
        BY <2>5, <4>1 DEF Linked
      <4> QED
        BY <4>1, <4>2
    <3> QED
      BY <3>1, <3>2
  <2> QED
    BY <2>3, <2>4, <2>5, ProgramKept DEF Linked
<1>6. Sizes'
  <2> SUFFICES ASSUME NEW j \in ResourceIds(program), ra'[j] # Unassigned
               PROVE  LET alloc == allocations'[ra'[j]]
                          first == Resource(alloc.resources[1]) IN
                      /\ Resource(j).elements <= alloc.elements
                      /\ alloc.scalar = first.scalar
                      /\ Resource(j).kind = "Scratch" => Resource(j).shape = first.shape
    BY ProgramKept DEF Sizes
  <2>1. CASE j = i
    <3>1. Resource(i).elements \in Nat
      BY ProgramTypes DEF Resources
    <3>2. <<i>>[1] = i
      OBVIOUS
    <3> QED
      BY <1>1, <1>4, <2>1, <3>1, <3>2
  <2>2. CASE j # i
    BY <1>1, <1>2, <2>2 DEF Sizes
  <2> QED
    BY <2>1, <2>2
<1> QED
  BY <1>3, <1>5, <1>6

\* A resource joins equal tables, or scratch it comes after.
LEMMA JoinedShared ==
    ASSUME program \in Programs, PlanTypes, Shared, Linked, Sizes,
           NEW i \in ResourceIds(program), NEW a \in DOMAIN allocations,
           NEW e \in Nat, Join(i, a, e), program' = program,
           resource_allocations[i] = Unassigned,
           \A j \in ResourceIds(program) :
              resource_allocations[j] = a => SameTable(j, i) \/ Follows(j, i),
           allocations[a].elements <= e, Resource(i).elements <= e,
           Resource(i).kind = "Scratch" =>
              Resource(allocations[a].resources[1]).shape = Resource(i).shape
    PROVE  Shared' /\ Linked' /\ Sizes'
<1> DEFINE ra == resource_allocations
           rs == allocations[a].resources
<1>1. /\ DOMAIN allocations' = DOMAIN allocations
      /\ allocations'[a].elements = e
      /\ allocations'[a].scalar = allocations[a].scalar
      /\ allocations'[a].resources = Append(rs, i)
      /\ \A b \in DOMAIN allocations \ {a} : allocations'[b] = allocations[b]
      /\ ra'[i] = a
      /\ \A j \in ResourceIds(program) \ {i} : ra'[j] = ra[j]
  BY Joined
<1>2. /\ DOMAIN allocations = 1 .. Len(allocations) /\ a # Unassigned
      /\ allocations[a].elements \in Nat
      /\ rs \in Seq(ResourceIds(program))
  BY ElementsType, LenProperties DEF PlanTypes, Unassigned
<1>3. Shared'
  <2>1. \A j, k : SameTable(j, k) <=> SameTable(k, j)
    BY DEF SameTable
  <2>2. ASSUME NEW j \in ResourceIds(program), NEW k \in ResourceIds(program),
               j # k, ra'[j] # Unassigned, ra'[j] = ra'[k]
        PROVE  SameTable(j, k) \/ Follows(j, k) \/ Follows(k, j)
    <3>1. CASE j = i
      BY <1>1, <2>1, <2>2, <3>1
    <3>2. CASE k = i
      BY <1>1, <2>1, <2>2, <3>2
    <3>3. CASE j # i /\ k # i
      BY <1>1, <2>2, <3>3 DEF Shared
    <3> QED
      BY <3>1, <3>2, <3>3
  <2> QED
    BY <2>2, ProgramKept DEF Shared
<1>4. /\ rs # <<>> /\ Len(rs) \in Nat /\ Len(rs) # 0
      /\ DOMAIN rs = 1 .. Len(rs)
      /\ DOMAIN Append(rs, i) = 1 .. Len(rs) + 1
      /\ \A k \in 1 .. Len(rs) : Append(rs, i)[k] = rs[k]
      /\ Append(rs, i)[Len(rs) + 1] = i
  <2>1. rs # <<>>
    BY DEF Linked
  <2>2. Append(rs, i) \in Seq(ResourceIds(program)) /\ Len(Append(rs, i)) = Len(rs) + 1
    BY <1>2, AppendProperties
  <2> QED
    BY <1>2, <2>1, <2>2, AppendProperties, LenProperties, EmptySeq
<1>5. Linked'
  <2>5. \A k \in 1 .. Len(rs) : rs[k] \in ResourceIds(program) /\ ra[rs[k]] = a
    BY <1>2, <1>4, ElementOfSeq DEF Linked
  <2>6. \A k \in DOMAIN allocations'[a].resources :
           ra'[allocations'[a].resources[k]] = a
    BY <1>1, <1>2, <1>4, <2>5
  <2>7. ASSUME NEW b \in DOMAIN allocations \ {a},
               NEW k \in DOMAIN allocations[b].resources
        PROVE  ra'[allocations[b].resources[k]] = b
    <3>1. allocations[b].resources[k] \in ResourceIds(program)
      BY <2>7, ElementsType, LenProperties, ElementOfSeq
    <3>2. ra[allocations[b].resources[k]] = b /\ b # Unassigned
      BY <1>2, <2>7 DEF Linked, Unassigned
    <3> QED
      BY <1>1, <3>1, <3>2
  <2>8. \A b \in DOMAIN allocations' :
           /\ allocations'[b].resources # <<>>
           /\ \A k \in DOMAIN allocations'[b].resources :
                 ra'[allocations'[b].resources[k]] = b
    <3>1. Append(rs, i) # <<>>
      BY <1>2, AppendProperties
    <3> QED
      BY <1>1, <2>6, <2>7, <3>1 DEF Linked
  <2>9. ASSUME NEW j \in ResourceIds(program), ra'[j] # Unassigned
        PROVE  \E k \in DOMAIN allocations'[ra'[j]].resources :
                  allocations'[ra'[j]].resources[k] = j
    <3>1. CASE j = i
      BY <1>1, <1>4, <3>1
    <3>2. CASE j # i
      <4>1. ra'[j] = ra[j] /\ ra[j] \in DOMAIN allocations
        BY <1>1, <2>9, <3>2 DEF PlanTypes
      <4>2. PICK k \in DOMAIN allocations[ra[j]].resources :
               allocations[ra[j]].resources[k] = j
        BY <2>9, <4>1 DEF Linked
      <4>3. CASE ra[j] = a
        BY <1>1, <1>4, <4>1, <4>2, <4>3
      <4>4. CASE ra[j] # a
        BY <1>1, <4>1, <4>2, <4>4
      <4> QED
        BY <4>3, <4>4
    <3> QED
      BY <3>1, <3>2
  <2> QED
    BY <2>8, <2>9, ProgramKept DEF Linked
<1>6. Sizes'
  <2> SUFFICES ASSUME NEW j \in ResourceIds(program), ra'[j] # Unassigned
               PROVE  LET alloc == allocations'[ra'[j]]
                          first == Resource(alloc.resources[1]) IN
                      /\ Resource(j).elements <= alloc.elements
                      /\ alloc.scalar = first.scalar
                      /\ Resource(j).kind = "Scratch" => Resource(j).shape = first.shape
    BY ProgramKept DEF Sizes
  <2>1. Append(rs, i)[1] = rs[1]
    BY <1>4
  <2>2. Resource(j).elements \in Nat
    BY ProgramTypes DEF Resources
  <2>3. allocations[a].scalar = Resource(rs[1]).scalar
    <3>1. 1 \in DOMAIN rs
      BY <1>4
    <3>2. rs[1] \in ResourceIds(program) /\ ra[rs[1]] = a
      BY <1>2, <1>4, <3>1, ElementOfSeq DEF Linked
    <3> QED
      BY <1>2, <3>2 DEF Sizes
  <2>4. CASE j = i
    BY <1>1, <2>1, <2>3, <2>4
  <2>5. CASE j # i /\ ra[j] = a
    <3>1. /\ Resource(j).elements <= allocations[a].elements
          /\ Resource(j).kind = "Scratch" => Resource(j).shape = Resource(rs[1]).shape
      BY <1>2, <2>5 DEF Sizes
    <3>2. ra'[j] = a
      BY <1>1, <2>5
    <3>3. Resource(j).elements <= e
      BY <1>2, <2>2, <3>1
    <3> QED
      BY <1>1, <2>1, <2>3, <3>1, <3>2, <3>3
  <2>6. CASE j # i /\ ra[j] # a
    BY <1>1, <2>6 DEF Sizes, PlanTypes
  <2> QED
    BY <2>4, <2>5, <2>6
<1> QED
  BY <1>3, <1>5, <1>6

\* A loop that adds dedicated allocations leaves the slots alone.
LEMMA AddedSlots ==
    ASSUME TypeOK, Slots, NEW i \in ResourceIds(program), add_dedicated(i),
           program' = program, scratch_slots' = scratch_slots
    PROVE  Slots'
<1> DEFINE ra == resource_allocations
<1>1. /\ Len(allocations) \in Nat
      /\ DOMAIN allocations = 1 .. Len(allocations)
      /\ ra'[i] = Len(allocations) + 1
      /\ \A j \in ResourceIds(program) \ {i} : ra'[j] = ra[j]
  BY TypeParts, Added
<1>2. \A s \in DOMAIN scratch_slots :
         scratch_slots[s].allocation # Len(allocations) + 1
  BY <1>1, TypeParts, SlotElements
<1> QED
  BY <1>1, <1>2, ProgramKept DEF Slots

LEMMA PlanKept ==
    ASSUME UNCHANGED <<program, allocations, resource_allocations>>
    PROVE  /\ Shared => Shared'
           /\ Linked => Linked'
           /\ Sizes => Sizes'
           /\ scratch_slots' = scratch_slots /\ Slots => Slots'
<1>1. Shared => Shared'
  BY ProgramKept DEF Shared
<1>2. Linked => Linked'
  BY ProgramKept DEF Linked
<1>3. Sizes => Sizes'
  BY ProgramKept DEF Sizes
<1>4. scratch_slots' = scratch_slots /\ Slots => Slots'
  BY ProgramKept DEF Slots
<1> QED
  BY <1>1, <1>2, <1>3, <1>4

\* The kinds of resources of a valid program.
LEMMA Kinds ==
    ASSUME program \in Programs, NEW i \in ResourceIds(program)
    PROVE  /\ Resource(i).kind \in {"Input", "Output", "Scratch", "LookupTable"}
           /\ i \in 1 .. Len(program.resources)
           /\ Len(program.resources) \in Nat
  BY ProgramTypes DEF Resources

LEMMA PlanExternalInv ==
    ASSUME TypeOK, PlanInv, PlanExternal PROVE PlanInv'
<1> DEFINE ra == resource_allocations
<1>0. /\ program' = program /\ program \in Programs
      /\ next \in ResourceIds(program)
      /\ lifetimes' = lifetimes /\ lifetimes = {}
      /\ scratch_slots' = scratch_slots
      /\ step = "external" /\ Advance("table")
      /\ PlanTypes
  BY TypeParts DEF PlanExternal, PlanInv, Lifetimes
<1>1. CASE /\ Resource(next).kind \in {"Input", "Output"}
           /\ add_dedicated(next)
  <2>1. ra[next] = Unassigned
    BY <1>0, Kinds DEF PlanInv, Planned, Pending
  <2>2. Shared' /\ Linked' /\ Sizes'
    BY <1>0, <1>1, <2>1, AddedShared DEF PlanInv
  <2>3. Slots'
    BY <1>0, <1>1, AddedSlots DEF PlanInv
  <2>4. /\ ra'[next] # Unassigned
        /\ \A j \in ResourceIds(program) \ {next} : ra'[j] = ra[j]
    BY <1>0, <1>1, Added DEF Unassigned
  <2>5. Planned'
    BY <1>0, <1>1, <2>4, ProgramKept, Kinds DEF PlanInv, Planned, Pending, Advance
  <2> QED
    BY <1>0, <2>2, <2>3, <2>5, ProgramKept DEF PlanInv, Lifetimes
<1>2. CASE /\ Resource(next).kind \notin {"Input", "Output"}
           /\ UNCHANGED <<allocations, resource_allocations>>
  <2>1. Shared' /\ Linked' /\ Sizes' /\ Slots'
    BY <1>0, <1>2, PlanKept DEF PlanInv
  <2>2. Planned'
    BY <1>0, <1>2, ProgramKept, Kinds DEF PlanInv, Planned, Pending, Advance
  <2> QED
    BY <1>0, <2>1, <2>2, ProgramKept DEF PlanInv, Lifetimes
<1> QED
  BY <1>1, <1>2 DEF PlanExternal

LEMMA PlanTableInv ==
    ASSUME TypeOK, PlanInv, PlanTable PROVE PlanInv'
<1> DEFINE ra == resource_allocations
<1>0. /\ program' = program /\ program \in Programs
      /\ next \in ResourceIds(program)
      /\ lifetimes' = lifetimes /\ lifetimes = {}
      /\ scratch_slots' = scratch_slots
      /\ step = "table" /\ Advance("lifetime")
      /\ PlanTypes /\ SlotTypes
  BY TypeParts DEF PlanTable, PlanInv, Lifetimes
<1>1. ASSUME Resource(next).kind = "LookupTable", Shared', Linked', Sizes',
             Slots', ra'[next] # Unassigned,
             \A j \in ResourceIds(program) \ {next} : ra'[j] = ra[j]
      PROVE  PlanInv'
  <2>1. Planned'
    BY <1>0, <1>1, ProgramKept, Kinds DEF PlanInv, Planned, Pending, Advance
  <2> QED
    BY <1>0, <1>1, <2>1, ProgramKept DEF PlanInv, Lifetimes
<1>2. CASE Resource(next).kind = "LookupTable" /\ add_dedicated(next)
  <2>1. ra[next] = Unassigned
    BY <1>0, <1>2, Kinds DEF PlanInv, Planned, Pending
  <2>2. Shared' /\ Linked' /\ Sizes'
    BY <1>0, <1>2, <2>1, AddedShared DEF PlanInv
  <2>3. Slots'
    BY <1>0, <1>2, AddedSlots DEF PlanInv
  <2>4. /\ ra'[next] # Unassigned
        /\ \A j \in ResourceIds(program) \ {next} : ra'[j] = ra[j]
    BY <1>0, <1>2, Added DEF Unassigned
  <2> QED
    BY <1>1, <1>2, <2>2, <2>3, <2>4
<1>3. ASSUME Resource(next).kind = "LookupTable", NEW c \in SameTables(next),
             Join(next, ra[c], allocations[ra[c]].elements)
      PROVE  PlanInv'
  <2>1. /\ c \in ResourceIds(program) /\ c < next
        /\ SameTable(c, next)
        /\ Resource(c).elements = Resource(next).elements
    BY <1>0, <1>3, ProgramTypes DEF SameTables, SameTable
  <2>2. ra[c] # Unassigned /\ ra[next] = Unassigned
    BY <1>0, <1>3, <2>1, Kinds DEF PlanInv, Planned, Pending, SameTable
  <2>3. ra[c] \in DOMAIN allocations
    BY <1>0, <2>1, <2>2 DEF PlanTypes
  <2>4. allocations[ra[c]].elements \in Nat
    BY <1>0, <2>3, ElementsType
  <2>5. ASSUME NEW j \in ResourceIds(program), ra[j] = ra[c]
        PROVE  SameTable(j, next)
    <3>1. j = c \/ SameTable(j, c)
      BY <2>1, <2>2, <2>5 DEF PlanInv, Shared, SameTable, Follows
    <3> QED
      BY <2>1, <3>1 DEF SameTable
  <2>6. Resource(next).elements <= allocations[ra[c]].elements
    BY <2>1, <2>2 DEF PlanInv, Sizes
  <2>7. Shared' /\ Linked' /\ Sizes'
    BY <1>0, <1>3, <2>2, <2>3, <2>4, <2>5, <2>6, JoinedShared DEF PlanInv
  <2>8. /\ ra'[next] = ra[c]
        /\ \A j \in ResourceIds(program) \ {next} : ra'[j] = ra[j]
    BY <1>0, <1>3, <2>3, <2>4, Joined
  <2>9. \A s \in DOMAIN scratch_slots : scratch_slots[s].allocation # ra[c]
    BY <2>1 DEF PlanInv, Slots, SameTable
  <2>10. Slots'
    BY <1>0, <2>8, <2>9, ProgramKept DEF PlanInv, Slots
  <2> QED
    BY <1>1, <1>3, <2>2, <2>7, <2>8, <2>10
<1>4. CASE /\ Resource(next).kind # "LookupTable"
           /\ UNCHANGED <<allocations, resource_allocations>>
  <2>1. Shared' /\ Linked' /\ Sizes' /\ Slots'
    BY <1>0, <1>4, PlanKept DEF PlanInv
  <2>2. Planned'
    BY <1>0, <1>4, ProgramKept, Kinds DEF PlanInv, Planned, Pending, Advance
  <2> QED
    BY <1>0, <2>1, <2>2, ProgramKept DEF PlanInv, Lifetimes
<1> QED
  BY <1>2, <1>3, <1>4 DEF PlanTable

\* The loop over the scratch resources decides on the next one.
LEMMA LifetimeLoopPlanned ==
    ASSUME TypeOK, Planned, step = "lifetime", Advance("assign"),
           program' = program, lifetimes' \subseteq LifetimeTypes,
           \A j \in ResourceIds(program) \ {next} :
              /\ resource_allocations'[j] = resource_allocations[j]
              /\ (\E t \in lifetimes' : t.resource = j)
                    <=> \E t \in lifetimes : t.resource = j,
           resource_allocations'[next] = Unassigned
              <=> \E t \in lifetimes' : t.resource = next
    PROVE  Planned'
<1> DEFINE Old(j) == \E t \in lifetimes : t.resource = j
           New(j) == \E t \in lifetimes' : t.resource = j
           ra == resource_allocations
<1>0. /\ program \in Programs /\ next \in ResourceIds(program)
      /\ lifetimes \subseteq LifetimeTypes
  BY TypeParts
<1>1. \A j \in ResourceIds(program) :
         New(j) \/ Old(j) => Resource(j).kind = "Scratch"
  BY <1>0 DEF LifetimeTypes, OfKind, Resource
<1>2. \A j \in ResourceIds(program) :
         ra[j] = Unassigned
            <=> Resource(j).kind = "Scratch" /\ (j >= next \/ Old(j))
  BY DEF Planned, Pending
<1>3. \A j \in ResourceIds(program) \ {next} :
         ra'[j] = ra[j] /\ (New(j) <=> Old(j))
  OBVIOUS
<1>4. ra'[next] = Unassigned <=> New(next)
  OBVIOUS
<1>5. (\A j \in ResourceIds(program) : ra'[j] = Unassigned <=>
          \/ step' = "lifetime" /\ Resource(j).kind = "Scratch"
             /\ (j >= next' \/ New(j))
          \/ step' = "assign" /\ New(j))
      => Planned'
  BY ProgramKept DEF Planned, Pending, Advance
<1> HIDE DEF Old, New, ra
<1>6. ASSUME NEW j \in ResourceIds(program)
      PROVE  ra'[j] = Unassigned <=>
                \/ step' = "lifetime" /\ Resource(j).kind = "Scratch"
                   /\ (j >= next' \/ New(j))
                \/ step' = "assign" /\ New(j)
  <2>1. j \in Nat /\ next \in Nat /\ j <= Len(program.resources)
    BY <1>0, Kinds
  <2>2. CASE j = next
    BY <1>0, <1>1, <1>4, <2>1, <2>2 DEF Advance
  <2>3. CASE j # next
    BY <1>1, <1>2, <1>3, <2>1, <2>3 DEF Advance
  <2> QED
    BY <2>2, <2>3
<1> QED
  BY <1>5, <1>6

LEMMA PlanLifetimeInv ==
    ASSUME TypeOK, PlanInv, PlanLifetime PROVE PlanInv'
<1> DEFINE ra == resource_allocations
<1>0. /\ program' = program /\ program \in Programs
      /\ next \in ResourceIds(program)
      /\ scratch_slots' = scratch_slots
      /\ step = "lifetime" /\ Advance("assign")
      /\ PlanTypes
  BY TypeParts DEF PlanLifetime
<1>1. /\ \A t \in lifetimes : IsLifetime(t.resource, t.first, t.last)
      /\ \A t, u \in lifetimes : t.resource = u.resource => t = u
      /\ \A t \in lifetimes : t.resource < next /\ t.resource \in Nat
  BY <1>0, TypeParts, Kinds DEF PlanInv, Lifetimes, LifetimeTypes, OfKind
<1>6. lifetimes' \subseteq LifetimeTypes
  <2>1. TypeOK'
    BY PlanLifetimeType
  <2>2. LifetimeTypes' = LifetimeTypes
    BY <1>0, ProgramKept DEF LifetimeTypes, OfKind, ResourceIds, PassIds
  <2> QED
    BY <2>1, <2>2 DEF TypeOK, LifetimeTypes
<1>2. ASSUME Resource(next).kind = "Scratch",
             NEW first \in PassIds(program), NEW last \in PassIds(program),
             IsLifetime(next, first, last),
             lifetimes' = lifetimes \cup
                {[resource |-> next, first |-> first, last |-> last]},
             UNCHANGED <<allocations, resource_allocations>>
      PROVE  PlanInv'
  <2>1. Shared' /\ Linked' /\ Sizes' /\ Slots'
    BY <1>0, <1>2, PlanKept DEF PlanInv
  <2>2. \A i \in ResourceIds(program) :
           (\E t \in lifetimes' : t.resource = i)
              <=> i = next \/ \E t \in lifetimes : t.resource = i
    <3> DEFINE u == [resource |-> next, first |-> first, last |-> last]
    <3>1. u.resource = next /\ lifetimes' = lifetimes \cup {u}
      BY <1>2
    <3> HIDE DEF u
    <3> QED
      BY <3>1
  <2>3. Planned'
    <3>1. ra[next] = Unassigned
      BY <1>0, <1>2, Kinds DEF PlanInv, Planned, Pending
    <3> QED
      BY <1>0, <1>2, <1>6, <2>2, <3>1, LifetimeLoopPlanned DEF PlanInv
  <2>4. \A t \in lifetimes' : t.resource <= next
    BY <1>0, <1>1, <1>2, Kinds
  <2>5. \A t, u \in lifetimes' : t.resource = u.resource => t = u
    BY <1>0, <1>1, <1>2, Kinds
  <2>6. \A t \in lifetimes' : IsLifetime(t.resource, t.first, t.last)
    BY <1>1, <1>2
  <2>7. Lifetimes'
    BY <1>0, <1>1, <1>2, <2>4, <2>5, <2>6, ProgramKept, Kinds DEF Lifetimes, Advance
  <2> QED
    BY <1>0, <2>1, <2>3, <2>7 DEF PlanInv
<1>3. ASSUME lifetimes' = lifetimes
      PROVE  Lifetimes'
  <2>1. step' \in {"lifetime", "assign"} /\ (step' = "lifetime" => next' = next + 1)
    BY <1>0 DEF Advance
  <2>2. \A t \in lifetimes' : t.resource < next + 1
    BY <1>0, <1>1, <1>3, Kinds
  <2> QED
    BY <1>0, <1>1, <1>3, <2>1, <2>2, ProgramKept DEF Lifetimes
<1>4. CASE /\ Resource(next).kind = "Scratch"
           /\ add_dedicated(next)
           /\ UNCHANGED lifetimes
  <2>1. ra[next] = Unassigned
    BY <1>0, <1>4, Kinds DEF PlanInv, Planned, Pending
  <2>2. Shared' /\ Linked' /\ Sizes'
    BY <1>0, <1>4, <2>1, AddedShared DEF PlanInv
  <2>3. Slots'
    BY <1>0, <1>4, AddedSlots DEF PlanInv
  <2>4. /\ ra'[next] # Unassigned
        /\ \A j \in ResourceIds(program) \ {next} : ra'[j] = ra[j]
    BY <1>0, <1>4, Added DEF Unassigned
  <2>5. ~ \E t \in lifetimes : t.resource = next
    BY <1>0, <1>1, Kinds
  <2>6. Planned'
    BY <1>0, <1>4, <1>6, <2>4, <2>5, LifetimeLoopPlanned DEF PlanInv
  <2> QED
    BY <1>0, <1>3, <1>4, <2>2, <2>3, <2>6 DEF PlanInv
<1>5. CASE /\ Resource(next).kind # "Scratch"
           /\ UNCHANGED <<allocations, resource_allocations, lifetimes>>
  <2>1. Shared' /\ Linked' /\ Sizes' /\ Slots'
    BY <1>0, <1>5, PlanKept DEF PlanInv
  <2>2. Planned'
    <3>1. ra[next] # Unassigned
      BY <1>0, <1>5, Kinds DEF PlanInv, Planned, Pending
    <3>2. ~ \E t \in lifetimes : t.resource = next
      BY <1>0, <1>1, Kinds
    <3> QED
      BY <1>0, <1>5, <1>6, <3>1, <3>2, LifetimeLoopPlanned DEF PlanInv
  <2> QED
    BY <1>0, <1>3, <1>5, <2>1, <2>2 DEF PlanInv
<1> QED
  BY <1>2, <1>4, <1>5 DEF PlanLifetime

\* A lifetime that is assigned leaves the others pending.
LEMMA AssignedPlanned ==
    ASSUME TypeOK, PlanInv, step = "assign", step' = step, next' = next,
           program' = program,
           NEW t \in lifetimes, lifetimes' = lifetimes \ {t},
           resource_allocations'[t.resource] # Unassigned,
           \A j \in ResourceIds(program) \ {t.resource} :
              resource_allocations'[j] = resource_allocations[j]
    PROVE  Planned' /\ Lifetimes'
<1>1. \A u \in lifetimes : u.resource = t.resource => u = t
  BY DEF PlanInv, Lifetimes
<1>2. \A j : (\E u \in lifetimes' : u.resource = j)
             <=> j # t.resource /\ \E u \in lifetimes : u.resource = j
  BY <1>1
<1>3. Planned'
  BY <1>2, ProgramKept DEF PlanInv, Planned, Pending
<1>4. Lifetimes'
  BY ProgramKept DEF PlanInv, Lifetimes
<1> QED
  BY <1>3, <1>4

\* The passes that use a resource lie in its lifetime.
LEMMA LifetimeBounds ==
    ASSUME TypeOK, PlanInv, NEW t \in lifetimes, NEW n \in PassIds(program),
           Binds(n, t.resource)
    PROVE  t.first <= n /\ n <= t.last
  BY DEF PlanInv, Lifetimes, IsLifetime

LEMMA NewSlotInv ==
    ASSUME TypeOK, PlanInv, NEW t \in lifetimes, t \in LifetimeTypes,
           step = "assign", step' = step, next' = next, program' = program,
           lifetimes' = lifetimes \ {t}, NewSlot(t)
    PROVE  PlanInv'
<1> DEFINE ra == resource_allocations
           i == t.resource
           new == Len(allocations) + 1
           top == Len(scratch_slots) + 1
<1>1. /\ i \in ResourceIds(program) /\ Resource(i).kind = "Scratch"
      /\ t.last \in PassIds(program)
      /\ program \in Programs /\ PlanTypes
      /\ add_dedicated(i)
  BY TypeParts DEF LifetimeTypes, OfKind, NewSlot, Resource
<1>2. ra[i] = Unassigned
  BY <1>1 DEF PlanInv, Planned, Pending
<1>3. Shared' /\ Linked' /\ Sizes'
  BY <1>1, <1>2, AddedShared DEF PlanInv
<1>4. /\ Len(allocations) \in Nat
      /\ DOMAIN allocations = 1 .. Len(allocations)
      /\ ra'[i] = new
      /\ \A j \in ResourceIds(program) \ {i} : ra'[j] = ra[j]
  BY <1>1, Added
<1>5. Planned' /\ Lifetimes'
  BY <1>4, AssignedPlanned DEF Unassigned
<1>6. /\ DOMAIN scratch_slots = 1 .. Len(scratch_slots)
      /\ Len(scratch_slots) \in Nat
      /\ DOMAIN scratch_slots' = 1 .. top
      /\ \A s \in DOMAIN scratch_slots : scratch_slots'[s] = scratch_slots[s]
      /\ scratch_slots'[top].allocation = new
      /\ scratch_slots'[top].last = t.last
  <2>1. scratch_slots'[top] = [allocation |-> new, last |-> t.last]
    BY NewSlotTypes
  <2> QED
    BY <2>1, NewSlotTypes
<1>7. \A s \in DOMAIN scratch_slots : scratch_slots[s].allocation # new
  BY <1>4, TypeParts, SlotElements
<1>8. \A j \in ResourceIds(program) \ {i} : ra[j] # new
  BY <1>1, <1>4 DEF PlanTypes, Unassigned
<1>9. Slots'
  <2>1. ASSUME NEW s \in DOMAIN scratch_slots', NEW j \in ResourceIds(program),
               ra'[j] = scratch_slots'[s].allocation
        PROVE  /\ Resource(j).kind = "Scratch"
               /\ \A n \in PassIds(program) :
                     Binds(n, j) => n <= scratch_slots'[s].last
    <3>1. CASE s = top
      <4>1. j = i
        BY <1>4, <1>6, <1>8, <2>1, <3>1
      <4> QED
        BY <1>1, <1>6, <3>1, <4>1, LifetimeBounds
    <3>2. CASE s \in DOMAIN scratch_slots
      <4>1. j # i
        BY <1>4, <1>6, <1>7, <2>1, <3>2
      <4> QED
        BY <1>4, <1>6, <2>1, <3>2, <4>1 DEF PlanInv, Slots
    <3> QED
      BY <1>6, <3>1, <3>2
  <2>2. \A s, q \in DOMAIN scratch_slots' :
           scratch_slots'[s].allocation = scratch_slots'[q].allocation => s = q
    BY <1>6, <1>7 DEF PlanInv, Slots
  <2> QED
    BY <2>1, <2>2, ProgramKept DEF Slots
<1> QED
  BY <1>3, <1>5, <1>9 DEF PlanInv

LEMMA ReuseInv ==
    ASSUME TypeOK, PlanInv, NEW t \in lifetimes, t \in LifetimeTypes,
           step = "assign", step' = step, next' = next, program' = program,
           lifetimes' = lifetimes \ {t}, NEW s \in Reusable(t), Reuse(t, s)
    PROVE  PlanInv'
<1> DEFINE ra == resource_allocations
           i == t.resource
           a == scratch_slots[s].allocation
<1>1. /\ i \in ResourceIds(program) /\ Resource(i).kind = "Scratch"
      /\ t.first \in PassIds(program) /\ t.last \in PassIds(program)
      /\ program \in Programs /\ PlanTypes /\ SlotTypes
  BY TypeParts DEF LifetimeTypes, OfKind, Resource
<1>2. /\ s \in DOMAIN scratch_slots
      /\ can_alias(i)
      /\ scratch_slots[s].last < t.first
      /\ Resource(allocations[a].resources[1]).shape = Resource(i).shape
  BY DEF Reusable, DeadBefore
<1>3. a \in DOMAIN allocations /\ scratch_slots[s].last \in PassIds(program)
  BY <1>1, <1>2, SlotElements
<1>4. /\ Larger(a, i) \in Nat
      /\ allocations[a].elements <= Larger(a, i)
      /\ Resource(i).elements <= Larger(a, i)
      /\ Join(i, a, Larger(a, i))
  BY <1>1, <1>3, LargerBounds DEF Reuse
<1>5. ra[i] = Unassigned
  BY <1>1 DEF PlanInv, Planned, Pending
<1>6. PassIds(program) \subseteq Nat
  BY <1>1, ProgramTypes
<1>7. ASSUME NEW j \in ResourceIds(program), ra[j] = a
      PROVE  Follows(j, i)
  <2>1. /\ Resource(j).kind = "Scratch"
        /\ \A n \in PassIds(program) : Binds(n, j) => n <= scratch_slots[s].last
    BY <1>2, <1>7 DEF PlanInv, Slots
  <2>2. \A k \in PassIds(program) : Binds(k, i) => t.first <= k
    BY LifetimeBounds
  <2>3. \A n, k \in PassIds(program) : Binds(n, j) /\ Binds(k, i) => n < k
    BY <1>1, <1>2, <1>3, <1>6, <2>1, <2>2
  <2> QED
    BY <1>1, <1>2, <2>1, <2>3 DEF Follows
<1>8. Shared' /\ Linked' /\ Sizes'
  BY <1>1, <1>2, <1>3, <1>4, <1>5, <1>7, JoinedShared DEF PlanInv
<1>9. /\ ra'[i] = a
      /\ \A j \in ResourceIds(program) \ {i} : ra'[j] = ra[j]
  BY <1>1, <1>3, <1>4, Joined
<1>10. a # Unassigned
  BY <1>1, <1>3, LenProperties DEF PlanTypes, Unassigned
<1>11. Planned' /\ Lifetimes'
  BY <1>9, <1>10, AssignedPlanned
<1>12. /\ DOMAIN scratch_slots' = DOMAIN scratch_slots
       /\ scratch_slots'[s].allocation = a
       /\ scratch_slots'[s].last = t.last
       /\ \A q \in DOMAIN scratch_slots \ {s} :
             scratch_slots'[q] = scratch_slots[q]
  BY <1>2, ReuseTypes
<1>13. Slots'
  <2>1. ASSUME NEW q \in DOMAIN scratch_slots, NEW j \in ResourceIds(program),
               ra'[j] = scratch_slots'[q].allocation
        PROVE  /\ Resource(j).kind = "Scratch"
               /\ \A n \in PassIds(program) :
                     Binds(n, j) => n <= scratch_slots'[q].last
    <3>1. CASE q = s /\ j = i
      BY <1>1, <1>12, <3>1, LifetimeBounds
    <3>2. CASE q = s /\ j # i
      <4>1. /\ Resource(j).kind = "Scratch"
            /\ \A n \in PassIds(program) : Binds(n, j) => n <= scratch_slots[s].last
        BY <1>2, <1>9, <1>12, <2>1, <3>2 DEF PlanInv, Slots
      <4>2. t.first <= t.last
        BY <1>1 DEF PlanInv, Lifetimes, IsLifetime
      <4>3. scratch_slots[s].last <= t.last
        BY <1>1, <1>2, <1>3, <1>6, <4>2
      <4> QED
        BY <1>1, <1>3, <1>6, <1>12, <3>2, <4>1, <4>3
    <3>3. CASE q # s
      <4>1. j # i
        BY <1>2, <1>9, <1>12, <2>1, <3>3 DEF PlanInv, Slots
      <4> QED
        BY <1>9, <1>12, <2>1, <3>3, <4>1 DEF PlanInv, Slots
    <3> QED
      BY <3>1, <3>2, <3>3
  <2>2. \A q, r \in DOMAIN scratch_slots' :
           scratch_slots'[q].allocation = scratch_slots'[r].allocation => q = r
    <3>1. \A q \in DOMAIN scratch_slots :
             scratch_slots'[q].allocation = scratch_slots[q].allocation
      BY <1>12
    <3> QED
      BY <1>12, <3>1 DEF PlanInv, Slots
  <2> QED
    BY <1>12, <2>1, <2>2, ProgramKept DEF Slots
<1> QED
  BY <1>8, <1>11, <1>13 DEF PlanInv

LEMMA PlanScratchInv ==
    ASSUME TypeOK, PlanInv, PlanScratch PROVE PlanInv'
<1>1. step = "assign" /\ step' = step /\ next' = next /\ program' = program
  BY DEF PlanScratch
<1>2. PICK t \in lifetimes :
         /\ t \in LifetimeTypes
         /\ lifetimes' = lifetimes \ {t}
         /\ NewSlot(t) \/ \E s \in Reusable(t) : Reuse(t, s)
  BY PlanScratchCases
<1> QED
  BY <1>1, <1>2, NewSlotInv, ReuseInv

-----------------------------------------------------------------------------
(* The execution keeps its invariant.                                      *)

\* The plan is fixed once it is prepared.
LEMMA PlanFixed ==
    ASSUME UNCHANGED <<program, planVars>>
    PROVE  /\ \A a : Prepared(a)' = Prepared(a)
           /\ \A n, a : WrittenIn(n, a)' = WrittenIn(n, a)
<1>1. \A a : ResourcesOf(a)' = ResourcesOf(a)
  BY DEF planVars, ResourcesOf
<1>2. ASSUME NEW a PROVE Prepared(a)' = Prepared(a)
  <2>1. \A init : (\E i \in ResourcesOf(a) : Resource(i).init = init)'
                   <=> \E i \in ResourcesOf(a) : Resource(i).init = init
    BY <1>1 DEF Resource
  <2>2. (\E i \in ResourcesOf(a) : zero_fill(i))'
           <=> \E i \in ResourcesOf(a) : zero_fill(i)
    BY <1>1, ProgramKept
  <2>3. TableData(allocations[a].resources[1])' = TableData(allocations[a].resources[1])
    BY DEF TableData, Resource, planVars
  <2>4. InputData' = InputData /\ Zeros' = Zeros /\ Stale' = Stale
    BY DEF InputData, Zeros, Stale
  <2> QED
    BY <2>1, <2>2, <2>3, <2>4 DEF Prepared
<1>3. \A n, a : WrittenIn(n, a)' = WrittenIn(n, a)
  BY ProgramKept DEF planVars, WrittenIn
<1> QED
  BY <1>2, <1>3

\* The step may move on when nothing is left to assign.
LEMMA RunPlanInv ==
    ASSUME PlanInv, UNCHANGED <<program, planVars>>,
           \/ step = "assign" /\ lifetimes = {}
           \/ step \in {"run", "done"},
           step' \in {"run", "done"}
    PROVE  PlanInv'
<1>1. lifetimes = {} /\ lifetimes' = {}
  BY DEF PlanInv, Lifetimes, planVars
<1>2. Shared' /\ Linked' /\ Sizes' /\ Slots'
  BY PlanKept DEF PlanInv, planVars
<1>3. Planned'
  BY <1>1, ProgramKept DEF PlanInv, Planned, Pending, planVars
<1>4. Lifetimes'
  BY <1>1 DEF Lifetimes
<1> QED
  BY <1>2, <1>3, <1>4 DEF PlanInv

\* Every resource has memory when the program runs.
LEMMA AllAssigned ==
    ASSUME TypeOK, PlanInv, step \in {"run", "done"},
           NEW i \in ResourceIds(program)
    PROVE  resource_allocations[i] \in DOMAIN allocations
<1>1. resource_allocations[i] # Unassigned
  BY DEF PlanInv, Planned, Pending
<1> QED
  BY <1>1, TypeParts DEF PlanTypes

\* A pass writes memory, so that a barrier follows it.
LEMMA PassWrites ==
    ASSUME TypeOK, PlanInv, step = "run", NEW n \in PassIds(program)
    PROVE  written_allocations(n) # {}
<1>1. program \in Programs
  BY TypeParts
<1>2. PICK m \in DOMAIN program.passes[n] : Binding(n, m).access \in Writing
  BY <1>1, PassesAssumption DEF PassIds, Binding
<1> DEFINE i == Binding(n, m).resource
<1>3. i \in ResourceIds(program)
  BY DEF PlanInv, validate, BindingValid, PassIds, Binding
<1>4. Uses(n, i, Writing)
  BY <1>2 DEF Uses
<1>5. resource_allocations[i] \in DOMAIN allocations
  BY <1>3, AllAssigned
<1>6. i \in WrittenIn(n, resource_allocations[i])
  BY <1>3, <1>4 DEF WrittenIn
<1> QED
  BY <1>5, <1>6 DEF written_allocations

\* Only the pass started last can be running.
LEMMA OneRuns ==
    ASSUME TypeOK, RunInv
    PROVE  /\ started \in Nat
           /\ Running \subseteq {started}
           /\ \A n \in Running : finished = 1 .. started - 1
<1>1. started \in Nat
  BY TypeParts, ProgramTypes DEF RunTypes
<1> QED
  BY <1>1 DEF RunInv, Running

LEMMA PrepareInv ==
    ASSUME TypeOK, PlanInv, RunInv, Prepare PROVE PlanInv' /\ RunInv'
<1>1. PlanInv'
  BY RunPlanInv DEF Prepare
<1>2. RunInv'
  <2>1. /\ started = 0 /\ finished = {}
        /\ UNCHANGED <<program, planVars, started, finished>>
        /\ memory' = [a \in DOMAIN allocations |-> Prepared(a)]
        /\ step' = "run"
    BY DEF Prepare, RunInv, PlanSteps
  <2>2. DOMAIN memory' = DOMAIN allocations'
    BY <2>1 DEF planVars
  <2>3. ASSUME NEW a \in DOMAIN allocations' PROVE Holds(a)'
    <3>1. memory'[a] = Prepared(a)
      BY <2>1, <2>2
    <3>2. Prepared(a)' = Prepared(a)
      BY <2>1, PlanFixed
    <3> QED
      BY <2>1, <3>1, <3>2 DEF Holds
  <2> QED
    BY <2>1, <2>2, <2>3 DEF RunInv, PlanSteps
<1> QED
  BY <1>1, <1>2

LEMMA StartPassInv ==
    ASSUME TypeOK, PlanInv, RunInv, StartPass PROVE PlanInv' /\ RunInv'
<1>0. /\ step = "run" /\ started < Len(program.passes)
      /\ MayStart(started + 1) /\ started' = started + 1
      /\ UNCHANGED <<program, step, next, planVars, memory, finished>>
  BY DEF StartPass
<1>1. PlanInv'
  BY <1>0, RunPlanInv
<1>2. started \in Nat /\ Len(program.passes) \in Nat
      /\ PassIds(program) = 1 .. Len(program.passes)
  BY TypeParts, ProgramTypes DEF RunTypes
<1>3. finished = 1 .. started
  <2>1. CASE started = 0
    BY <1>2, <2>1 DEF RunInv
  <2>2. CASE started # 0
    <3>1. started \in PassIds(program)
      BY <1>0, <1>2, <2>2
    <3>2. BarrierAfter(started)
      BY <1>0, <3>1, PassWrites DEF BarrierAfter
    <3>3. started \in finished
      BY <1>0, <1>2, <2>2, <3>2 DEF MayStart
    <3> QED
      BY <1>2, <3>3 DEF RunInv
  <2> QED
    BY <2>1, <2>2
<1>4. DOMAIN memory' = DOMAIN allocations' /\ DOMAIN allocations' = DOMAIN allocations
  BY <1>0 DEF RunInv, planVars
<1>5. ASSUME NEW a \in DOMAIN allocations PROVE Holds(a)'
  <2>1. Holds(a)
    BY <1>0 DEF RunInv
  <2> QED
    BY <1>0, <2>1, PlanFixed DEF Holds
<1>6. RunInv'
  BY <1>0, <1>2, <1>3, <1>4, <1>5 DEF RunInv, PlanSteps
<1> QED
  BY <1>1, <1>6

LEMMA FinishPassInv ==
    ASSUME TypeOK, PlanInv, RunInv, FinishPass PROVE PlanInv' /\ RunInv'
<1>0. /\ step = "run"
      /\ UNCHANGED <<program, step, next, planVars, started>>
  BY DEF FinishPass
<1>1. PICK n \in Running :
         /\ finished' = finished \cup {n}
         /\ memory' = [a \in DOMAIN memory |->
                          IF a \in written_allocations(n)
                          THEN [origin |-> "pass", of |-> WrittenIn(n, a),
                                by |-> n]
                          ELSE memory[a]]
  BY DEF FinishPass
<1>2. /\ n = started /\ started \in Nat /\ n \in 1 .. started
      /\ finished = 1 .. started - 1 /\ finished' = 1 .. started
      /\ \A k \in finished : k < n
  BY <1>1, OneRuns DEF Running
<1>3. PlanInv'
  BY <1>0, RunPlanInv
<1>4. DOMAIN memory = DOMAIN allocations /\ DOMAIN memory' = DOMAIN allocations'
      /\ DOMAIN allocations' = DOMAIN allocations
  BY <1>0, <1>1 DEF RunInv, planVars
<1>5. ASSUME NEW a \in DOMAIN allocations PROVE Holds(a)'
  <2>1. Holds(a)
    BY <1>0 DEF RunInv
  <2>2. /\ Prepared(a)' = Prepared(a)
        /\ \A k : WrittenIn(k, a)' = WrittenIn(k, a)
    BY <1>0, PlanFixed
  <2>3. CASE WrittenIn(n, a) # {}
    <3>1. memory'[a] = [origin |-> "pass", of |-> WrittenIn(n, a), by |-> n]
      BY <1>1, <1>4, <2>3 DEF written_allocations
    <3>2. n \in finished' /\ \A k \in finished' : ~ (k > n)
      BY <1>2
    <3> QED
      BY <2>2, <2>3, <3>1, <3>2 DEF Holds
  <2>4. CASE WrittenIn(n, a) = {}
    <3>1. memory'[a] = memory[a]
      BY <1>1, <1>4, <2>4 DEF written_allocations
    <3>2. \A k \in finished' : k \in finished \/ k = n
      BY <1>1
    <3>3. CASE /\ \A k \in finished : WrittenIn(k, a) = {}
               /\ memory[a] = Prepared(a)
      BY <2>2, <2>4, <3>1, <3>2, <3>3 DEF Holds
    <3>4. ASSUME NEW w \in finished, WrittenIn(w, a) # {},
                 \A k \in finished : k > w => WrittenIn(k, a) = {},
                 memory[a] = [origin |-> "pass", of |-> WrittenIn(w, a), by |-> w]
          PROVE  Holds(a)'
      <4>1. w \in finished' /\ \A k \in finished' : k > w => WrittenIn(k, a) = {}
        BY <1>1, <2>4, <3>2, <3>4
      <4> QED
        BY <2>2, <3>1, <3>4, <4>1 DEF Holds
    <3> QED
      BY <2>1, <3>3, <3>4 DEF Holds
  <2> QED
    BY <2>3, <2>4
<1>6. RunInv'
  BY <1>0, <1>2, <1>4, <1>5 DEF RunInv, PlanSteps
<1> QED
  BY <1>3, <1>6

LEMMA DownloadInv ==
    ASSUME TypeOK, PlanInv, RunInv, Download PROVE PlanInv' /\ RunInv'
<1>0. /\ step = "run" /\ step' = "done"
      /\ finished = PassIds(program)
      /\ UNCHANGED <<program, planVars, memory, started, finished>>
  BY DEF Download, runVars
<1>1. PlanInv'
  BY <1>0, RunPlanInv
<1>2. ASSUME NEW a \in DOMAIN allocations PROVE Holds(a)'
  <2>1. Holds(a)
    BY <1>0 DEF RunInv
  <2> QED
    BY <1>0, <2>1, PlanFixed DEF Holds
<1>3. RunInv'
  BY <1>0, <1>2, ProgramKept DEF RunInv, PlanSteps, planVars
<1> QED
  BY <1>1, <1>3

-----------------------------------------------------------------------------
(* What the invariant says about reads, writes and sizes.                  *)

\* A pass that first overwrites a resource does not read it.
LEMMA OverwriteIsNoRead ==
    ASSUME program \in Programs, NEW i, NEW n \in PassIds(program),
           NEW m \in DOMAIN program.passes[n],
           Binding(n, m).resource = i, Binding(n, m).access = "WriteOnly",
           \A k \in 1 .. m - 1 : Binding(n, k).resource # i
    PROVE  ~ Uses(n, i, Reading)
<1> SUFFICES ASSUME NEW r \in DOMAIN program.passes[n],
                    Binding(n, r).resource = i, Binding(n, r).access \in Reading
             PROVE  FALSE
  BY DEF Uses
<1>1. program.passes[n] \in Seq(Bindings)
  BY ProgramTypes
<1>2. /\ DOMAIN program.passes[n] = 1 .. Len(program.passes[n])
      /\ Len(program.passes[n]) \in Nat
  BY <1>1, LenProperties
<1>3. r # m
  BY DEF Reading
<1>4. m < r
  BY <1>2, <1>3
<1>5. Binding(n, r).access = "WriteOnly"
  BY <1>4, PassesAssumption DEF Binding, PassIds
<1> QED
  BY <1>5 DEF Reading

\* A resource that some pass binds has a first binding.
LEMMA FirstBinding ==
    ASSUME program \in Programs, NEW i, NEW n \in PassIds(program), Binds(n, i)
    PROVE  \E f \in PassIds(program) : \E m \in DOMAIN program.passes[f] :
              /\ f <= n
              /\ Binding(f, m).resource = i
              /\ Binding(f, m).access \in Accesses
              /\ \A k \in 1 .. f - 1 : ~ Binds(k, i)
              /\ \A k \in 1 .. m - 1 : Binding(f, k).resource # i
<1>1. PassIds(program) = 1 .. Len(program.passes) /\ Len(program.passes) \in Nat
  BY ProgramTypes
<1>2. PICK f \in PassIds(program) :
         /\ Binds(f, i)
         /\ \A k \in PassIds(program) : Binds(k, i) => f <= k
  <2> DEFINE S == {k \in PassIds(program) : Binds(k, i)}
  <2>1. S \subseteq Nat /\ S # {}
    BY <1>1
  <2> QED
    BY <2>1, Least
<1>3. program.passes[f] \in Seq(Bindings)
  BY ProgramTypes
<1>4. /\ DOMAIN program.passes[f] = 1 .. Len(program.passes[f])
      /\ Len(program.passes[f]) \in Nat
  BY <1>3, LenProperties
<1>5. PICK m \in DOMAIN program.passes[f] :
         /\ Binding(f, m).resource = i
         /\ \A k \in DOMAIN program.passes[f] : Binding(f, k).resource = i => m <= k
  <2> DEFINE T == {k \in DOMAIN program.passes[f] : Binding(f, k).resource = i}
  <2>1. T \subseteq Nat /\ T # {}
    BY <1>2, <1>4 DEF Binds, Uses
  <2> QED
    BY <2>1, Least
<1>6. Binding(f, m).access \in Accesses
  BY ProgramTypes DEF Bindings
<1>7. \A k \in 1 .. m - 1 : Binding(f, k).resource # i
  BY <1>4, <1>5
<1>8. f <= n /\ \A k \in 1 .. f - 1 : ~ Binds(k, i)
  BY <1>1, <1>2
<1> QED
  BY <1>5, <1>6, <1>7, <1>8

\* What is read before it is ever written is zeroed.
LEMMA ReadFirst ==
    ASSUME program \in Programs, NEW i, NEW n \in PassIds(program),
           Uses(n, i, Reading), \A k \in 1 .. n - 1 : ~ Uses(k, i, Writing),
           Resource(i).init = "Zeroed"
    PROVE  zero_fill(i)
<1>0. PassIds(program) = 1 .. Len(program.passes) /\ Len(program.passes) \in Nat
  BY ProgramTypes
<1>1. Binds(n, i)
  BY DEF Binds, Uses, Reading, Accesses
<1>1a. PICK f \in PassIds(program) : \E m \in DOMAIN program.passes[f] :
         /\ f <= n
         /\ Binding(f, m).resource = i
         /\ Binding(f, m).access \in Accesses
         /\ \A k \in 1 .. f - 1 : ~ Binds(k, i)
         /\ \A k \in 1 .. m - 1 : Binding(f, k).resource # i
  BY <1>1, FirstBinding
<1>2. PICK m \in DOMAIN program.passes[f] :
         /\ f <= n
         /\ Binding(f, m).resource = i
         /\ Binding(f, m).access \in Accesses
         /\ \A k \in 1 .. f - 1 : ~ Binds(k, i)
         /\ \A k \in 1 .. m - 1 : Binding(f, k).resource # i
  BY <1>1a
<1>3. CASE Binding(f, m).access \in Reading
  BY <1>2, <1>3 DEF zero_fill, FirstAccess
<1>4. CASE Binding(f, m).access = "WriteOnly"
  <2>1. Uses(f, i, Writing)
    BY <1>2, <1>4 DEF Uses, Writing
  <2>2. f = n
    BY <1>0, <1>2, <2>1
  <2> QED
    BY <1>2, <1>4, <2>2, OverwriteIsNoRead
<1> QED
  BY <1>2, <1>3, <1>4 DEF Accesses, Reading

\* An aliased resource is written before it is read.
LEMMA AliasWritten ==
    ASSUME program \in Programs, NEW i, NEW n \in PassIds(program),
           Uses(n, i, Reading), can_alias(i)
    PROVE  \E f \in 1 .. n - 1 : Uses(f, i, Writing)
<1>0. PassIds(program) = 1 .. Len(program.passes) /\ Len(program.passes) \in Nat
  BY ProgramTypes
<1>1. Binds(n, i)
  BY DEF Binds, Uses, Reading, Accesses
<1>1a. PICK f \in PassIds(program) : \E m \in DOMAIN program.passes[f] :
         /\ Binding(f, m).resource = i
         /\ Binding(f, m).access = "WriteOnly"
         /\ \A k \in 1 .. f - 1 : ~ Binds(k, i)
         /\ \A k \in 1 .. m - 1 : Binding(f, k).resource # i
  BY DEF can_alias, FirstAccess
<1>2. PICK m \in DOMAIN program.passes[f] :
         /\ Binding(f, m).resource = i
         /\ Binding(f, m).access = "WriteOnly"
         /\ \A k \in 1 .. f - 1 : ~ Binds(k, i)
         /\ \A k \in 1 .. m - 1 : Binding(f, k).resource # i
  BY <1>1a
<1>3. Uses(f, i, Writing)
  BY <1>2 DEF Uses, Writing
<1>4. f # n
  BY <1>2, OverwriteIsNoRead
<1>5. f \in 1 .. n - 1
  BY <1>0, <1>1, <1>2, <1>4
<1> QED
  BY <1>3, <1>5

\* Lookup tables are never written.
LEMMA TablesRead ==
    ASSUME PlanInv, NEW n \in PassIds(program), NEW i, Uses(n, i, Writing)
    PROVE  i \in ResourceIds(program) /\ Resource(i).kind # "LookupTable"
<1>1. PICK m \in DOMAIN program.passes[n] :
         Binding(n, m).resource = i /\ Binding(n, m).access \in Writing
  BY DEF Uses
<1>2. BindingValid(program, Binding(n, m))
  BY DEF PlanInv, validate, PassIds, Binding
<1> QED
  BY <1>1, <1>2 DEF BindingValid, Resource, Writing

\* The resources of one allocation start with the same contents.
LEMMA SharedInit ==
    ASSUME TypeOK, PlanInv, step \in {"run", "done"},
           NEW i \in ResourceIds(program), NEW j \in ResourceIds(program),
           resource_allocations[i] = resource_allocations[j]
    PROVE  /\ Resource(i).init = Resource(j).init
           /\ Resource(i).init = "Table" => Resource(i).table = Resource(j).table
<1>1. resource_allocations[i] # Unassigned
  BY DEF PlanInv, Planned, Pending
<1>2. i = j \/ SameTable(i, j) \/ Follows(i, j) \/ Follows(j, i)
  BY <1>1 DEF PlanInv, Shared
<1>3. \A k \in ResourceIds(program) :
         Resource(k).kind = "Scratch" => Resource(k).init = "Zeroed"
  <2> SUFFICES ASSUME NEW k \in ResourceIds(program), Resource(k).kind = "Scratch"
               PROVE  Resource(k).init = "Zeroed"
    OBVIOUS
  <2>1. Resource(k).init \in {"ExternalInput", "Zeroed", "Table"}
    BY TypeParts, ProgramTypes DEF Resources
  <2>2. ResourceValid(program, Resource(k))
    BY DEF PlanInv, validate, Resource, ResourceIds
  <2> QED
    BY <2>1, <2>2 DEF ResourceValid
<1> QED
  BY <1>2, <1>3 DEF SameTable, Follows

LEMMA InitialPrepared ==
    ASSUME TypeOK, PlanInv, step \in {"run", "done"},
           NEW i \in ResourceIds(program),
           Resource(i).init = "Zeroed" => zero_fill(i)
    PROVE  Prepared(resource_allocations[i]) = InitialData(i)
<1> DEFINE a == resource_allocations[i]
           rs == allocations[a].resources
<1>1. a \in DOMAIN allocations /\ a # Unassigned
  BY AllAssigned, TypeParts, LenProperties DEF PlanTypes, Unassigned
<1>2. /\ rs \in Seq(ResourceIds(program))
      /\ rs # <<>>
      /\ \A k \in DOMAIN rs : resource_allocations[rs[k]] = a
      /\ \E k \in DOMAIN rs : rs[k] = i
  BY <1>1, TypeParts, ElementsType DEF PlanInv, Linked
<1>3. DOMAIN rs = 1 .. Len(rs) /\ Len(rs) \in Nat /\ 1 \in DOMAIN rs
  BY <1>2, LenProperties, EmptySeq
<1>4. \A k \in DOMAIN rs : rs[k] \in ResourceIds(program)
  BY <1>2, <1>3, ElementOfSeq
<1>5. \A k \in DOMAIN rs :
         /\ Resource(rs[k]).init = Resource(i).init
         /\ Resource(i).init = "Table" => Resource(rs[k]).table = Resource(i).table
  BY <1>2, <1>4, SharedInit
<1>6. /\ i \in ResourcesOf(a)
      /\ \A j \in ResourcesOf(a) : Resource(j).init = Resource(i).init
  BY <1>2, <1>5 DEF ResourcesOf
<1>7. Resource(i).init \in {"ExternalInput", "Zeroed", "Table"}
  BY TypeParts, ProgramTypes DEF Resources
<1>8. CASE Resource(i).init = "ExternalInput"
  BY <1>6, <1>8 DEF Prepared, InitialData
<1>9. CASE Resource(i).init = "Table"
  <2>1. TableData(rs[1]) = TableData(i)
    BY <1>3, <1>5, <1>9 DEF TableData
  <2> QED
    BY <1>6, <1>9, <2>1 DEF Prepared, InitialData
<1>10. CASE Resource(i).init = "Zeroed"
  BY <1>6, <1>10 DEF Prepared, InitialData
<1> QED
  BY <1>7, <1>8, <1>9, <1>10

\* A resource holds what the program means it to hold after the first passes,
\* if none of the resources that follow it in its memory has been used yet and
\* those it follows have been overwritten.
LEMMA HoldsLogical ==
    ASSUME TypeOK, PlanInv, RunInv, step \in {"run", "done"},
           NEW i \in ResourceIds(program),
           NEW n \in 1 .. Len(program.passes) + 1, finished = 1 .. n - 1,
           (\A k \in 1 .. n - 1 : ~ Uses(k, i, Writing))
              => (Resource(i).init = "Zeroed" => zero_fill(i)),
           \A j : Follows(j, i) => \E f \in 1 .. n - 1 : Uses(f, i, Writing),
           \A j : Follows(i, j) => \A k \in 1 .. n - 1 : ~ Binds(k, j)
    PROVE  IsLogical(memory[resource_allocations[i]], i, n)
<1> DEFINE a == resource_allocations[i]
<1>0. /\ Len(program.passes) \in Nat
      /\ PassIds(program) = 1 .. Len(program.passes)
      /\ a \in DOMAIN allocations
      /\ a # Unassigned
  BY AllAssigned, TypeParts, ProgramTypes DEF PlanInv, Planned, Pending
<1>1. \A k \in 1 .. n - 1 : k \in PassIds(program)
  BY <1>0
<1>2. \A k : Uses(k, i, Writing) <=> i \in WrittenIn(k, a)
  BY DEF WrittenIn
<1>3. Holds(a)
  BY <1>0 DEF RunInv
<1>4. CASE /\ \A k \in finished : WrittenIn(k, a) = {}
           /\ memory[a] = Prepared(a)
  <2>1. \A k \in 1 .. n - 1 : ~ Uses(k, i, Writing)
    BY <1>2, <1>4
  <2>2. Prepared(a) = InitialData(i)
    BY <2>1, InitialPrepared
  <2> QED
    BY <1>4, <2>1, <2>2 DEF IsLogical
<1>5. ASSUME NEW w \in finished, WrittenIn(w, a) # {},
             \A k \in finished : k > w => WrittenIn(k, a) = {},
             memory[a] = [origin |-> "pass", of |-> WrittenIn(w, a), by |-> w]
      PROVE  IsLogical(memory[a], i, n)
  <2>1. w \in 1 .. n - 1 /\ w \in PassIds(program)
    BY <1>1, <1>5
  <2>2. \A k \in w + 1 .. n - 1 : ~ Uses(k, i, Writing)
    BY <1>2, <1>5, <2>1
  <2>3. ASSUME NEW j \in WrittenIn(w, a) PROVE j = i
    <3>1. /\ j \in ResourceIds(program) /\ resource_allocations[j] = a
          /\ Uses(w, j, Writing)
      BY DEF WrittenIn
    <3>2. Binds(w, j)
      BY <3>1 DEF Binds, Uses, Writing, Accesses
    <3>3. SUFFICES ASSUME j # i PROVE FALSE
      OBVIOUS
    <3>4. SameTable(j, i) \/ Follows(j, i) \/ Follows(i, j)
      BY <1>0, <3>1, <3>3 DEF PlanInv, Shared
    <3>5. ~ SameTable(j, i)
      BY <2>1, <3>1, TablesRead DEF SameTable
    <3>6. ~ Follows(i, j)
      BY <2>1, <3>2
    <3>7. ASSUME Follows(j, i) PROVE FALSE
      <4>1. PICK f \in 1 .. n - 1 : Uses(f, i, Writing)
        BY <3>7
      <4>2. Binds(f, i) /\ f \in PassIds(program)
        BY <1>1, <4>1 DEF Binds, Uses, Writing, Accesses
      <4>3. w < f
        BY <2>1, <3>2, <3>7, <4>2 DEF Follows
      <4> QED
        BY <2>1, <2>2, <4>1, <4>3
    <3> QED
      BY <3>4, <3>5, <3>6, <3>7
  <2>4. WrittenIn(w, a) = {i}
    BY <1>5, <2>3
  <2> QED
    BY <1>2, <1>5, <2>1, <2>2, <2>4 DEF IsLogical, Written
<1> QED
  BY <1>3, <1>4, <1>5 DEF Holds

LEMMA ReadsHold ==
    ASSUME TypeOK, PlanInv, RunInv PROVE ReadsAreLogical
<1> SUFFICES ASSUME NEW n \in Running, NEW i \in ResourceIds(program),
                    Uses(n, i, Reading)
             PROVE  IsLogical(memory[resource_allocations[i]], i, n)
  BY DEF ReadsAreLogical
<1>0. program \in Programs /\ Len(program.passes) \in Nat
      /\ PassIds(program) = 1 .. Len(program.passes)
  BY TypeParts, ProgramTypes
<1>1. n \in PassIds(program) /\ finished = 1 .. n - 1
  BY <1>0, OneRuns, TypeParts DEF Running, RunTypes
<1>2. step \in {"run", "done"}
  BY TypeParts DEF RunInv, Running
<1>3. Binds(n, i)
  BY DEF Binds, Uses, Reading, Accesses
<1>4. (\A k \in 1 .. n - 1 : ~ Uses(k, i, Writing))
         => (Resource(i).init = "Zeroed" => zero_fill(i))
  BY <1>0, <1>1, ReadFirst
<1>5. \A j : Follows(j, i) => \E f \in 1 .. n - 1 : Uses(f, i, Writing)
  BY <1>0, <1>1, AliasWritten DEF Follows
<1>6. ASSUME NEW j, Follows(i, j), NEW k \in 1 .. n - 1 PROVE ~ Binds(k, j)
  BY <1>0, <1>1, <1>3, <1>6 DEF Follows
<1>7. n \in 1 .. Len(program.passes) + 1
  BY <1>0, <1>1
<1> QED
  BY <1>1, <1>2, <1>4, <1>5, <1>6, <1>7, HoldsLogical

\* The one output resource of a valid program is written.
LEMMA OutputWritten ==
    ASSUME TypeOK, PlanInv, NEW i \in OfKind(program, "Output")
    PROVE  \E n \in PassIds(program) : Uses(n, i, Writing)
<1>1. PICK n \in PassIds(program) : \E m \in DOMAIN program.passes[n] :
         /\ Binding(n, m).resource \in OfKind(program, "Output")
         /\ Binding(n, m).access \in Writing
  BY DEF PlanInv, validate, PassIds, Binding
<1>2. PICK m \in DOMAIN program.passes[n] :
         /\ Binding(n, m).resource \in OfKind(program, "Output")
         /\ Binding(n, m).access \in Writing
  BY <1>1
<1>3. IsFiniteSet(OfKind(program, "Output"))
  <2>1. /\ ResourceIds(program) = 1 .. Len(program.resources)
        /\ Len(program.resources) \in Int /\ 1 \in Int
    BY TypeParts, ProgramTypes
  <2>2. IsFiniteSet(1 .. Len(program.resources))
    BY <2>1, FS_Interval
  <2>3. OfKind(program, "Output") \subseteq 1 .. Len(program.resources)
    BY <2>1 DEF OfKind
  <2> QED
    BY <2>2, <2>3, FS_Subset
<1>4. \E x : OfKind(program, "Output") = {x}
  BY <1>3, FS_Singleton DEF PlanInv, validate
<1>5. Binding(n, m).resource = i
  BY <1>2, <1>4
<1> QED
  BY <1>2, <1>5 DEF Uses

LEMMA OutputHolds ==
    ASSUME TypeOK, PlanInv, RunInv PROVE OutputIsLogical
<1> SUFFICES ASSUME step = "done", NEW i \in OfKind(program, "Output")
             PROVE  IsLogical(memory[resource_allocations[i]], i,
                              Len(program.passes) + 1)
  BY DEF OutputIsLogical
<1> DEFINE n == Len(program.passes) + 1
<1>0. /\ Len(program.passes) \in Nat
      /\ PassIds(program) = 1 .. Len(program.passes)
      /\ i \in ResourceIds(program) /\ Resource(i).kind = "Output"
  BY TypeParts, ProgramTypes DEF OfKind, Resource
<1>1. finished = 1 .. n - 1 /\ n \in 1 .. Len(program.passes) + 1
  BY <1>0 DEF RunInv
<1>2. \A j : ~ Follows(i, j) /\ ~ Follows(j, i)
  BY <1>0 DEF Follows
<1>3. ~ \A k \in 1 .. n - 1 : ~ Uses(k, i, Writing)
  BY <1>0, OutputWritten
<1> QED
  BY <1>0, <1>1, <1>2, <1>3, HoldsLogical

LEMMA PassesApart ==
    ASSUME TypeOK, PlanInv, RunInv PROVE PassesIsolated
<1> SUFFICES ASSUME NEW n \in Running, NEW k \in Running,
                    NEW i \in ResourceIds(program), NEW j \in ResourceIds(program),
                    Uses(n, i, Writing), Binds(k, j),
                    resource_allocations[i] = resource_allocations[j]
             PROVE  i = j /\ n = k
  BY DEF PassesIsolated
<1>1. n = k /\ n \in PassIds(program) /\ n \in Nat
  <2>1. Len(program.passes) \in Nat /\ PassIds(program) = 1 .. Len(program.passes)
    BY TypeParts, ProgramTypes
  <2> QED
    BY <2>1, OneRuns, TypeParts DEF Running, RunTypes
<1>2. step \in {"run", "done"}
  BY TypeParts DEF RunInv, Running
<1>3. resource_allocations[i] # Unassigned
  BY <1>2 DEF PlanInv, Planned, Pending
<1>4. i = j \/ SameTable(i, j) \/ Follows(i, j) \/ Follows(j, i)
  BY <1>3 DEF PlanInv, Shared
<1>5. ~ SameTable(i, j)
  BY <1>1, TablesRead DEF SameTable
<1>6. Binds(n, i)
  BY DEF Binds, Uses, Writing, Accesses
<1>7. ~ Follows(i, j) /\ ~ Follows(j, i)
  BY <1>1, <1>6 DEF Follows
<1> QED
  BY <1>1, <1>4, <1>5, <1>7

\* The scratch resources of a program have one scalar, and the elements of
\* lookup tables are complex.
UniformScalars ==
    \A p \in Programs : \A i, j \in ResourceIds(p) :
       /\ p.resources[i].kind = "Scratch" /\ p.resources[j].kind = "Scratch"
             => p.resources[i].scalar = p.resources[j].scalar
       /\ p.resources[i].kind = "LookupTable" => p.resources[i].shape = "Complex"

LEMMA TimesMonotonic ==
    ASSUME NEW x \in Nat, NEW y \in Nat, x <= y,
           NEW b \in {2, 4, 8, 16, 32}
    PROVE  x * b <= y * b
<1>1. CASE b = 2
  BY <1>1
<1>2. CASE b = 4
  BY <1>2
<1>3. CASE b = 8
  BY <1>3
<1>4. CASE b = 16
  BY <1>4
<1>5. CASE b = 32
  BY <1>5
<1> QED
  BY <1>1, <1>2, <1>3, <1>4, <1>5

LEMMA ElementBytes ==
    ASSUME NEW shape \in Shapes, NEW s \in Scalars
    PROVE  element_bytes(shape, s) \in {2, 4, 8, 16, 32}
<1>1. scalar_bytes(s) \in {2, 4, 8, 16}
  BY DEF scalar_bytes, Scalars
<1>2. \A x \in {2, 4, 8, 16} : 2 * x \in {2, 4, 8, 16, 32}
  OBVIOUS
<1> QED
  BY <1>1, <1>2 DEF element_bytes

LEMMA ResourcesFit ==
    ASSUME TypeOK, PlanInv, UniformScalars PROVE AllocationsFit
<1> SUFFICES ASSUME step = "run", NEW i \in ResourceIds(program)
             PROVE  resource_byte_len(i)
                       <= program_allocation_byte_len(resource_allocations[i])
  BY DEF AllocationsFit
<1> DEFINE a == resource_allocations[i]
           rs == allocations[a].resources
           first == rs[1]
<1>1. a # Unassigned /\ a \in DOMAIN allocations /\ program \in Programs
  BY AllAssigned, TypeParts DEF PlanInv, Planned, Pending
<1>2. /\ rs \in Seq(ResourceIds(program)) /\ rs # <<>>
      /\ allocations[a].elements \in Nat
      /\ \A k \in DOMAIN rs : resource_allocations[rs[k]] = a
  BY <1>1, TypeParts, ElementsType DEF PlanInv, Linked
<1>3. 1 \in DOMAIN rs /\ DOMAIN rs = 1 .. Len(rs)
  BY <1>2, LenProperties, EmptySeq
<1>4. first \in ResourceIds(program) /\ resource_allocations[first] = a
  BY <1>2, <1>3, ElementOfSeq
<1>5. /\ Resource(i).elements \in Nat /\ Resource(i).shape \in Shapes
      /\ Resource(i).scalar \in Scalars
  BY <1>1, ProgramTypes DEF Resources
<1>6. /\ Resource(i).elements <= allocations[a].elements
      /\ allocations[a].scalar = Resource(first).scalar
      /\ Resource(i).kind = "Scratch" => Resource(i).shape = Resource(first).shape
  BY <1>1 DEF PlanInv, Sizes
<1>7. Resource(first).shape = Resource(i).shape /\ Resource(first).scalar = Resource(i).scalar
  <2>1. i = first \/ SameTable(i, first) \/ Follows(i, first) \/ Follows(first, i)
    BY <1>1, <1>4 DEF PlanInv, Shared
  <2>2. CASE SameTable(i, first)
    BY <1>1, <1>4, <2>2 DEF SameTable, UniformScalars, Resource
  <2>3. CASE Follows(i, first) \/ Follows(first, i)
    <3>1. Resource(i).kind = "Scratch" /\ Resource(first).kind = "Scratch"
      BY <2>3 DEF Follows
    <3> QED
      BY <1>1, <1>4, <1>6, <3>1 DEF UniformScalars, Resource
  <2> QED
    BY <2>1, <2>2, <2>3
<1> DEFINE b == element_bytes(Resource(i).shape, Resource(i).scalar)
<1>8. b \in {2, 4, 8, 16, 32}
  BY <1>5, ElementBytes
<1>9. Resource(i).elements * b <= allocations[a].elements * b
  BY <1>2, <1>5, <1>6, <1>8, TimesMonotonic
<1> QED
  BY <1>6, <1>7, <1>9 DEF resource_byte_len, program_allocation_byte_len

-----------------------------------------------------------------------------
(* The theorems.                                                           *)

LEMMA InitInv ==
    Init => TypeOK /\ PlanInv /\ RunInv
<1> SUFFICES ASSUME Init PROVE TypeOK /\ PlanInv /\ RunInv
  OBVIOUS
<1>0. program \in Programs /\ validate(program)
  BY DEF Init
<1>1. /\ Len(program.resources) \in Nat /\ Len(program.passes) \in Nat
      /\ ResourceIds(program) = 1 .. Len(program.resources)
      /\ \A i \in ResourceIds(program) : Resource(i) \in Resources
  BY <1>0, ProgramTypes
<1>2. 1 \in ResourceIds(program)
  <2>1. program.resources # <<>>
    BY <1>0 DEF validate
  <2>2. program.resources \in Seq(Resources)
    BY <1>0, ProgramTypes DEF ProgramIrs
  <2> QED
    BY <1>1, <2>1, <2>2, EmptySeq
<1>3. TypeOK
  BY <1>0, <1>1, <1>2, EmptySeq DEF Init, TypeOK, PlanSteps
<1>4. PlanInv
  <2>1. Shared /\ Linked /\ Slots /\ Sizes
    BY DEF Init, Shared, Linked, Slots, Sizes
  <2>2. Planned
    BY <1>1 DEF Init, Planned, Pending
  <2>3. Lifetimes
    BY DEF Init, Lifetimes
  <2> QED
    BY <1>0, <2>1, <2>2, <2>3 DEF PlanInv
<1>5. RunInv
  BY DEF Init, RunInv
<1> QED
  BY <1>3, <1>4, <1>5

\* While the planner works nothing has run yet.
LEMMA PlanRunInv ==
    ASSUME RunInv, UNCHANGED <<program, runVars>>, step \in PlanSteps,
           step' \in PlanSteps
    PROVE  RunInv'
  BY DEF RunInv, runVars, PlanSteps

LEMMA StepInv ==
    TypeOK /\ PlanInv /\ RunInv /\ [Next]_vars => TypeOK' /\ PlanInv' /\ RunInv'
<1> SUFFICES ASSUME TypeOK, PlanInv, RunInv, [Next]_vars
             PROVE  TypeOK' /\ PlanInv' /\ RunInv'
  OBVIOUS
<1>1. CASE PlanExternal
  <2>1. RunInv'
    BY <1>1, PlanRunInv DEF PlanExternal, Advance, PlanSteps
  <2> QED
    BY <1>1, <2>1, PlanExternalType, PlanExternalInv
<1>2. CASE PlanTable
  <2>1. RunInv'
    BY <1>2, PlanRunInv DEF PlanTable, Advance, PlanSteps
  <2> QED
    BY <1>2, <2>1, PlanTableType, PlanTableInv DEF PlanInv
<1>3. CASE PlanLifetime
  <2>1. RunInv'
    BY <1>3, PlanRunInv DEF PlanLifetime, Advance, PlanSteps
  <2> QED
    BY <1>3, <2>1, PlanLifetimeType, PlanLifetimeInv
<1>4. CASE PlanScratch
  <2>1. RunInv'
    BY <1>4, PlanRunInv DEF PlanScratch, PlanSteps
  <2> QED
    BY <1>4, <2>1, PlanScratchType, PlanScratchInv
<1>5. CASE Prepare
  BY <1>5, PrepareType, PrepareInv
<1>6. CASE StartPass
  BY <1>6, StartPassType, StartPassInv
<1>7. CASE FinishPass
  BY <1>7, FinishPassType, FinishPassInv
<1>8. CASE Download
  <2>1. TypeOK'
    BY <1>8 DEF TypeOK, Download, planVars, runVars, ResourceIds, PassIds, OfKind
  <2> QED
    BY <1>8, <2>1, DownloadInv
<1>9. CASE UNCHANGED vars
  <2>1. UNCHANGED <<program, step, next, planVars, memory, started, finished,
                    allocations, resource_allocations, lifetimes, scratch_slots>>
    BY <1>9 DEF vars, planVars, runVars
  <2>2. TypeOK'
    BY <2>1 DEF TypeOK, ResourceIds, PassIds, OfKind
  <2>3. Shared' /\ Linked' /\ Sizes' /\ Slots'
    BY <2>1, PlanKept DEF PlanInv
  <2>4. Planned'
    BY <2>1, ProgramKept DEF PlanInv, Planned, Pending
  <2>5. Lifetimes'
    BY <2>1, ProgramKept DEF PlanInv, Lifetimes
  <2>6. PlanInv'
    BY <2>1, <2>3, <2>4, <2>5 DEF PlanInv
  <2>7. \A a : Holds(a)' <=> Holds(a)
    BY <2>1, PlanFixed DEF Holds
  <2>8. RunInv'
    BY <2>1, <2>7, ProgramKept DEF RunInv, PlanSteps
  <2> QED
    BY <2>2, <2>6, <2>8
<1> QED
  BY <1>1, <1>2, <1>3, <1>4, <1>5, <1>6, <1>7, <1>8, <1>9 DEF Next, Finished

LEMMA Invariant == Spec => [](TypeOK /\ PlanInv /\ RunInv)
  BY InitInv, StepInv, PTL DEF Spec

\* Every variable of the planner and the execution keeps its type.
THEOREM TypeCorrect == Spec => []TypeOK
  BY Invariant, PTL

\* For every set of programs, a pass reads what it would read if every
\* resource had memory of its own and the passes ran one after the other:
\* memory_plan, the preparation and the barriers are correct together.
THEOREM Reads_Logical == Spec => []ReadsAreLogical
<1>1. TypeOK /\ PlanInv /\ RunInv => ReadsAreLogical
  BY ReadsHold
<1> QED
  BY <1>1, Invariant, PTL

\* For every set of programs, what is downloaded is the program's output.
THEOREM Output_Logical == Spec => []OutputIsLogical
<1>1. TypeOK /\ PlanInv /\ RunInv => OutputIsLogical
  BY OutputHolds
<1> QED
  BY <1>1, Invariant, PTL

\* No pass writes memory that it uses under another name.
THEOREM Passes_Isolated == Spec => []PassesIsolated
<1>1. TypeOK /\ PlanInv /\ RunInv => PassesIsolated
  BY PassesApart
<1> QED
  BY <1>1, Invariant, PTL

\* If the scratch resources of each program have one scalar, every resource
\* fits into the bytes of its allocation.
THEOREM Allocations_Fit ==
    ASSUME UniformScalars
    PROVE  Spec => []AllocationsFit
<1>1. TypeOK /\ PlanInv => AllocationsFit
  BY ResourcesFit
<1>2. Spec => [](TypeOK /\ PlanInv)
  BY Invariant, PTL
<1> QED
  BY <1>1, <1>2, PTL
=============================================================================
