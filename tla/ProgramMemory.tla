--------------------------- MODULE ProgramMemory ---------------------------
(***************************************************************************)
(* ProgramIr::memory_plan of src/program_ir.rs and the execution of the    *)
(* plan on a device, src/backend/vulkan/runtime.rs.                        *)
(*                                                                         *)
(* A program is a sequence of passes over logical resources.  The planner  *)
(* maps the resources to physical allocations: the external buffers have   *)
(* their own, identical lookup tables share one, and a scratch resource    *)
(* takes over an allocation whose earlier users are dead.  The allocations *)
(* are then prepared (uploaded, zeroed, or left with whatever they hold)   *)
(* and the device runs the passes in order, overlapping neighbours between *)
(* which no barrier was recorded.                                          *)
(*                                                                         *)
(* One iteration of a planner loop is one action.  The contents of an      *)
(* allocation are abstracted to their origin: which pass wrote which       *)
(* resource there, or how the allocation was prepared.                     *)
(***************************************************************************)
EXTENDS Naturals, Sequences, FiniteSets

CONSTANT Programs  \* the programs a builder may hand to the planner

Scalars  == {"F16", "F32", "F64", "DoubleDouble"}
Shapes   == {"Complex", "Scalar"}
Accesses == {"ReadOnly", "WriteOnly", "ReadWrite"}
Reading  == {"ReadOnly", "ReadWrite"}
Writing  == {"WriteOnly", "ReadWrite"}
TableRoles == {"LookupTable", "TwiddleLookupTable"}

\* `table` tells lookup tables with different values apart.
Resources ==
    [kind : {"Input", "Output", "Scratch", "LookupTable"}, scalar : Scalars,
     elements : Nat, shape : Shapes,
     init : {"ExternalInput", "Zeroed", "Table"}, table : Nat]

Bindings == [resource : Nat, access : Accesses,
             role : {"Input", "Output", "Auxiliary"} \cup TableRoles]

ProgramIrs == [scalar : Scalars, resources : Seq(Resources),
               passes : Seq(Seq(Bindings))]

ASSUME ProgramsAssumption == Programs \subseteq ProgramIrs

\* Every kernel has an output binding, and no kernel reads through one binding
\* what an earlier binding overwrites.
ASSUME PassesAssumption ==
    \A p \in Programs : \A n \in DOMAIN p.passes :
       /\ \E m \in DOMAIN p.passes[n] : p.passes[n][m].access \in Writing
       /\ \A m, k \in DOMAIN p.passes[n] :
             /\ m < k /\ p.passes[n][m].resource = p.passes[n][k].resource
             /\ p.passes[n][m].access = "WriteOnly"
             => p.passes[n][k].access = "WriteOnly"

VARIABLES
    program,               \* the program, fixed by Init
    step,                  \* the loop of the planner, then the execution
    next,                  \* the resource the current loop visits
    allocations,           \* the physical allocations made so far
    resource_allocations,  \* the allocation of each resource, or Unassigned
    lifetimes,             \* scratch resources still to be assigned
    scratch_slots,         \* reusable allocations and their last pass
    memory,                \* what the device memory of each allocation holds
    started,               \* passes the device has begun, a prefix
    finished               \* passes the device has ended

planVars == <<allocations, resource_allocations, lifetimes, scratch_slots>>
runVars  == <<memory, started, finished>>
vars     == <<program, step, next, planVars, runVars>>

Unassigned == 0

-----------------------------------------------------------------------------
(* Programs.                                                               *)

ResourceIds(p) == DOMAIN p.resources
PassIds(p)     == DOMAIN p.passes

scalar_bytes(s) == CASE s = "F16" -> 2 [] s = "F32" -> 4
                     [] s = "F64" -> 8 [] s = "DoubleDouble" -> 16

element_bytes(shape, s) ==
    IF shape = "Complex" THEN 2 * scalar_bytes(s) ELSE scalar_bytes(s)

\* Narrower storage that the external buffers of a program may have.
MixedExternal == {<<"F64", "F32">>, <<"F32", "F16">>, <<"DoubleDouble", "F64">>}

ScalarCompatible(p, r) ==
    \/ r.scalar = p.scalar
    \/ r.kind \in {"Input", "Output"} /\ <<p.scalar, r.scalar>> \in MixedExternal
    \/ r.kind = "Scratch" /\ p.scalar = "DoubleDouble" /\ r.scalar = "F64"

ResourceValid(p, r) ==
    /\ r.elements # 0
    /\ ScalarCompatible(p, r)
    /\ r.init = "ExternalInput" => r.kind = "Input"
    /\ r.init = "Table" => r.kind = "LookupTable"

\* Variant: only the role of a binding keeps a table from being written.
BindingValidByRole(p, b) ==
    /\ b.resource \in ResourceIds(p)
    /\ b.role \in TableRoles => b.access = "ReadOnly"

BindingValid(p, b) ==
    /\ b.resource \in ResourceIds(p)
    /\ LET kind == p.resources[b.resource].kind IN
          /\ b.role \in TableRoles \/ kind = "LookupTable"
                => b.access = "ReadOnly"
          /\ b.role = "Auxiliary"
                => \/ b.access = "ReadOnly"
                   \/ b.access = "ReadWrite" /\ kind = "Scratch"

OfKind(p, k) == {i \in ResourceIds(p) : p.resources[i].kind = k}

validate(p) ==
    /\ p.resources # <<>> /\ p.passes # <<>>
    /\ \A i \in ResourceIds(p) : ResourceValid(p, p.resources[i])
    /\ Cardinality(OfKind(p, "Input")) = 1
    /\ Cardinality(OfKind(p, "Output")) = 1
    /\ \A n \in PassIds(p) :
          /\ Len(p.passes[n]) >= 2
          /\ \A m \in DOMAIN p.passes[n] : BindingValid(p, p.passes[n][m])
    /\ \E n \in PassIds(p) : \E m \in DOMAIN p.passes[n] :
          LET b == p.passes[n][m] IN
          b.resource \in OfKind(p, "Input") /\ b.access = "ReadOnly"
    /\ \E n \in PassIds(p) : \E m \in DOMAIN p.passes[n] :
          LET b == p.passes[n][m] IN
          b.resource \in OfKind(p, "Output") /\ b.access \in Writing

Resource(i) == program.resources[i]
Binding(n, m) == program.passes[n][m]

\* Pass n binds resource i, with an access in the set.
Uses(n, i, access) ==
    \E m \in DOMAIN program.passes[n] :
       Binding(n, m).resource = i /\ Binding(n, m).access \in access

Binds(n, i) == Uses(n, i, Accesses)

\* The first binding of resource i, in pass order, has an access in the set.
FirstAccess(i, access) ==
    \E n \in PassIds(program) : \E m \in DOMAIN program.passes[n] :
       /\ Binding(n, m).resource = i /\ Binding(n, m).access \in access
       /\ \A k \in 1 .. n - 1 : ~Binds(k, i)
       /\ \A k \in 1 .. m - 1 : Binding(n, k).resource # i

Init ==
    /\ program \in {p \in Programs : validate(p)}
    /\ step = "external" /\ next = 1
    /\ allocations = <<>>
    /\ resource_allocations = [i \in ResourceIds(program) |-> Unassigned]
    /\ lifetimes = {}
    /\ scratch_slots = <<>>
    /\ memory = <<>>
    /\ started = 0 /\ finished = {}

-----------------------------------------------------------------------------
(* The planner.                                                            *)

\* Variant: the next loop starts where the last one ended.
AdvanceWithoutReset(to) ==
    /\ next' = next + 1
    /\ step' = IF next = Len(program.resources) THEN to ELSE step

\* The next resource of the loop, or the next loop.
Advance(to) ==
    IF next = Len(program.resources)
    THEN step' = to /\ next' = 1
    ELSE next' = next + 1 /\ UNCHANGED step

Allocation(i) ==
    [kind |-> Resource(i).kind, scalar |-> Resource(i).scalar,
     elements |-> Resource(i).elements, resources |-> <<i>>]

add_dedicated(i) ==
    /\ allocations' = Append(allocations, Allocation(i))
    /\ resource_allocations' =
          [resource_allocations EXCEPT ![i] = Len(allocations) + 1]

\* Resource i joins the allocation a, which grows to hold it.
Join(i, a, elements) ==
    /\ allocations' = [allocations EXCEPT ![a].elements = elements,
                                          ![a].resources = Append(@, i)]
    /\ resource_allocations' = [resource_allocations EXCEPT ![i] = a]

PlanExternal ==
    /\ step = "external"
    /\ IF Resource(next).kind \in {"Input", "Output"}
       THEN add_dedicated(next)
       ELSE UNCHANGED <<allocations, resource_allocations>>
    /\ Advance("table")
    /\ UNCHANGED <<program, lifetimes, scratch_slots, runVars>>

\* Variant: tables are compared by size and not by value.
SameTablesBySize(i) ==
    {c \in 1 .. i - 1 : /\ Resource(c).kind = "LookupTable"
                        /\ Resource(c).scalar = Resource(i).scalar
                        /\ Resource(c).elements = Resource(i).elements}

SameTables(i) ==
    {c \in 1 .. i - 1 : /\ Resource(c).kind = "LookupTable"
                        /\ Resource(c).scalar = Resource(i).scalar
                        /\ Resource(c).elements = Resource(i).elements
                        /\ Resource(c).init = Resource(i).init
                        /\ Resource(c).table = Resource(i).table}

PlanTable ==
    /\ step = "table"
    /\ \/ /\ Resource(next).kind = "LookupTable" /\ SameTables(next) = {}
          /\ add_dedicated(next)
       \/ /\ Resource(next).kind = "LookupTable"
          /\ \E c \in SameTables(next) :
                /\ \A d \in SameTables(next) : c <= d
                /\ Join(next, resource_allocations[c],
                        allocations[resource_allocations[c]].elements)
       \/ /\ Resource(next).kind # "LookupTable"
          /\ UNCHANGED <<allocations, resource_allocations>>
    /\ Advance("lifetime")
    /\ UNCHANGED <<program, lifetimes, scratch_slots, runVars>>

\* Resource i is used from pass `first` to pass `last`.
IsLifetime(i, first, last) ==
    /\ Binds(first, i) /\ Binds(last, i)
    /\ \A n \in PassIds(program) : Binds(n, i) => first <= n /\ n <= last

\* A scratch resource no pass uses still gets an allocation of its own.
PlanLifetime ==
    /\ step = "lifetime"
    /\ \/ /\ Resource(next).kind = "Scratch"
          /\ \E first, last \in PassIds(program) :
                /\ IsLifetime(next, first, last)
                /\ lifetimes' = lifetimes \cup
                      {[resource |-> next, first |-> first, last |-> last]}
          /\ UNCHANGED <<allocations, resource_allocations>>
       \/ /\ Resource(next).kind = "Scratch"
          /\ \A n \in PassIds(program) : ~Binds(n, next)
          /\ add_dedicated(next)
          /\ UNCHANGED lifetimes
       \/ /\ Resource(next).kind # "Scratch"
          /\ UNCHANGED <<allocations, resource_allocations, lifetimes>>
    /\ Advance("assign")
    /\ UNCHANGED <<program, scratch_slots, runVars>>

\* The order of the stable sort by first and last pass.
Before(t, u) ==
    \/ t.first < u.first
    \/ t.first = u.first /\ t.last < u.last
    \/ t.first = u.first /\ t.last = u.last /\ t.resource < u.resource

\* Variant: every scratch resource may take over an allocation.
AlwaysAlias(i) == TRUE

\* Only a resource that is written before it is read may find stale contents.
can_alias(i) == FirstAccess(i, {"WriteOnly"}) /\ Resource(i).init = "Zeroed"

\* Variant: the pass that reads the old contents for the last time may
\* already overwrite them.
DeadAt(s, pass) == scratch_slots[s].last <= pass

DeadBefore(s, pass) == scratch_slots[s].last < pass

Reusable(t) ==
    {s \in DOMAIN scratch_slots :
        /\ can_alias(t.resource)
        /\ DeadBefore(s, t.first)
        /\ LET a == scratch_slots[s].allocation IN
           Resource(allocations[a].resources[1]).shape
              = Resource(t.resource).shape}

\* Variant: the allocation keeps the size of its first resource.
FirstSize(a, i) == allocations[a].elements

Larger(a, i) == IF allocations[a].elements < Resource(i).elements
                THEN Resource(i).elements ELSE allocations[a].elements

\* The first of the slots that would be smallest with resource i in it.
BestSlot(s, S, i) ==
    \A q \in S :
       LET x == Larger(scratch_slots[s].allocation, i)
           y == Larger(scratch_slots[q].allocation, i)
       IN x < y \/ (x = y /\ s <= q)

PlanScratch ==
    /\ step = "assign"
    /\ \E t \in lifetimes :
          /\ \A u \in lifetimes \ {t} : Before(t, u)
          /\ lifetimes' = lifetimes \ {t}
          /\ \/ /\ Reusable(t) = {}
                /\ add_dedicated(t.resource)
                /\ scratch_slots' = Append(scratch_slots,
                      [allocation |-> Len(allocations) + 1, last |-> t.last])
             \/ \E s \in Reusable(t) :
                   LET a == scratch_slots[s].allocation IN
                   /\ BestSlot(s, Reusable(t), t.resource)
                   /\ Join(t.resource, a, Larger(a, t.resource))
                   /\ scratch_slots' = [scratch_slots EXCEPT ![s].last = t.last]
    /\ UNCHANGED <<program, step, next, runVars>>

-----------------------------------------------------------------------------
(* Preparation and execution.                                              *)

ResourcesOf(a) == {allocations[a].resources[k] :
                      k \in DOMAIN allocations[a].resources}

Written(i, n)  == [origin |-> "pass", of |-> {i}, by |-> n]
InputData      == [origin |-> "input", of |-> {}, by |-> 0]
TableData(i)   == [origin |-> "table", of |-> {Resource(i).table}, by |-> 0]
Zeros          == [origin |-> "zero", of |-> {}, by |-> 0]
Stale          == [origin |-> "stale", of |-> {}, by |-> 0]

\* The contents a resource has before the first pass.
InitialData(i) ==
    CASE Resource(i).init = "ExternalInput" -> InputData
      [] Resource(i).init = "Table" -> TableData(i)
      [] Resource(i).init = "Zeroed" -> Zeros

zero_fill(i) == Resource(i).init = "Zeroed" /\ FirstAccess(i, Reading)

\* What is uploaded to an allocation; one whose users all overwrite it first
\* comes from a pool with stale contents.
Prepared(a) ==
    LET Some(init) == \E i \in ResourcesOf(a) : Resource(i).init = init IN
    IF Some("ExternalInput") THEN InputData
    ELSE IF Some("Table") THEN TableData(allocations[a].resources[1])
    ELSE IF \E i \in ResourcesOf(a) : zero_fill(i) THEN Zeros
    ELSE Stale

Prepare ==
    /\ step = "assign" /\ lifetimes = {}
    /\ step' = "run"
    /\ memory' = [a \in DOMAIN allocations |-> Prepared(a)]
    /\ UNCHANGED <<program, next, planVars, started, finished>>

WrittenIn(n, a) == {i \in ResourceIds(program) :
                       Uses(n, i, Writing) /\ resource_allocations[i] = a}

written_allocations(n) == {a \in DOMAIN allocations : WrittenIn(n, a) # {}}

\* Variant: the barriers between the passes are left out.
NoBarrier(n) == FALSE

BarrierAfter(n) == n < Len(program.passes) /\ written_allocations(n) # {}

\* A barrier holds the pass back until everything before it has ended.
MayStart(n) ==
    \A k \in 1 .. n - 1 :
       (\E b \in k .. n - 1 : BarrierAfter(b)) => k \in finished

StartPass ==
    /\ step = "run" /\ started < Len(program.passes)
    /\ MayStart(started + 1)
    /\ started' = started + 1
    /\ UNCHANGED <<program, step, next, planVars, memory, finished>>

Running == (1 .. started) \ finished

FinishPass ==
    /\ step = "run"
    /\ \E n \in Running :
          /\ finished' = finished \cup {n}
          /\ memory' = [a \in DOMAIN memory |->
                           IF a \in written_allocations(n)
                           THEN [origin |-> "pass", of |-> WrittenIn(n, a),
                                 by |-> n]
                           ELSE memory[a]]
    /\ UNCHANGED <<program, step, next, planVars, started>>

\* The output is copied back once every pass has ended.
Download ==
    /\ step = "run" /\ finished = PassIds(program)
    /\ step' = "done"
    /\ UNCHANGED <<program, next, planVars, runVars>>

Finished == step = "done" /\ UNCHANGED vars

Next ==
    \/ PlanExternal \/ PlanTable \/ PlanLifetime \/ PlanScratch
    \/ Prepare \/ StartPass \/ FinishPass \/ Download \/ Finished

Spec == Init /\ [][Next]_vars

-----------------------------------------------------------------------------
PlanSteps == {"external", "table", "lifetime", "assign"}
Contents == [origin : {"pass", "input", "table", "zero", "stale"},
             of : SUBSET Nat, by : Nat]

\* The type invariant.
TypeOK ==
    /\ program \in Programs
    /\ step \in PlanSteps \cup {"run", "done"}
    /\ next \in ResourceIds(program)
    /\ allocations \in Seq([kind : {"Input", "Output", "Scratch", "LookupTable"},
                            scalar : Scalars, elements : Nat,
                            resources : Seq(ResourceIds(program))])
    /\ resource_allocations \in
          [ResourceIds(program) -> {Unassigned} \cup DOMAIN allocations]
    /\ lifetimes \subseteq [resource : OfKind(program, "Scratch"),
                            first : PassIds(program), last : PassIds(program)]
    /\ scratch_slots \in Seq([allocation : DOMAIN allocations,
                              last : PassIds(program)])
    /\ memory \in Seq(Contents)
    /\ started \in 0 .. Len(program.passes)
    /\ finished \subseteq 1 .. started

\* Data is what resource i holds when pass n begins in a program that gives
\* every resource memory of its own and runs one pass after the other.
IsLogical(data, i, n) ==
    \/ /\ \A k \in 1 .. n - 1 : ~Uses(k, i, Writing)
       /\ data = InitialData(i)
    \/ \E w \in 1 .. n - 1 :
          /\ Uses(w, i, Writing)
          /\ \A k \in w + 1 .. n - 1 : ~Uses(k, i, Writing)
          /\ data = Written(i, w)

\* A pass reads what the program means it to read, though its resources share
\* memory with others, start with stale contents, and passes may overlap.
ReadsAreLogical ==
    \A n \in Running : \A i \in ResourceIds(program) :
       Uses(n, i, Reading) => IsLogical(memory[resource_allocations[i]], i, n)

\* The output that is downloaded is the output of the program.
OutputIsLogical ==
    step = "done" =>
       \A i \in OfKind(program, "Output") :
          IsLogical(memory[resource_allocations[i]], i, Len(program.passes) + 1)

\* No pass writes memory that it, or a pass running beside it, uses as
\* another resource.
PassesIsolated ==
    \A n, k \in Running : \A i, j \in ResourceIds(program) :
       /\ Uses(n, i, Writing) /\ Binds(k, j)
       /\ resource_allocations[i] = resource_allocations[j]
       => i = j /\ n = k

program_allocation_byte_len(a) ==
    allocations[a].elements
       * element_bytes(Resource(allocations[a].resources[1]).shape,
                       allocations[a].scalar)

resource_byte_len(i) ==
    Resource(i).elements * element_bytes(Resource(i).shape, Resource(i).scalar)

\* Every resource fits into the allocation it was given.
AllocationsFit ==
    step = "run" =>
       \A i \in ResourceIds(program) :
          resource_byte_len(i)
             <= program_allocation_byte_len(resource_allocations[i])

\* program_allocation_preparation, the contract for caller-owned storage,
\* takes every allocation the planner makes: one shape, and at most one
\* immutable initializer that is not mixed with another kind.
PreparationAccepts ==
    step = "run" =>
       \A a \in DOMAIN allocations :
          LET R == ResourcesOf(a)
              tables == {k \in DOMAIN allocations[a].resources :
                            Resource(allocations[a].resources[k]).init = "Table"}
          IN /\ \A i, j \in R : Resource(i).shape = Resource(j).shape
             /\ Cardinality(tables) <= 1
             /\ tables # {} => /\ ~ \E i \in R : zero_fill(i)
                               /\ allocations[a].kind = "LookupTable"
=============================================================================
