-------------------------- MODULE MCProgramMemory --------------------------
(* Programs for ProgramMemory.  Resource 1 is the input, 2 the output, 3 to *)
(* 5 are scratch, or 3 and 4 lookup tables and 5 scratch.                   *)
EXTENDS ProgramMemory

R(kind, scalar, elements, shape, init, table) ==
    [kind |-> kind, scalar |-> scalar, elements |-> elements,
     shape |-> shape, init |-> init, table |-> table]
In(scalar)  == R("Input", scalar, 2, "Complex", "ExternalInput", 0)
Out(scalar) == R("Output", scalar, 2, "Complex", "Zeroed", 0)
Scratch(scalar, elements, shape) ==
    R("Scratch", scalar, elements, shape, "Zeroed", 0)
Table(elements, table) ==
    R("LookupTable", "F32", elements, "Complex", "Table", table)

B(resource, role, access) ==
    [resource |-> resource, role |-> role, access |-> access]
Pass(x, y, access) ==
    <<B(x, "Input", "ReadOnly"), B(y, "Output", access)>>

\* A scratch resource is read or written for the first time before those with
\* higher numbers: programs that differ in the names of scratch are the same.
InOrder(reads, writes) ==
    \A n \in DOMAIN reads :
       \A i \in {reads[n], writes[n]} \cap {4, 5} :
          \E k \in 1 .. n : i - 1 \in {reads[k], writes[k]}

\* Three passes into scratch or the output, reading anything, and a last one
\* into the output.  One pass may also accumulate into its scratch output.
Chains ==
    LET Edges == {<<x, y, z>> \in [1 .. 4 -> 1 .. 5] \X [1 .. 4 -> 2 .. 5]
                                 \X [1 .. 3 -> {"WriteOnly", "ReadWrite"}] :
                    /\ x[1] = 1 /\ y[4] = 2 /\ InOrder(x, y)
                    /\ \A n \in 1 .. 4 : x[n] # y[n]
                    /\ \A n \in 1 .. 3 : z[n] = "ReadWrite" =>
                          /\ y[n] # 2
                          /\ \A k \in 1 .. n - 1 : z[k] = "WriteOnly"}
    IN {<<Pass(e[1][1], e[2][1], e[3][1]), Pass(e[1][2], e[2][2], e[3][2]),
          Pass(e[1][3], e[2][3], e[3][3]), Pass(e[1][4], 2, "WriteOnly")>> :
        e \in Edges}

ScratchOf ==
    {<<Scratch("F32", 1, "Complex"), Scratch("F32", 2, "Complex"),
       Scratch("F32", 1, "Complex")>>,
     <<Scratch("F32", 2, "Complex"), Scratch("F32", 1, "Scalar"),
       Scratch("F32", 3, "Complex")>>}

ChainPrograms ==
    {[scalar |-> "F32", resources |-> <<In("F16"), Out("F32")>> \o s,
      passes |-> p] : s \in ScratchOf, p \in Chains}

\* Two tables of one or two sizes and values, bound with the role of a table
\* or as plain input and output, which validate refuses if it writes them.
WithTable(i, role, access, x, y) ==
    Pass(x, y, "WriteOnly") \o <<B(i, role, access)>>

TablePrograms(roles, accesses) ==
    {[scalar |-> "F32",
      resources |-> <<In("F32"), Out("F32"), t, u,
                      Scratch("F32", 2, "Complex")>>,
      passes |-> <<WithTable(3, "LookupTable", "ReadOnly", 1, 5),
                   WithTable(4, role, access, 5, 2),
                   WithTable(4, "TwiddleLookupTable", "ReadOnly", 1, 5),
                   WithTable(3, "LookupTable", "ReadOnly", 5, 2)>>] :
     t \in {Table(2, 1), Table(1, 3)}, u \in {Table(2, 1), Table(2, 2)},
     role \in roles, access \in accesses}

UniformPrograms ==
    ChainPrograms \cup TablePrograms({"LookupTable", "Output"},
                                     {"ReadOnly", "WriteOnly"})

\* What the builders emit: two children that each bring the same table.
ChildrenWithTables == TablePrograms({"LookupTable"}, {"ReadOnly"})

\* ProgramIr::double_double_recursive of a Cooley-Tukey root with F64 storage
\* and zero padding: the padded input is F64 scratch, the rest double-double.
PaddedDoubleDouble ==
    {[scalar |-> "DoubleDouble",
      resources |-> <<In("F64"), Out("F64"),
                      Scratch("DoubleDouble", 2, "Complex"),
                      Scratch("DoubleDouble", 2, "Complex"),
                      Scratch("DoubleDouble", 2, "Complex"),
                      Scratch("DoubleDouble", 2, "Complex"),
                      Scratch("F64", 2, "Complex")>>,
      passes |-> <<Pass(1, 7, "WriteOnly"), Pass(7, 3, "WriteOnly"),
                   Pass(3, 4, "WriteOnly"), Pass(4, 5, "WriteOnly"),
                   Pass(5, 6, "WriteOnly"), Pass(6, 2, "WriteOnly")>>]}
=============================================================================
