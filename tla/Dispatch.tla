------------------------------ MODULE Dispatch ------------------------------
(***************************************************************************)
(* A device that executes the passes of a program.                         *)
(*                                                                         *)
(* The passes run one after the other, each behind the barrier of the      *)
(* previous one.  The workgroups of a pass, one per transform, start in    *)
(* the order of the dispatch; up to Resident of them are in flight, and    *)
(* each reads all its inputs before it stores, in any order with the       *)
(* others.  What the workgroup that starts is going to store, a set of     *)
(* pairs <<place, value>>, is the parameter of a step.                     *)
(***************************************************************************)
EXTENDS FftPasses

CONSTANT Resident   \* how many workgroups of a pass run at the same time

ASSUME ResidentAssumption == Resident \in Nat \ {0}

VARIABLES program,    \* the program that is executed
          pass,       \* the pass that is executed
          started,    \* how many of its workgroups were started
          inflight,   \* what each workgroup in flight is going to store
          stored,     \* the elements of the output resource that the pass has stored
          memory      \* the contents of every resource

deviceVars == <<program, pass, started, inflight, stored, memory>>

passes == program.passes

Submitted(p, contents) ==
  /\ program = p
  /\ pass = 1
  /\ started = 0
  /\ inflight = << >>
  /\ stored = {}
  /\ memory = contents

Running == pass <= Len(passes)
Current == passes[pass]
WorkgroupCount == Current.ir.batches

\* The next workgroup of the dispatch starts and reads its inputs.
Load(stores) ==
  /\ Running
  /\ started < WorkgroupCount
  /\ Cardinality(DOMAIN inflight) < Resident
  /\ inflight' = [w \in DOMAIN inflight \cup {started} |->
                    IF w = started THEN stores ELSE inflight[w]]
  /\ started' = started + 1
  /\ UNCHANGED <<program, pass, stored, memory>>

\* A workgroup in flight stores its outputs and ends.
Store(w) == /\ memory' = [memory EXCEPT ![Current.output] = Written(@, inflight[w])]
            /\ stored' = stored \cup {s[1] : s \in inflight[w]}
            /\ inflight' = [v \in DOMAIN inflight \ {w} |-> inflight[v]]
            /\ UNCHANGED <<program, pass, started>>

PassFinished == Running /\ started = WorkgroupCount /\ DOMAIN inflight = {}

\* The barrier: the next pass starts when every workgroup of this one has ended.
NextPass == /\ PassFinished
            /\ pass' = pass + 1
            /\ started' = 0
            /\ stored' = {}
            /\ UNCHANGED <<program, inflight, memory>>

Dispatch(stores) ==
  \/ Load(stores)
  \/ \E w \in DOMAIN inflight : Store(w)
  \/ NextPass

-----------------------------------------------------------------------------
\* Every resource keeps its length, and a workgroup stores to elements of the output
\* resource of its pass.
TypeOK ==
  /\ pass \in 1 .. Len(passes) + 1
  /\ Running => started \in 0 .. WorkgroupCount
  /\ \A r \in DOMAIN program.resources :
       DOMAIN memory[r] = 0 .. program.resources[r].elements - 1
  /\ \A w \in DOMAIN inflight : \A s \in inflight[w] :
       s[1] \in DOMAIN memory[Current.output]

\* No value that is stored comes from memory that nobody wrote: no pass relies on
\* what a scratch resource holds before the program, or on a cell that a fused or
\* dropped pass was to write.
NothingFromUnwritten ==
  \A w \in DOMAIN inflight : \A s \in inflight[w] : Defined(s[2])

\* The workgroups of a pass, whatever the order they run in, do not see each
\* other: no two store the same element, no workgroup stores an element twice, and
\* no pass reads the resource that it writes.
WorkgroupsIndependent ==
  /\ \A w \in DOMAIN inflight :
       LET targets == {s[1] : s \in inflight[w]}
       IN  /\ Cardinality(targets) = Cardinality(inflight[w])
           /\ targets \cap stored = {}
           /\ \A v \in DOMAIN inflight \ {w} :
                targets \cap {s[1] : s \in inflight[v]} = {}
  /\ Running => Current.output \notin {Current.input, Current.lookup, Current.auxiliary}

=============================================================================
