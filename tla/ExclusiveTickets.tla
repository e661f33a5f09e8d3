-------------------------- MODULE ExclusiveTickets --------------------------
(***************************************************************************)
(* What the multi-in-flight submission of the runtimes promises, whatever  *)
(* the device API and however many kinds of resource there are: a resource *)
(* has one owner at a time, the device uses only resources of the ticket   *)
(* that submitted them, and no resource leaves its owner, to be reused or  *)
(* destroyed, before the device is done with it.                           *)
(***************************************************************************)
CONSTANTS
    Resource,  \* buffers, descriptor instances, command-buffer/fence slots
    Ticket,    \* the calls that own resources while their work is in flight
    Free,      \* owner of what may be handed out: pooled or not yet created
    Shared     \* owner of what the context keeps for good

VARIABLES
    owner,     \* who each resource belongs to
    busy       \* the resources the device may still access

ticketVars == <<owner, busy>>
Owners == Ticket \cup {Free, Shared}

Init == owner = [r \in Resource |-> Free] /\ busy = {}

Moved == {r \in Resource : owner'[r] # owner[r]}

\* Free resources become the property of one ticket.
Acquire(t) ==
    /\ owner' \in [Resource -> Owners]
    /\ \A r \in Moved : owner[r] = Free /\ owner'[r] = t
    /\ UNCHANGED busy

\* A ticket gives some of its resources back, none that the device uses.
Release(t) ==
    /\ owner' \in [Resource -> Owners]
    /\ \A r \in Moved : owner[r] = t /\ owner'[r] \in {Free, Shared}
    /\ Moved \cap busy = {}
    /\ UNCHANGED busy

\* The context takes a free resource for good, or gives up the ones it kept.
Keep ==
    /\ owner' \in [Resource -> Owners]
    /\ \A r \in Moved : {owner[r], owner'[r]} = {Free, Shared}
    /\ Moved \cap busy = {}
    /\ UNCHANGED busy

\* A ticket submits work that uses what it owns.
Submit(t) ==
    /\ busy' \subseteq busy \cup {r \in Resource : owner[r] = t}
    /\ busy \subseteq busy'
    /\ UNCHANGED owner

\* The device finishes work, or is lost.
Finish == busy' \subseteq busy /\ UNCHANGED owner

Next == \/ \E t \in Ticket : Acquire(t) \/ Release(t) \/ Submit(t)
        \/ Keep \/ Finish

Spec == Init /\ [][Next]_ticketVars
=============================================================================
