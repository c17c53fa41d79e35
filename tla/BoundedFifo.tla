----------------------------- MODULE BoundedFifo -----------------------------
(***************************************************************************)
(* What the circular queue of decode promises its callers: a FIFO of at    *)
(* most cap elements that never refuses an element.  Adding to a full      *)
(* queue drops the oldest element first, so that the queue always holds    *)
(* the latest min(cap, number added) elements that were not removed.       *)
(***************************************************************************)
EXTENDS Integers, Sequences

CONSTANTS
    Elem,    \* what can be queued
    Caps,    \* the capacities a queue can be created with
    NoResult \* the result of a call that returns nothing

VARIABLES
    cap,     \* the capacity chosen when the queue was created
    queue,   \* the elements, oldest first
    result   \* what the latest call returned

fifoVars == <<cap, queue, result>>

Init ==
    /\ cap \in Caps
    /\ queue = <<>>
    /\ result = NoResult

\* The element enters at the back; the oldest leaves when there is no room.
Put(e) ==
    /\ queue' = Append(IF Len(queue) = cap THEN Tail(queue) ELSE queue, e)
    /\ result' = NoResult
    /\ UNCHANGED cap

\* The oldest element leaves and is returned.
Take ==
    /\ queue # <<>>
    /\ result' = Head(queue)
    /\ queue' = Tail(queue)
    /\ UNCHANGED cap

\* The oldest element is returned and stays.
Peek ==
    /\ queue # <<>>
    /\ result' = Head(queue)
    /\ UNCHANGED <<cap, queue>>

Next == Take \/ Peek \/ \E e \in Elem : Put(e)

Spec == Init /\ [][Next]_fifoVars
=============================================================================
