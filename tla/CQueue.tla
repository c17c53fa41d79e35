-------------------------------- MODULE CQueue --------------------------------
(***************************************************************************)
(* The circular queue of decode/cqueue.c as a state machine: a client      *)
(* creates one queue and calls its functions in any legal order.  A call   *)
(* whose assertions fail ends the process, which is the status "aborted".  *)
(*                                                                         *)
(* A client calls cqueue_remove and cqueue_front on a non-empty queue only *)
(* (the assertion of the one, the NULL check of the other) and never adds  *)
(* a null pointer (the assertion of cqueue_add).                           *)
(***************************************************************************)
EXTENDS CQueueOps, Sequences

CONSTANTS
    Elem,    \* the pointers a client may add
    Sizes,   \* the sizes a client may create a queue with
    NoResult \* the result of a call that returns nothing

ASSUME ElemAssumption  == NULL \notin Elem /\ NoResult \notin Elem
ASSUME SizesAssumption == Sizes \subseteq Nat \ {0}

VARIABLES
    cq,      \* the struct cqueue
    result,  \* what the latest call returned
    status   \* "running", or "aborted" by a failed assertion

vars == <<cq, result, status>>

-----------------------------------------------------------------------------
Init ==
    /\ \E size \in Sizes : cq = cqueue_create(size)
    /\ result = NoResult
    /\ status = "running"

Add(e) ==
    /\ status = "running"
    /\ IF AddAsserts(cq)
       THEN cq' = cqueue_add(cq, e) /\ UNCHANGED status
       ELSE status' = "aborted" /\ UNCHANGED cq
    /\ result' = NoResult

\* What a load of items[front] can yield: with front INVALID it reads the
\* word before the array, which may hold anything.
Loaded == IF cq.front = INVALID THEN Elem \cup {NULL} ELSE {cqueue_front(cq)}

Remove ==
    /\ status = "running"
    /\ cqueue_items(cq) # 0
    /\ result' \in Loaded
    /\ cq' = cqueue_remove(cq)
    /\ UNCHANGED status

Front ==
    /\ status = "running"
    /\ cqueue_items(cq) # 0
    /\ result' \in Loaded
    /\ status' = IF result' = NULL THEN "aborted" ELSE status
    /\ UNCHANGED cq

Next == Remove \/ Front \/ \E e \in Elem : Add(e)

Spec == Init /\ [][Next]_vars

-----------------------------------------------------------------------------
(* The properties.                                                          *)

\* The shape of the struct: cqueue_create's fields, kept by every call.
TypeOK ==
    /\ cq.size \in Sizes
    /\ cq \in [size  : {cq.size},
               items : [0 .. cq.size - 1 -> Elem \cup {NULL}],
               front : INVALID .. cq.size - 1,
               rear  : INVALID .. cq.size - 1]
    /\ result \in Elem \cup {NoResult}
    /\ status \in {"running", "aborted"}

\* A queue never counts more elements than it has slots: the assertion of
\* cqueue.c:66.
ItemsWithinSize == cqueue_items(cq) <= cq.size

\* front and rear are INVALID together, and a slot is NULL exactly when it
\* lies outside the arc from front to rear.  The loops of decode.c:503 and
\* window.c:111 read items[0 .. size-1] of a full queue directly and assert
\* that none is NULL: that is this invariant for a full queue.
RingConsistent ==
    /\ cq.front = INVALID <=> cq.rear = INVALID
    /\ \A i \in 0 .. cq.size - 1 : cq.items[i] # NULL <=> OnArc(cq, i)

\* No assertion of cqueue_items, cqueue_add or cqueue_remove fails whatever
\* the order of legal calls (cqueue.c:47, 66, 78, 105).
NoAssertionFails == status = "running"

\* The circular queue is a FIFO that drops its oldest element when it is
\* full: what test-cqueue.c:34-49 checks for one order of calls of a queue
\* of five.
Fifo == INSTANCE BoundedFifo WITH
            Caps  <- Sizes,
            cap   <- cq.size,
            queue <- Contents(cq)
ImplementsFifo == Fifo!Spec
=============================================================================
