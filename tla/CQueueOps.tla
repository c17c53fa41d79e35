------------------------------ MODULE CQueueOps ------------------------------
(***************************************************************************)
(* decode/cqueue.c as operators on one record, the struct cqueue.  Each    *)
(* function of the file is the operator of the same name: it maps the      *)
(* struct before the call to the struct after it.  An element is the       *)
(* pointer the caller hands in; NULL is the null pointer.                  *)
(***************************************************************************)
EXTENDS Integers

CONSTANT NULL

INVALID == -1

\* struct cqueue *cqueue_create(int size)
cqueue_create(size) ==
    [size  |-> size,
     items |-> [i \in 0 .. size - 1 |-> NULL],
     front |-> INVALID,
     rear  |-> INVALID]

\* int cqueue_items(struct cqueue *cq)
cqueue_items(q) ==
    IF q.rear = INVALID THEN 0
    ELSE IF q.rear >= q.front THEN q.rear - q.front + 1
    ELSE q.size - q.front + q.rear + 1

\* The assertion inside cqueue_items.
ItemsAsserts(q) == q.rear = INVALID => q.front = INVALID

-----------------------------------------------------------------------------
(* Plausible slips in cqueue_remove and cqueue_add, kept for the mutation   *)
(* checks of the properties.                                                *)

\* front advances without wrapping at the end of the array
RemoveNoWrap(q) ==
    LET last == cqueue_items(q) = 1
    IN  [q EXCEPT !.items[q.front] = NULL,
                  !.front = IF last THEN INVALID ELSE q.front + 1,
                  !.rear  = IF last THEN INVALID ELSE @]

\* the removed slot keeps its pointer
RemoveKeepsSlot(q) ==
    LET last == cqueue_items(q) = 1
    IN  [q EXCEPT !.front = IF last THEN INVALID ELSE (q.front + 1) % q.size,
                  !.rear  = IF last THEN INVALID ELSE @]

\* taking the last element resets front and forgets rear
RemoveKeepsRear(q) ==
    [q EXCEPT !.items[q.front] = NULL,
              !.front = IF cqueue_items(q) = 1 THEN INVALID
                        ELSE (q.front + 1) % q.size]

\* void *cqueue_remove(struct cqueue *cq), its effect on the struct
cqueue_remove(q) ==
    LET last_item == cqueue_items(q) = 1
    IN  [size  |-> q.size,
         items |-> [q.items EXCEPT ![q.front] = NULL],
         front |-> IF last_item THEN INVALID ELSE (q.front + 1) % q.size,
         rear  |-> IF last_item THEN INVALID ELSE q.rear]

\* void *cqueue_front(const struct cqueue *cq)
cqueue_front(q) == q.items[q.front]

-----------------------------------------------------------------------------
\* cqueue_add that forgets to make room when the queue is full
AddNoEviction(q, e) ==
    LET rear == (q.rear + 1) % q.size
    IN  [q EXCEPT !.items[rear] = e,
                  !.front = IF cqueue_items(q) = 0 THEN @ + 1 ELSE @,
                  !.rear  = rear]

\* void cqueue_add(struct cqueue *cq, void *element): first_item is computed
\* before a full queue gives up its oldest element.
cqueue_add(q, e) ==
    LET first_item == cqueue_items(q) = 0
        room == IF cqueue_items(q) < q.size THEN q ELSE cqueue_remove(q)
        rear == (room.rear + 1) % q.size
    IN  [size  |-> q.size,
         items |-> [room.items EXCEPT ![rear] = e],
         front |-> IF first_item THEN room.front + 1 ELSE room.front,
         rear  |-> rear]

\* The assertions a call of cqueue_add evaluates, in its own body and in the
\* functions it calls.
AddAsserts(q) ==
    /\ ItemsAsserts(q)
    /\ cqueue_items(q) <= q.size
    /\ cqueue_items(q) = q.size =>
          /\ cqueue_items(q) # 0
          /\ ItemsAsserts(cqueue_remove(q))
          /\ cqueue_items(cqueue_remove(q)) < q.size

-----------------------------------------------------------------------------
(* What the struct stands for.                                              *)

\* The index that lies k places after index i in an array of n slots.
Slot(i, k, n) == IF i + k < n THEN i + k ELSE i + k - n

\* The queued elements, oldest first.
Contents(q) ==
    [k \in 1 .. cqueue_items(q) |-> q.items[Slot(q.front, k - 1, q.size)]]

\* Slot i lies on the arc from front round to rear.
OnArc(q, i) ==
    /\ q.rear # INVALID
    /\ IF q.rear >= q.front THEN q.front <= i /\ i <= q.rear
       ELSE q.front <= i \/ i <= q.rear
=============================================================================
