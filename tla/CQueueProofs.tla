----------------------------- MODULE CQueueProofs -----------------------------
(***************************************************************************)
(* Proofs about the circular queue, for every set of pointers and every    *)
(* set of sizes that leaves out 1 (a queue of one slot is broken by its    *)
(* second cqueue_add, see ItemsWithinSize).                                *)
(***************************************************************************)
EXTENDS CQueue, Lemmas

-----------------------------------------------------------------------------
(* The invariant of the specification.                                      *)

Inv == IsRing(cq, Elem) /\ result \in Elem \cup {NoResult} /\ NoAssertionFails
                  /\ cq.size \in Sizes

\* A new queue is in good order.
LEMMA InitInv == ASSUME 1 \notin Sizes, Init PROVE Inv
<1>1. PICK size \in Sizes : cq = cqueue_create(size)
  BY DEF Init
<1>2. size \in Nat \ {0, 1}
  BY SizesAssumption
<1>3. /\ cq.size = size
      /\ cq.items = [i \in 0 .. size - 1 |-> NULL]
      /\ cq.front = INVALID
      /\ cq.rear = INVALID
      /\ cq = [size |-> size, items |-> cq.items,
               front |-> INVALID, rear |-> INVALID]
  BY <1>1 DEF cqueue_create
<1>4. IsRing(cq, Elem)
  BY <1>2, <1>3 DEF IsRing, OnArc, INVALID
<1> QED
  BY <1>3, <1>4 DEF Init, Inv, NoAssertionFails

\* Every call keeps the invariant.
LEMMA NextInv == ASSUME Inv, [Next]_vars PROVE Inv'
<1>1. NULL \notin Elem /\ NoResult \notin Elem
  BY ElemAssumption
<1>2. ASSUME NEW e \in Elem, Add(e) PROVE Inv'
  <2>1. IsRing(cqueue_add(cq, e), Elem) /\ AddAsserts(cq)
    BY <1>1, AddKeepsRing DEF Inv
  <2>2. cqueue_add(cq, e).size = cq.size
    BY DEF cqueue_add
  <2> QED
    BY <1>2, <2>1, <2>2 DEF Add, Inv, NoAssertionFails
<1>3. cqueue_items(cq) # 0 => Loaded \subseteq Elem
  <2>1. cqueue_items(cq) # 0 => cq.front \in 0 .. cq.size - 1 /\ OnArc(cq, cq.front)
    BY CountOfRing DEF Inv, IsRing, OnArc, INVALID
  <2> QED
    BY <2>1 DEF Loaded, cqueue_front, Inv, IsRing, INVALID
<1>4. CASE Remove
  <2>1. IsRing(cqueue_remove(cq), Elem)
    BY <1>1, <1>4, RemoveKeepsRing DEF Remove, Inv
  <2>2. cqueue_remove(cq).size = cq.size
    BY DEF cqueue_remove
  <2> QED
    BY <1>3, <1>4, <2>1, <2>2 DEF Remove, Inv, NoAssertionFails
<1>5. CASE Front
  BY <1>1, <1>3, <1>5 DEF Front, Inv, NoAssertionFails
<1>6. CASE UNCHANGED vars
  BY <1>6 DEF vars, Inv, NoAssertionFails
<1> QED
  BY <1>2, <1>4, <1>5, <1>6 DEF Next

\* Every reachable queue is in good order.
LEMMA Invariance == ASSUME 1 \notin Sizes PROVE Spec => []Inv
<1>1. Init => Inv
  BY InitInv
<1>2. Inv /\ [Next]_vars => Inv'
  BY NextInv
<1> QED
  BY <1>1, <1>2, PTL DEF Spec

\* The struct keeps its shape: front and rear never leave the array.
THEOREM TypeCorrect == ASSUME 1 \notin Sizes PROVE Spec => []TypeOK
<1>1. Inv => TypeOK
  BY DEF Inv, IsRing, TypeOK, NoAssertionFails
<1> QED
  BY <1>1, Invariance, PTL

\* The slots between front and rear, and only they, hold a pointer, so that a
\* full queue has no NULL slot.
THEOREM RingAlwaysConsistent ==
    ASSUME 1 \notin Sizes PROVE Spec => []RingConsistent
<1>1. Inv => RingConsistent
  BY DEF Inv, IsRing, RingConsistent
<1> QED
  BY <1>1, Invariance, PTL

\* No assertion of cqueue.c fails in any order of legal calls.
THEOREM AssertionsHold ==
    ASSUME 1 \notin Sizes PROVE Spec => []NoAssertionFails
<1>1. Inv => NoAssertionFails
  BY DEF Inv
<1> QED
  BY <1>1, Invariance, PTL

\* The circular queue implements the bounded FIFO: every call of cqueue.c is
\* the FIFO's operation of the same purpose, for every size but 1.
THEOREM Refinement == ASSUME 1 \notin Sizes PROVE Spec => ImplementsFifo
<1>1. NULL \notin Elem /\ NoResult \notin Elem
  BY ElemAssumption
<1>2. Init => Fifo!Init
  <2> SUFFICES ASSUME Init PROVE Fifo!Init
    OBVIOUS
  <2>1. IsRing(cq, Elem) /\ cq.size \in Sizes
    BY InitInv DEF Inv
  <2>2. cqueue_items(cq) = 0
    BY DEF Init, cqueue_create, cqueue_items
  <2>3. Contents(cq) = <<>>
    BY <2>1, <2>2, ContentsType
  <2> QED
    BY <2>1, <2>3 DEF Fifo!Init, Init
<1>3. ASSUME Inv, [Next]_vars PROVE [Fifo!Next]_(Fifo!fifoVars)
  <2>1. IsRing(cq, Elem)
    BY <1>3 DEF Inv
  <2>2. ASSUME NEW e \in Elem, Add(e) PROVE Fifo!Put(e)
    <3>1. cq' = cqueue_add(cq, e) /\ result' = NoResult
      BY <1>1, <2>1, <2>2, AddKeepsRing DEF Add
    <3>2. Contents(cq)' = Contents(cqueue_add(cq, e)) /\ (cq.size)' = cq.size
      BY <3>1 DEF cqueue_add, Contents, cqueue_items
    <3>3. Len(Contents(cq)) = cqueue_items(cq)
      BY <2>1, ContentsType
    <3> QED
      BY <1>1, <2>1, <3>1, <3>2, <3>3, AddIsPut DEF Fifo!Put
  <2>3. cqueue_items(cq) # 0 => Loaded = {Head(Contents(cq))}
    BY <1>1, <2>1, CountOfRing, RemoveIsTake DEF Loaded
  <2>4. CASE Remove
    <3>1. Contents(cq)' = Contents(cqueue_remove(cq)) /\ (cq.size)' = cq.size
      BY <2>4 DEF Remove, cqueue_remove, Contents, cqueue_items
    <3>2. Fifo!Take
      BY <1>1, <2>1, <2>3, <2>4, <3>1, RemoveIsTake DEF Remove, Fifo!Take
    <3> QED
      BY <3>2 DEF Fifo!Next
  <2>5. CASE Front
    <3>1. cq' = cq /\ Contents(cq)' = Contents(cq)
      BY <2>5 DEF Front, Contents, cqueue_items
    <3>2. Fifo!Peek
      BY <1>1, <2>1, <2>3, <2>5, <3>1, RemoveIsTake DEF Front, Fifo!Peek
    <3> QED
      BY <3>2 DEF Fifo!Next
  <2>6. CASE UNCHANGED vars
    BY <2>6 DEF vars, Fifo!fifoVars, Contents, cqueue_items
  <2> QED
    BY <1>3, <2>2, <2>4, <2>5, <2>6 DEF Next, Fifo!Next
<1> QED
  BY <1>2, <1>3, Invariance, PTL DEF Spec, ImplementsFifo, Fifo!Spec
=============================================================================
