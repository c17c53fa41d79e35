-------------------------------- MODULE Lemmas --------------------------------
(***************************************************************************)
(* Lemmas that the proofs about several components cite: induction on      *)
(* natural numbers, for sets of them, and what recursion yields; the       *)
(* functions of decode/cqueue.c, for every set of pointers and every size  *)
(* but 1; the code words of levenshtein-new.c, for every legal size of the *)
(* messages; and the sum of a histogram.                                   *)
(***************************************************************************)
EXTENDS CQueueOps, CodeBook, Functions, SequenceTheorems, FiniteSetTheorems,
        WellFoundedInduction, TLAPS

(* Induction.  The theorems of the library take the induction hypothesis as *)
(* an operator; here it is the set of the numbers that have it, which any   *)
(* prover can instantiate.                                                  *)

Below == {x \in Nat \X Nat : x[1] < x[2]}

LEMMA BelowIsWellFounded == IsWellFoundedOn(Below, Nat)
<1>1. OpToRel(<, Nat) = Below
  BY Zenon DEF OpToRel, Below
<1> QED
  BY <1>1, NatLessThanWellFounded, Zenon

\* A set of natural numbers with 0 and all successors has them all.
LEMMA Induction ==
    ASSUME NEW T, 0 \in T, \A n \in Nat : n \in T => n + 1 \in T
    PROVE  Nat \subseteq T
<1> DEFINE F == Nat \ T
<1>1. SUFFICES ASSUME F # {} PROVE FALSE
  OBVIOUS
<1>2. PICK x \in F : \A y \in F : ~ (<<y, x>> \in Below)
  <2>1. F \subseteq Nat
    OBVIOUS
  <2> HIDE DEF F
  <2> QED
    BY <1>1, <2>1, BelowIsWellFounded, WFMin
<1>3. x # 0 /\ x - 1 \in Nat
  OBVIOUS
<1>4. <<x - 1, x>> \in Below
  BY <1>3 DEF Below
<1>5. x - 1 \in T /\ (x - 1) + 1 = x
  BY <1>2, <1>3, <1>4
<1> QED
  BY <1>3, <1>5

\* The same for the numbers up to m.
LEMMA InductionTo ==
    ASSUME NEW T, NEW m \in Nat, 0 \in T,
           \A n \in 0 .. m - 1 : n \in T => n + 1 \in T
    PROVE  0 .. m \subseteq T
<1> DEFINE U == T \cup {n \in Nat : n > m}
<1>1. 0 \in U /\ \A n \in Nat : n \in U => n + 1 \in U
  OBVIOUS
<1>2. Nat \subseteq U
  <2> HIDE DEF U
  <2> QED
    BY <1>1, Induction
<1> QED
  BY <1>2

\* What a function f[k \in 0 .. m] == IF k = 0 THEN base ELSE ... f[k - 1] ...
\* must be, step[k] making its value at k of that at k - 1.
Recurs(f, S, base, step, m) ==
    /\ f \in [0 .. m -> S]
    /\ f[0] = base
    /\ \A k \in 1 .. m : f[k] = step[k][f[k - 1]]

\* There is such a function.
LEMMA Recursion ==
    ASSUME NEW S, NEW base \in S, NEW m \in Nat, NEW step \in [1 .. m -> [S -> S]]
    PROVE  \E f : Recurs(f, S, base, step, m)
<1> DEFINE T == {n \in 0 .. m : \E f : Recurs(f, S, base, step, n)}
<1>1. 0 \in T
  <2> DEFINE f == [k \in 0 .. 0 |-> base]
  <2>1. Recurs(f, S, base, step, 0)
    BY DEF Recurs
  <2> HIDE DEF f
  <2>2. 0 \in 0 .. m
    OBVIOUS
  <2> QED
    BY <2>1, <2>2
<1>2. ASSUME NEW n \in 0 .. m - 1, n \in T
      PROVE  n + 1 \in T
  <2>1. PICK f : Recurs(f, S, base, step, n)
    BY <1>2
  <2> DEFINE g == [k \in 0 .. n + 1 |->
                      IF k <= n THEN f[k] ELSE step[n + 1][f[n]]]
  <2>2. f[n] \in S /\ step[n + 1] \in [S -> S] /\ step[n + 1][f[n]] \in S
    BY <2>1 DEF Recurs
  <2>3. g \in [0 .. n + 1 -> S]
    BY <2>1, <2>2 DEF Recurs
  <2>4. \A k \in 0 .. n : g[k] = f[k]
    OBVIOUS
  <2>5. g[n + 1] = step[n + 1][f[n]]
    OBVIOUS
  <2> HIDE DEF g
  <2>6. g[0] = base
    BY <2>1, <2>4 DEF Recurs
  <2>7. ASSUME NEW k \in 1 .. n + 1 PROVE g[k] = step[k][g[k - 1]]
    <3>1. CASE k = n + 1
      BY <2>4, <2>5, <3>1
    <3>2. CASE k \in 1 .. n
      <4>1. g[k] = f[k] /\ g[k - 1] = f[k - 1] /\ f[k] = step[k][f[k - 1]]
        BY <2>1, <2>4, <3>2 DEF Recurs
      <4> QED
        BY <4>1
    <3> QED
      BY <3>1, <3>2
  <2>8. Recurs(g, S, base, step, n + 1)
    BY <2>3, <2>6, <2>7 DEF Recurs
  <2> QED
    BY <2>8
<1>3. 0 .. m \subseteq T
  <2> HIDE DEF T
  <2> QED
    BY <1>1, <1>2, InductionTo
<1> QED
  BY <1>3

-----------------------------------------------------------------------------
(* The circular queue.                                                      *)

\* A struct cqueue in good order: TypeOK and RingConsistent of one record.
IsRing(q, Ptr) ==
    /\ q.size \in Nat \ {0, 1}
    /\ q \in [size  : {q.size},
              items : [0 .. q.size - 1 -> Ptr \cup {NULL}],
              front : INVALID .. q.size - 1,
              rear  : INVALID .. q.size - 1]
    /\ q.front = INVALID <=> q.rear = INVALID
    /\ \A i \in 0 .. q.size - 1 : q.items[i] # NULL <=> OnArc(q, i)

\* The successor of an index in an array of n slots.
After(i, n) == IF i + 1 = n THEN 0 ELSE i + 1

\* The code steps around the array with %.
LEMMA StepAround ==
    ASSUME NEW n \in Nat \ {0}, NEW i \in -1 .. n - 1
    PROVE  (i + 1) % n = After(i, n)
<1>1. CASE i + 1 = n
  <2>1. n % n = 0
    BY SMT
  <2> QED
    BY <1>1, <2>1 DEF After
<1>2. CASE i + 1 # n
  <2>1. i + 1 \in 0 .. n - 1
    BY <1>2
  <2>2. ASSUME NEW j \in 0 .. n - 1 PROVE j % n = j
    BY SMT
  <2> QED
    BY <1>2, <2>1, <2>2 DEF After
<1> QED
  BY <1>1, <1>2

\* So does a counter taken % n, when it counts up.
LEMMA CountAround ==
    ASSUME NEW n \in Nat \ {0}, NEW k \in Nat
    PROVE  k % n \in 0 .. n - 1 /\ (k + 1) % n = After(k % n, n)
<1> DEFINE a == k \div n
           b == (k + 1) \div n
           r == k % n
           s == (k + 1) % n
           d == b - a
<1>1. /\ k = n * a + r /\ a \in Int /\ r \in 0 .. n - 1
      /\ k + 1 = n * b + s /\ b \in Int /\ s \in 0 .. n - 1
  OBVIOUS
<1> HIDE DEF a, b, r, s
<1>2. d \in Int /\ n * d = r + 1 - s
  BY <1>1
<1> HIDE DEF d
<1>3. (d >= 2 => n * d >= 2 * n) /\ (d <= -1 => n * d <= -n)
  BY <1>2
<1>4. d \in 0 .. 1
  BY <1>1, <1>2, <1>3
<1>5. s = After(r, n)
  BY <1>1, <1>2, <1>4 DEF After
<1> QED
  BY <1>1, <1>5 DEF r, s

\* A quotient lies between the factors that bound what is divided.
LEMMA DivideBetween ==
    ASSUME NEW c \in Nat \ {0}, NEW a \in Int, NEW lo \in Int, NEW hi \in Int,
           lo * c <= a, a <= hi * c
    PROVE  a \div c \in lo .. hi
<1> DEFINE d == a \div c
           r == a % c
<1>1. a = c * d + r /\ d \in Int /\ r \in 0 .. c - 1
  OBVIOUS
<1> HIDE DEF d, r
<1>2. ASSUME d < lo PROVE FALSE
  <2>1. d + 1 <= lo /\ c > 0
    BY <1>1, <1>2
  <2>2. c * (d + 1) <= c * lo
    BY <1>1, <2>1
  <2> QED
    BY <1>1, <2>2
<1>3. ASSUME d > hi PROVE FALSE
  <2>1. d - 1 >= hi /\ c > 0
    BY <1>1, <1>3
  <2>2. c * (d - 1) >= c * hi
    BY <1>1, <2>1
  <2> QED
    BY <1>1, <1>3, <2>2
<1>4. d \in lo .. hi
  BY <1>1, <1>2, <1>3
<1> QED
  BY <1>4 DEF d

\* The count of a queue in good order, and when it is empty, single and full.
LEMMA CountOfRing ==
    ASSUME NEW Ptr, NEW q, IsRing(q, Ptr)
    PROVE  /\ q.size \in Nat /\ q.size > 1
           /\ cqueue_items(q) \in 0 .. q.size
           /\ cqueue_items(q) = 0 <=> q.front = INVALID
           /\ q.rear = INVALID <=> q.front = INVALID
           /\ q.front # INVALID =>
                /\ q.front \in 0 .. q.size - 1 /\ q.rear \in 0 .. q.size - 1
                /\ cqueue_items(q) = 1 <=> q.front = q.rear
                /\ cqueue_items(q) = q.size <=> After(q.rear, q.size) = q.front
BY DEF IsRing, cqueue_items, INVALID, After

\* What cqueue_remove does to a non-empty queue in good order.
LEMMA RemoveFields ==
    ASSUME NEW Ptr, NEW q, IsRing(q, Ptr), cqueue_items(q) # 0
    PROVE  cqueue_remove(q) =
             [size  |-> q.size,
              items |-> [q.items EXCEPT ![q.front] = NULL],
              front |-> IF q.front = q.rear THEN INVALID
                        ELSE After(q.front, q.size),
              rear  |-> IF q.front = q.rear THEN INVALID ELSE q.rear]
<1>1. (q.front + 1) % q.size = After(q.front, q.size)
  BY StepAround DEF IsRing, INVALID
<1>2. cqueue_items(q) = 1 <=> q.front = q.rear
  BY CountOfRing
<1> QED
  BY <1>1, <1>2 DEF IsRing, cqueue_remove

\* cqueue_remove leaves a queue in good order in good order.
LEMMA RemoveKeepsRing ==
    ASSUME NEW Ptr, NEW q, IsRing(q, Ptr), cqueue_items(q) # 0, NULL \notin Ptr
    PROVE  IsRing(cqueue_remove(q), Ptr)
<1> DEFINE r == cqueue_remove(q)
<1>1. q.front \in 0 .. q.size - 1 /\ q.rear \in 0 .. q.size - 1
  BY CountOfRing DEF IsRing, INVALID
<1>2. /\ r.size = q.size
      /\ r.items = [q.items EXCEPT ![q.front] = NULL]
      /\ r.front = IF q.front = q.rear THEN INVALID ELSE After(q.front, q.size)
      /\ r.rear = IF q.front = q.rear THEN INVALID ELSE q.rear
  BY RemoveFields
<1>3. r \in [size  : {q.size},
             items : [0 .. q.size - 1 -> Ptr \cup {NULL}],
             front : INVALID .. q.size - 1,
             rear  : INVALID .. q.size - 1]
  <2>1. r.items \in [0 .. q.size - 1 -> Ptr \cup {NULL}]
    BY <1>1, <1>2 DEF IsRing
  <2>2. After(q.front, q.size) \in 0 .. q.size - 1
    BY <1>1 DEF After, IsRing
  <2>3. /\ r.front \in INVALID .. q.size - 1
        /\ r.rear \in INVALID .. q.size - 1
    BY <1>1, <1>2, <2>2 DEF INVALID, IsRing
  <2>4. r = [size |-> q.size, items |-> r.items,
             front |-> r.front, rear |-> r.rear]
    BY RemoveFields
  <2> HIDE DEF r
  <2> QED
    BY <2>1, <2>3, <2>4
<1>4. r.front = INVALID <=> r.rear = INVALID
  BY <1>1, <1>2 DEF INVALID, After, IsRing
<1>5. ASSUME NEW i \in 0 .. q.size - 1
      PROVE  r.items[i] # NULL <=> OnArc(r, i)
  <2>1. q.items[i] # NULL <=> OnArc(q, i)
    BY DEF IsRing
  <2>2. r.items[i] = IF i = q.front THEN NULL ELSE q.items[i]
    BY <1>2 DEF IsRing
  <2> HIDE DEF r
  <2>3. OnArc(r, i) <=> OnArc(q, i) /\ i # q.front
    BY <1>1, <1>2 DEF IsRing, OnArc, INVALID, After
  <2> QED
    BY <2>1, <2>2, <2>3
<1> HIDE DEF r
<1>6. q.size \in Nat \ {0, 1}
  BY DEF IsRing
<1>7. IsRing(r, Ptr)
  BY <1>2, <1>3, <1>4, <1>5, <1>6 DEF IsRing
<1> QED
  BY <1>7 DEF r

\* What cqueue_add does to a queue in good order that has room.
LEMMA AddFieldsWithRoom ==
    ASSUME NEW Ptr, NEW q, IsRing(q, Ptr), NEW e \in Ptr, cqueue_items(q) < q.size
    PROVE  cqueue_add(q, e) =
             [size  |-> q.size,
              items |-> [q.items EXCEPT ![After(q.rear, q.size)] = e],
              front |-> IF q.front = INVALID THEN 0 ELSE q.front,
              rear  |-> After(q.rear, q.size)]
<1>1. (q.rear + 1) % q.size = After(q.rear, q.size)
  BY StepAround DEF IsRing, INVALID
<1>2. cqueue_items(q) = 0 <=> q.front = INVALID
  BY CountOfRing
<1> QED
  BY <1>1, <1>2 DEF IsRing, cqueue_add, INVALID

\* What cqueue_add does to a full queue in good order: the new element takes
\* the slot of the oldest.
LEMMA AddFieldsFull ==
    ASSUME NEW Ptr, NEW q, IsRing(q, Ptr), NEW e \in Ptr, cqueue_items(q) = q.size,
           NULL \notin Ptr
    PROVE  /\ After(q.rear, q.size) = q.front
           /\ q.front # q.rear
           /\ cqueue_add(q, e) =
               [size  |-> q.size,
                items |-> [q.items EXCEPT ![q.front] = e],
                front |-> After(q.front, q.size),
                rear  |-> q.front]
<1> DEFINE r == cqueue_remove(q)
<1>1. q.front # INVALID /\ cqueue_items(q) # 0
  BY CountOfRing
<1>2. After(q.rear, q.size) = q.front
  BY <1>1, CountOfRing
<1>3. q.front # q.rear
  BY <1>1, CountOfRing
<1>4. r = [size  |-> q.size,
           items |-> [q.items EXCEPT ![q.front] = NULL],
           front |-> After(q.front, q.size),
           rear  |-> q.rear]
  BY <1>1, <1>3, RemoveFields
<1>5. (r.rear + 1) % q.size = q.front
  BY <1>2, <1>4, StepAround DEF IsRing, INVALID
<1>6. [r.items EXCEPT ![q.front] = e] = [q.items EXCEPT ![q.front] = e]
  BY <1>4 DEF IsRing
<1>7. cqueue_add(q, e) =
        [size  |-> q.size,
         items |-> [r.items EXCEPT ![(r.rear + 1) % q.size] = e],
         front |-> r.front,
         rear  |-> (r.rear + 1) % q.size]
  BY <1>1 DEF cqueue_add, IsRing
<1> QED
  BY <1>2, <1>3, <1>4, <1>5, <1>6, <1>7

\* cqueue_add leaves a queue in good order in good order, and none of the
\* assertions it evaluates fails.
LEMMA AddKeepsRing ==
    ASSUME NEW Ptr, NEW q, IsRing(q, Ptr), NEW e \in Ptr, NULL \notin Ptr
    PROVE  IsRing(cqueue_add(q, e), Ptr) /\ AddAsserts(q)
<1> DEFINE r == cqueue_add(q, e)
<1>1. CASE cqueue_items(q) < q.size
  <2>1. r = [size  |-> q.size,
             items |-> [q.items EXCEPT ![After(q.rear, q.size)] = e],
             front |-> IF q.front = INVALID THEN 0 ELSE q.front,
             rear  |-> After(q.rear, q.size)]
    BY <1>1, AddFieldsWithRoom
  <2>2. After(q.rear, q.size) \in 0 .. q.size - 1
    BY DEF After, IsRing, INVALID
  <2>3. q.front # INVALID => After(q.rear, q.size) # q.front
    BY <1>1, CountOfRing
  <2> HIDE DEF r
  <2>4. r \in [size  : {q.size},
               items : [0 .. q.size - 1 -> Ptr \cup {NULL}],
               front : INVALID .. q.size - 1,
               rear  : INVALID .. q.size - 1]
    BY <2>1, <2>2 DEF IsRing, INVALID
  <2>5. r.front # INVALID /\ r.rear # INVALID
    BY <2>1, <2>2 DEF IsRing, INVALID
  <2>6. ASSUME NEW i \in 0 .. q.size - 1
        PROVE  r.items[i] # NULL <=> OnArc(r, i)
    <3>1. q.items[i] # NULL <=> OnArc(q, i)
      BY DEF IsRing
    <3>2. r.items[i] = IF i = r.rear THEN e ELSE q.items[i]
      BY <2>1 DEF IsRing
    <3>3. OnArc(r, i) <=> OnArc(q, i) \/ i = r.rear
      BY <2>1, <2>2, <2>3 DEF IsRing, OnArc, INVALID, After
    <3> QED
      BY <3>1, <3>2, <3>3
  <2>7. IsRing(r, Ptr)
    BY <2>1, <2>4, <2>5, <2>6 DEF IsRing
  <2> QED
    BY <1>1, <2>7 DEF r, AddAsserts, ItemsAsserts, IsRing, cqueue_items
<1>2. CASE cqueue_items(q) = q.size
  <2>1. /\ After(q.rear, q.size) = q.front
        /\ q.front # q.rear
        /\ r = [size  |-> q.size,
                items |-> [q.items EXCEPT ![q.front] = e],
                front |-> After(q.front, q.size),
                rear  |-> q.front]
    BY <1>2, AddFieldsFull
  <2>2. q.front \in 0 .. q.size - 1 /\ After(q.front, q.size) \in 0 .. q.size - 1
    BY <1>2, CountOfRing DEF After
  <2>3. cqueue_items(q) # 0
    BY <1>2 DEF IsRing
  <2>4. IsRing(cqueue_remove(q), Ptr)
    BY <2>3, RemoveKeepsRing
  <2>5. cqueue_items(cqueue_remove(q)) < q.size
    <3> DEFINE m == cqueue_remove(q)
    <3>1. /\ m.size = q.size
          /\ m.front = After(q.front, q.size)
          /\ m.rear = q.rear
      BY <2>1, <2>3, RemoveFields
    <3>2. After(q.rear, q.size) # After(q.front, q.size)
      BY <2>1, <2>2 DEF After, IsRing
    <3>3. IsRing(m, Ptr)
      BY <2>4
    <3> HIDE DEF m
    <3>4. cqueue_items(m) \in 0 .. q.size /\ cqueue_items(m) # q.size
      BY <2>2, <3>1, <3>2, <3>3, CountOfRing DEF INVALID
    <3>5. cqueue_items(m) < q.size
      BY <3>4 DEF IsRing
    <3> QED
      BY <3>5 DEF m
  <2>6. AddAsserts(q)
    BY <1>2, <2>3, <2>4, <2>5 DEF AddAsserts, ItemsAsserts, IsRing
  <2> HIDE DEF r
  <2>7. r \in [size  : {q.size},
               items : [0 .. q.size - 1 -> Ptr \cup {NULL}],
               front : INVALID .. q.size - 1,
               rear  : INVALID .. q.size - 1]
    BY <2>1, <2>2 DEF IsRing, INVALID
  <2>8. ASSUME NEW i \in 0 .. q.size - 1
        PROVE  r.items[i] # NULL <=> OnArc(r, i)
    <3>1. q.items[i] # NULL <=> OnArc(q, i)
      BY DEF IsRing
    <3>2. r.items[i] = IF i = q.front THEN e ELSE q.items[i]
      BY <2>1 DEF IsRing
    <3>3. OnArc(r, i) /\ OnArc(q, i)
      BY <2>1, <2>2 DEF IsRing, OnArc, INVALID, After
    <3> QED
      BY <3>1, <3>2, <3>3
  <2>9. IsRing(r, Ptr)
    <3>1. r.size = q.size /\ q.size \in Nat \ {0, 1}
      BY <2>1 DEF IsRing
    <3>2. r.front # INVALID /\ r.rear # INVALID
      BY <2>1, <2>2 DEF IsRing, INVALID
    <3> QED
      BY <2>7, <2>8, <3>1, <3>2 DEF IsRing
  <2> QED
    BY <2>6, <2>9 DEF r
<1> QED
  BY <1>1, <1>2, CountOfRing

-----------------------------------------------------------------------------
(* What the functions do to the contents.                                   *)

\* The contents are a sequence of pointers, one for each counted element.
LEMMA ContentsType ==
    ASSUME NEW Ptr, NEW q, IsRing(q, Ptr)
    PROVE  /\ Contents(q) \in Seq(Ptr)
           /\ Len(Contents(q)) = cqueue_items(q)
<1>1. cqueue_items(q) \in Nat
  BY CountOfRing
<1>2. ASSUME NEW k \in 1 .. cqueue_items(q)
      PROVE  q.items[Slot(q.front, k - 1, q.size)] \in Ptr
  <2> DEFINE i == Slot(q.front, k - 1, q.size)
  <2>1. i \in 0 .. q.size - 1 /\ OnArc(q, i)
    BY CountOfRing DEF IsRing, Slot, OnArc, cqueue_items, INVALID
  <2> HIDE DEF i
  <2>2. q.items[i] \in Ptr
    BY <2>1 DEF IsRing
  <2> QED
    BY <2>2 DEF i
<1> QED
  BY <1>1, <1>2 DEF Contents

\* An element of the contents, by its place in the queue.
LEMMA ContentsAt ==
    ASSUME NEW q, NEW k \in 1 .. cqueue_items(q)
    PROVE  Contents(q)[k] = q.items[Slot(q.front, k - 1, q.size)]
BY DEF Contents

\* cqueue_add is the FIFO's Put.
LEMMA AddIsPut ==
    ASSUME NEW Ptr, NEW q, IsRing(q, Ptr), NEW e \in Ptr, NULL \notin Ptr
    PROVE  Contents(cqueue_add(q, e)) =
             Append(IF cqueue_items(q) = q.size THEN Tail(Contents(q))
                    ELSE Contents(q), e)
<1> DEFINE r == cqueue_add(q, e)
<1>1. IsRing(r, Ptr)
  BY AddKeepsRing
<1>2. /\ Contents(q) \in Seq(Ptr) /\ Len(Contents(q)) = cqueue_items(q)
      /\ Contents(r) \in Seq(Ptr) /\ Len(Contents(r)) = cqueue_items(r)
  BY <1>1, ContentsType
<1>3. CASE cqueue_items(q) < q.size
  <2> DEFINE n == cqueue_items(q)
             t == Append(Contents(q), e)
  <2>1. /\ r.size = q.size
        /\ r.items = [q.items EXCEPT ![After(q.rear, q.size)] = e]
        /\ r.front = IF q.front = INVALID THEN 0 ELSE q.front
        /\ r.rear = After(q.rear, q.size)
    BY <1>3, AddFieldsWithRoom
  <2>2. n \in 0 .. q.size - 1
    BY <1>3, CountOfRing
  <2> HIDE DEF r
  <2>3. cqueue_items(r) = n + 1
    BY <1>3, <2>1 DEF cqueue_items, IsRing, INVALID, After
  <2>4. /\ t \in Seq(Ptr) /\ Len(t) = n + 1 /\ t[n + 1] = e
        /\ \A k \in 1 .. n : t[k] = Contents(q)[k]
    BY <1>2, <2>2, AppendProperties
  <2>5. ASSUME NEW k \in 1 .. n + 1 PROVE Contents(r)[k] = t[k]
    <3>1. Contents(r)[k] = r.items[Slot(r.front, k - 1, q.size)]
      BY <2>1, <2>3, ContentsAt
    <3>2. CASE k = n + 1
      <4>1. Slot(r.front, n, q.size) = After(q.rear, q.size)
        <5>1. CASE q.front = INVALID
          <6>1. n = 0 /\ q.rear = INVALID /\ r.front = 0
            BY <2>1, <5>1, CountOfRing
          <6> QED
            BY <6>1 DEF IsRing, INVALID, After, Slot
        <5>2. CASE q.front # INVALID
          <6>1. r.front = q.front /\ q.rear # INVALID
            BY <2>1, <5>2 DEF IsRing
          <6> QED
            BY <5>2, <6>1 DEF cqueue_items, IsRing, INVALID, After, Slot
        <5> QED
          BY <5>1, <5>2
      <4>2. After(q.rear, q.size) \in 0 .. q.size - 1
        BY DEF After, IsRing, INVALID
      <4>3. r.items[After(q.rear, q.size)] = e
        BY <2>1, <4>2 DEF IsRing
      <4>4. k - 1 = n
        BY <2>2, <3>2
      <4> QED
        BY <2>4, <3>1, <3>2, <4>1, <4>3, <4>4
    <3>3. CASE k # n + 1
      <4>1. k \in 1 .. n
        BY <2>2, <3>3
      <4>2. t[k] = q.items[Slot(q.front, k - 1, q.size)]
        BY <2>4, <4>1, ContentsAt
      <4>3. q.front # INVALID
        BY <2>2, <4>1, CountOfRing
      <4>4. /\ Slot(q.front, k - 1, q.size) # After(q.rear, q.size)
            /\ Slot(q.front, k - 1, q.size) \in 0 .. q.size - 1
        BY <1>3, <4>1, <4>3 DEF cqueue_items, IsRing, INVALID, After, Slot
      <4>5. r.items[Slot(q.front, k - 1, q.size)] =
              q.items[Slot(q.front, k - 1, q.size)]
        BY <2>1, <4>4 DEF IsRing
      <4> QED
        BY <2>1, <3>1, <4>2, <4>3, <4>5
    <3> QED
      BY <3>2, <3>3
  <2>6. Contents(r) = t
    <3> HIDE DEF t
    <3> QED
      BY <1>2, <2>3, <2>4, <2>5, SeqEqual
  <2> QED
    BY <1>3, <2>2, <2>6 DEF r
<1>4. CASE cqueue_items(q) = q.size
  <2> DEFINE n == q.size
             t == Append(Tail(Contents(q)), e)
  <2>1. /\ After(q.rear, q.size) = q.front
        /\ q.front # q.rear
        /\ r.size = q.size
        /\ r.items = [q.items EXCEPT ![q.front] = e]
        /\ r.front = After(q.front, q.size)
        /\ r.rear = q.front
    BY <1>4, AddFieldsFull
  <2>2. n \in Nat /\ n > 1
    BY DEF IsRing
  <2>3. q.front \in 0 .. n - 1
    BY <1>4, CountOfRing
  <2> HIDE DEF r
  <2>4. cqueue_items(r) = n
    BY <2>1, <2>3 DEF cqueue_items, IsRing, INVALID, After
  <2>5. /\ Tail(Contents(q)) \in Seq(Ptr) /\ Len(Tail(Contents(q))) = n - 1
        /\ \A k \in 1 .. n - 1 : Tail(Contents(q))[k] = Contents(q)[k + 1]
    <3>1. Contents(q) # <<>>
      BY <1>2, <1>4, <2>2
    <3> QED
      BY <1>2, <1>4, <3>1, HeadTailProperties
  <2>6. /\ t \in Seq(Ptr) /\ Len(t) = n /\ t[n] = e
        /\ \A k \in 1 .. n - 1 : t[k] = Contents(q)[k + 1]
    <3> DEFINE u == Tail(Contents(q))
    <3>1. /\ Append(u, e) \in Seq(Ptr) /\ Len(Append(u, e)) = Len(u) + 1
          /\ \A k \in 1 .. Len(u) : Append(u, e)[k] = u[k]
          /\ Append(u, e)[Len(u) + 1] = e
      BY <2>5, AppendProperties
    <3> HIDE DEF u
    <3>2. Len(u) = n - 1 /\ \A k \in 1 .. n - 1 : u[k] = Contents(q)[k + 1]
      BY <2>5 DEF u
    <3>3. Len(u) + 1 = n
      BY <2>2, <3>2
    <3>4. t = Append(u, e)
      BY DEF u
    <3> QED
      BY <3>1, <3>2, <3>3, <3>4
  <2>7. ASSUME NEW k \in 1 .. n PROVE Contents(r)[k] = t[k]
    <3>1. Contents(r)[k] = r.items[Slot(r.front, k - 1, n)]
      <4>1. k \in 1 .. cqueue_items(r) /\ r.size = n
        BY <2>1, <2>4
      <4> QED
        BY <4>1, ContentsAt
    <3>2. CASE k = n
      <4>1. Slot(r.front, k - 1, n) = q.front
        BY <2>1, <2>2, <2>3, <3>2 DEF After, Slot
      <4>2. r.items[q.front] = e
        BY <2>1, <2>3 DEF IsRing
      <4> QED
        BY <2>6, <3>1, <3>2, <4>1, <4>2
    <3>3. CASE k # n
      <4>1. k \in 1 .. n - 1 /\ k + 1 \in 1 .. n
        BY <2>2, <3>3
      <4>2. t[k] = q.items[Slot(q.front, k, n)]
        <5>1. (k + 1) - 1 = k
          BY <4>1
        <5>2. Contents(q)[k + 1] = q.items[Slot(q.front, (k + 1) - 1, n)]
          BY <1>4, <4>1, ContentsAt
        <5> QED
          BY <2>6, <4>1, <5>1, <5>2
      <4>3. /\ Slot(r.front, k - 1, n) = Slot(q.front, k, n)
            /\ Slot(q.front, k, n) # q.front
            /\ Slot(q.front, k, n) \in 0 .. n - 1
        BY <2>1, <2>2, <2>3, <4>1 DEF After, Slot
      <4>4. r.items[Slot(q.front, k, n)] = q.items[Slot(q.front, k, n)]
        BY <2>1, <4>3 DEF IsRing
      <4> QED
        BY <3>1, <4>2, <4>3, <4>4
    <3> QED
      BY <3>2, <3>3
  <2>8. Contents(r) = t
    <3> HIDE DEF t
    <3> QED
      BY <1>2, <2>4, <2>6, <2>7, SeqEqual
  <2> QED
    BY <1>4, <2>8 DEF r
<1> QED
  BY <1>3, <1>4, CountOfRing

\* cqueue_remove takes the oldest element, which front points to.
LEMMA RemoveIsTake ==
    ASSUME NEW Ptr, NEW q, IsRing(q, Ptr), cqueue_items(q) # 0, NULL \notin Ptr
    PROVE  /\ Contents(q) # <<>>
           /\ Contents(cqueue_remove(q)) = Tail(Contents(q))
           /\ cqueue_front(q) = Head(Contents(q))
<1> DEFINE r == cqueue_remove(q)
           n == cqueue_items(q)
           t == Tail(Contents(q))
<1>1. IsRing(r, Ptr)
  BY RemoveKeepsRing
<1>2. /\ Contents(q) \in Seq(Ptr) /\ Len(Contents(q)) = n
      /\ Contents(r) \in Seq(Ptr) /\ Len(Contents(r)) = cqueue_items(r)
  BY <1>1, ContentsType
<1>3. n \in 1 .. q.size /\ q.front \in 0 .. q.size - 1
  BY CountOfRing
<1>4. Contents(q) # <<>>
  BY <1>2, <1>3
<1>5. /\ t \in Seq(Ptr) /\ Len(t) = n - 1
      /\ \A k \in 1 .. n - 1 : t[k] = Contents(q)[k + 1]
  BY <1>2, <1>3, <1>4, HeadTailProperties
<1>6. /\ r.size = q.size
      /\ r.items = [q.items EXCEPT ![q.front] = NULL]
      /\ r.front = IF q.front = q.rear THEN INVALID ELSE After(q.front, q.size)
      /\ r.rear = IF q.front = q.rear THEN INVALID ELSE q.rear
  BY RemoveFields
<1> HIDE DEF r, t
<1>7. cqueue_items(r) = n - 1
  <2>1. CASE q.front = q.rear
    <3>1. n = 1 /\ r.rear = INVALID
      BY <1>3, <1>6, <2>1, CountOfRing DEF INVALID
    <3> QED
      BY <3>1 DEF cqueue_items
  <2>2. CASE q.front # q.rear
    <3>1. /\ r.size = q.size /\ r.rear = q.rear
          /\ r.front = After(q.front, q.size)
      BY <1>6, <2>2
    <3>2. q.rear \in 0 .. q.size - 1
      BY <1>3 DEF IsRing, INVALID
    <3> QED
      BY <1>3, <2>2, <3>1, <3>2 DEF cqueue_items, IsRing, INVALID, After
  <2> QED
    BY <2>1, <2>2
<1>8. ASSUME NEW k \in 1 .. n - 1 PROVE Contents(r)[k] = t[k]
  <2>1. k + 1 \in 1 .. n /\ (k + 1) - 1 = k
    BY <1>3
  <2>2. t[k] = q.items[Slot(q.front, k, q.size)]
    <3>1. Contents(q)[k + 1] = q.items[Slot(q.front, (k + 1) - 1, q.size)]
      BY <2>1, ContentsAt
    <3> QED
      BY <1>5, <2>1, <3>1
  <2>3. Contents(r)[k] = r.items[Slot(r.front, k - 1, q.size)]
    BY <1>6, <1>7, ContentsAt
  <2>4. q.front # q.rear
    BY <1>3, <2>1, CountOfRing DEF INVALID
  <2>5. /\ Slot(r.front, k - 1, q.size) = Slot(q.front, k, q.size)
        /\ Slot(q.front, k, q.size) # q.front
        /\ Slot(q.front, k, q.size) \in 0 .. q.size - 1
    <3>1. r.front = After(q.front, q.size)
      BY <1>6, <2>4
    <3>2. q.size \in Nat /\ k \in 1 .. q.size - 1
      BY <1>3 DEF IsRing
    <3> QED
      BY <1>3, <3>1, <3>2 DEF After, Slot
  <2>6. r.items[Slot(q.front, k, q.size)] = q.items[Slot(q.front, k, q.size)]
    BY <1>6, <2>5 DEF IsRing
  <2> QED
    BY <2>2, <2>3, <2>5, <2>6
<1>9. Contents(r) = t
  BY <1>2, <1>5, <1>7, <1>8, SeqEqual
<1>10. cqueue_front(q) = Contents(q)[1]
  <2>1. Slot(q.front, 1 - 1, q.size) = q.front
    BY <1>3 DEF Slot, IsRing
  <2>2. 1 \in 1 .. n
    BY <1>3
  <2> QED
    BY <2>1, <2>2, ContentsAt DEF cqueue_front
<1> QED
  BY <1>4, <1>9, <1>10 DEF r, t

-----------------------------------------------------------------------------
(* The code words, for up to 30 bits: what an int can count.                *)

\* power is 2 to the n.
IsPower(n, power) ==
    /\ (n = 0 => power = 1) /\ (n = 1 => power = 2)
    /\ (n = 2 => power = 4) /\ (n = 3 => power = 8)
    /\ (n = 4 => power = 16) /\ (n = 5 => power = 32)
    /\ (n = 6 => power = 64) /\ (n = 7 => power = 128)
    /\ (n = 8 => power = 256) /\ (n = 9 => power = 512)
    /\ (n = 10 => power = 1024) /\ (n = 11 => power = 2048)
    /\ (n = 12 => power = 4096) /\ (n = 13 => power = 8192)
    /\ (n = 14 => power = 16384) /\ (n = 15 => power = 32768)
    /\ (n = 16 => power = 65536) /\ (n = 17 => power = 131072)
    /\ (n = 18 => power = 262144) /\ (n = 19 => power = 524288)
    /\ (n = 20 => power = 1048576) /\ (n = 21 => power = 2097152)
    /\ (n = 22 => power = 4194304) /\ (n = 23 => power = 8388608)
    /\ (n = 24 => power = 16777216) /\ (n = 25 => power = 33554432)
    /\ (n = 26 => power = 67108864) /\ (n = 27 => power = 134217728)
    /\ (n = 28 => power = 268435456) /\ (n = 29 => power = 536870912)
    /\ (n = 30 => power = 1073741824)

LEMMA PowerTable ==
    ASSUME NEW n \in 0 .. 30
    PROVE  IsPower(n, 2 ^ n)
<1>1. /\ 2 ^ 0 = 1 /\ 2 ^ 1 = 2 /\ 2 ^ 2 = 4 /\ 2 ^ 3 = 8 /\ 2 ^ 4 = 16 /\ 2 ^ 5 = 32
      /\ 2 ^ 6 = 64 /\ 2 ^ 7 = 128 /\ 2 ^ 8 = 256 /\ 2 ^ 9 = 512
      /\ 2 ^ 10 = 1024 /\ 2 ^ 11 = 2048 /\ 2 ^ 12 = 4096 /\ 2 ^ 13 = 8192
      /\ 2 ^ 14 = 16384 /\ 2 ^ 15 = 32768 /\ 2 ^ 16 = 65536
      /\ 2 ^ 17 = 131072 /\ 2 ^ 18 = 262144 /\ 2 ^ 19 = 524288
      /\ 2 ^ 20 = 1048576 /\ 2 ^ 21 = 2097152 /\ 2 ^ 22 = 4194304
      /\ 2 ^ 23 = 8388608 /\ 2 ^ 24 = 16777216 /\ 2 ^ 25 = 33554432
      /\ 2 ^ 26 = 67108864 /\ 2 ^ 27 = 134217728 /\ 2 ^ 28 = 268435456
      /\ 2 ^ 29 = 536870912 /\ 2 ^ 30 = 1073741824
  OBVIOUS
<1> DEFINE power == 2 ^ n
<1> HIDE DEF power
<1>2. IsPower(n, power)
  <2>1. \A k \in 0 .. 30 : n = k => power = 2 ^ k
    BY DEF power
  <2> QED
    BY <1>1, <2>1, SMTT(60) DEF IsPower
<1> QED
  BY <1>2 DEF power

LEMMA Powers ==
    ASSUME NEW n \in 0 .. 30
    PROVE  2 ^ n \in Nat /\ n < 2 ^ n
<1> DEFINE power == 2 ^ n
<1>1. IsPower(n, power)
  BY PowerTable
<1> HIDE DEF power
<1>2. power \in Nat /\ n < power
  BY <1>1, SMTT(60) DEF IsPower
<1> QED
  BY <1>2 DEF power

LEMMA PowersDouble ==
    ASSUME NEW n \in 0 .. 29
    PROVE  2 ^ (n + 1) = 2 * 2 ^ n
<1> DEFINE m == n + 1
<1>1. m \in 0 .. 30 /\ n \in 0 .. 30 /\ m = n + 1
  OBVIOUS
<1> DEFINE one == 2 ^ n
           two == 2 ^ m
<1>2. IsPower(n, one) /\ IsPower(m, two)
  <2> HIDE DEF m
  <2> QED
    BY <1>1, PowerTable
<1> HIDE DEF m, one, two
<1>3. two = 2 * one
  BY <1>1, <1>2, SMTT(60) DEF IsPower
<1> QED
  BY <1>3 DEF m, one, two

\* Powers grow with their exponents.
LEMMA PowersGrow ==
    ASSUME NEW i \in 0 .. 30, NEW j \in i .. 30
    PROVE  2 ^ i <= 2 ^ j
<1> DEFINE T == {k \in 0 .. 30 - i : 2 ^ i <= 2 ^ (i + k)}
           m == 30 - i
<1>1. m \in Nat /\ 2 ^ i \in Nat
  <2>1. m \in Nat
    OBVIOUS
  <2> QED
    BY <2>1, Powers
<1>2. 0 \in T
  <2>1. i + 0 = i /\ 0 \in 0 .. 30 - i
    OBVIOUS
  <2>2. 2 ^ i <= 2 ^ (i + 0)
    BY <1>1, <2>1
  <2> QED
    BY <2>1, <2>2
<1>3. ASSUME NEW n \in 0 .. m - 1, n \in T PROVE n + 1 \in T
  <2> DEFINE d == i + n
             power == 2 ^ d
             next == 2 ^ (d + 1)
             base == 2 ^ i
  <2>1. d \in 0 .. 29 /\ d \in 0 .. 30 /\ i + (n + 1) = d + 1 /\ n + 1 \in 0 .. 30 - i
    OBVIOUS
  <2>2. power \in Nat /\ next = 2 * power
    <3> HIDE DEF d
    <3> QED
      BY <2>1, Powers, PowersDouble
  <2>3. base <= power /\ base \in Nat
    BY <1>1, <1>3
  <2> HIDE DEF power, next, base
  <2>4. base <= next
    BY <2>2, <2>3
  <2>5. base <= 2 ^ (i + (n + 1))
    BY <2>1, <2>4 DEF next
  <2> QED
    BY <2>1, <2>5 DEF base
<1> HIDE DEF T, m
<1>4. 0 .. m \subseteq T
  BY <1>1, <1>2, <1>3, InductionTo
<1>5. j - i \in T
  BY <1>4 DEF m
<1>6. i + (j - i) = j
  OBVIOUS
<1> QED
  BY <1>5, <1>6 DEF T

\* The quotient is what leaves a remainder smaller than the divisor.
LEMMA QuotientIs ==
    ASSUME NEW n \in Nat \ {0}, NEW h \in Int, NEW r \in 0 .. n - 1
    PROVE  (n * h + r) \div n = h
<1> DEFINE a == n * h + r
           d == a \div n
           e == a % n
<1>1. a \in Int /\ a = n * d + e /\ d \in Int /\ e \in 0 .. n - 1
  <2>1. a \in Int
    OBVIOUS
  <2> HIDE DEF a
  <2> QED
    BY <2>1
<1>2. a = n * h + r
  OBVIOUS
<1> HIDE DEF a, d, e
<1>3. ASSUME d < h PROVE FALSE
  <2>1. n * (d + 1) <= n * h
    BY <1>1, <1>3
  <2>2. n * (d + 1) = n * d + n
    BY <1>1
  <2>3. n * h \in Int /\ n * d \in Int
    BY <1>1
  <2> QED
    BY <1>1, <1>2, <2>1, <2>2, <2>3
<1>4. ASSUME d > h PROVE FALSE
  <2>1. n * (h + 1) <= n * d
    BY <1>1, <1>4
  <2>2. n * (h + 1) = n * h + n
    BY <1>1
  <2>3. n * h \in Int /\ n * d \in Int
    BY <1>1
  <2> QED
    BY <1>1, <1>2, <2>1, <2>2, <2>3
<1>5. d = h
  BY <1>1, <1>3, <1>4
<1> QED
  BY <1>5 DEF a, d

\* A digit and those before it.
LEMMA Halves ==
    ASSUME NEW v \in Nat, NEW i \in 0 .. 29
    PROVE  LET q == v \div 2 ^ i
           IN  q \in Nat /\ q % 2 \in Bit /\ q = 2 * (v \div 2 ^ (i + 1)) + (q % 2)
<1> DEFINE n == 2 ^ i
           m == 2 ^ (i + 1)
           q == v \div n
           r == v % n
           h == q \div 2
           t == q % 2
<1>1. n \in Nat \ {0} /\ m = 2 * n
  <2>1. i \in 0 .. 30 /\ i + 1 \in 0 .. 30
    OBVIOUS
  <2>2. n \in Nat /\ i < n
    BY <2>1, Powers
  <2>3. m = 2 * n
    BY PowersDouble
  <2> HIDE DEF n, m
  <2> QED
    BY <2>2, <2>3
<1> HIDE DEF n, m
<1>2. v = n * q + r /\ q \in Nat /\ r \in 0 .. n - 1
  <2>1. v = n * q + r /\ q \in Int /\ r \in 0 .. n - 1
    BY <1>1
  <2>2. 0 * n <= v /\ v <= v * n
    BY <1>1
  <2>3. q \in 0 .. v
    BY <1>1, <2>2, DivideBetween
  <2> QED
    BY <2>1, <2>3
<1> HIDE DEF q, r
<1>3. q = 2 * h + t /\ h \in Int /\ t \in 0 .. 1
  BY <1>2
<1> HIDE DEF h, t
<1>4. v = m * h + (n * t + r)
  <2>1. n * (2 * h + t) = (2 * n) * h + n * t
    BY <1>1, <1>3
  <2>2. (2 * n) * h \in Int /\ n * t \in Int
    BY <1>1, <1>3
  <2> QED
    BY <1>1, <1>2, <1>3, <2>1, <2>2
<1>5. n * t + r \in 0 .. m - 1
  <2>1. t = 0 \/ t = 1
    BY <1>3
  <2>2. n * 0 = 0 /\ n * 1 = n
    BY <1>1
  <2> QED
    BY <1>1, <1>2, <2>1, <2>2
<1>6. v \div m = h
  <2> DEFINE rest == n * t + r
  <2>1. (m * h + rest) \div m = h
    <3>1. m \in Nat \ {0} /\ rest \in 0 .. m - 1
      BY <1>1, <1>5
    <3> HIDE DEF rest
    <3> QED
      BY <1>3, <3>1, QuotientIs
  <2> QED
    BY <1>4, <2>1
<1>7. q \in Nat /\ t \in Bit /\ q = 2 * (v \div m) + t
  BY <1>2, <1>3, <1>6 DEF Bit
<1> QED
  BY <1>7 DEF q, m, n, t

\* A value is less than the power that its digits end at.
LEMMA NoDigitsBeyond ==
    ASSUME NEW i \in 0 .. 30, NEW j \in i .. 30, NEW v \in 0 .. 2 ^ i - 1
    PROVE  v \div 2 ^ j = 0
<1> DEFINE n == 2 ^ j
           m == 2 ^ i
<1>1. m <= n /\ n \in Nat /\ m \in Nat /\ v \in 0 .. m - 1
  <2>1. j \in 0 .. 30
    OBVIOUS
  <2> QED
    BY <2>1, PowersGrow, Powers
<1> HIDE DEF n, m
<1>2. (n * 0 + v) \div n = 0
  BY <1>1, QuotientIs
<1>3. n * 0 + v = v
  BY <1>1
<1> QED
  BY <1>2, <1>3 DEF n

\* Two values with the same digits are the same.
LEMMA DigitsDecide ==
    ASSUME NEW b \in 1 .. 30, NEW v \in 0 .. 2 ^ b - 1, NEW w \in 0 .. 2 ^ b - 1,
           \A i \in 0 .. b - 1 : (v \div 2 ^ i) % 2 = (w \div 2 ^ i) % 2
    PROVE  v = w
<1> DEFINE T == {k \in 0 .. b : v \div 2 ^ (b - k) = w \div 2 ^ (b - k)}
<1>1. v \in Nat /\ w \in Nat
  BY Powers
<1>2. 0 \in T
  <2>1. b - 0 = b /\ b \in 0 .. 30 /\ b \in b .. 30 /\ 0 \in 0 .. b
    OBVIOUS
  <2>2. v \div 2 ^ b = 0 /\ w \div 2 ^ b = 0
    BY <2>1, NoDigitsBeyond
  <2> QED
    BY <2>1, <2>2
<1>3. ASSUME NEW k \in 0 .. b - 1, k \in T PROVE k + 1 \in T
  <2> DEFINE i == b - (k + 1)
             p == v \div 2 ^ i
             q == w \div 2 ^ i
  <2>1. i \in 0 .. 29 /\ i \in 0 .. b - 1 /\ i + 1 = b - k /\ k + 1 \in 0 .. b
    OBVIOUS
  <2>2. v \div 2 ^ (i + 1) = w \div 2 ^ (i + 1)
    BY <1>3, <2>1
  <2> HIDE DEF i
  <2>3. /\ p = 2 * (v \div 2 ^ (i + 1)) + (p % 2)
        /\ q = 2 * (w \div 2 ^ (i + 1)) + (q % 2)
    BY <1>1, <2>1, Halves
  <2>4. p % 2 = q % 2
    BY <2>1
  <2>5. p = q
    BY <2>2, <2>3, <2>4, Zenon
  <2> QED
    BY <2>1, <2>5 DEF i
<1> HIDE DEF T
<1>4. 0 .. b \subseteq T
  <2>1. b \in Nat
    OBVIOUS
  <2> QED
    BY <1>2, <1>3, <2>1, InductionTo
<1>5. v \div 2 ^ 0 = w \div 2 ^ 0
  <2>1. b \in 0 .. b /\ b - b = 0
    OBVIOUS
  <2>2. b \in T
    BY <1>4, <2>1
  <2> QED
    BY <2>1, <2>2 DEF T
<1>6. v \div 1 = v /\ w \div 1 = w /\ 2 ^ 0 = 1
  BY <1>1
<1> QED
  BY <1>5, <1>6

\* A set of natural numbers has a first.
LEMMA FirstIsLeast ==
    ASSUME NEW S, S \subseteq Nat, S # {}
    PROVE  First(S) \in S /\ \A j \in S : First(S) <= j
<1>1. PICK x \in S : \A y \in S : ~ (<<y, x>> \in Below)
  BY BelowIsWellFounded, WFMin
<1>2. \A y \in S : x <= y
  <2> SUFFICES ASSUME NEW y \in S, y < x PROVE FALSE
    BY <1>1
  <2>1. <<y, x>> \in Below
    BY DEF Below
  <2> QED
    BY <1>1, <2>1
<1> QED
  BY <1>1, <1>2 DEF First

\* A value of b bits has b digits at most, and no more than it needs.
LEMMA DigitsOfValue ==
    ASSUME NEW b \in 1 .. 30, NEW value \in 0 .. 2 ^ b - 1
    PROVE  num_digits(value) \in 1 .. b /\ value < 2 ^ num_digits(value)
<1> DEFINE S == {d \in 1 .. value + 1 : value < 2 ^ d}
<1>1. 2 ^ b \in Nat /\ value \in Nat /\ value < 2 ^ b
  BY Powers
<1>2. \E d \in S : d <= b
  <2>1. CASE b <= value + 1
    <3>1. b \in 1 .. value + 1
      BY <1>1, <2>1
    <3>2. b \in S
      BY <1>1, <3>1, Zenon
    <3> QED
      BY <3>2
  <2>2. CASE ~ (b <= value + 1)
    <3>1. value + 1 \in 0 .. 30 /\ value + 1 \in 1 .. value + 1 /\ value + 1 <= b
      BY <1>1, <2>2
    <3>2. 2 ^ (value + 1) \in Nat /\ value + 1 < 2 ^ (value + 1)
      BY <3>1, Powers
    <3>3. value < 2 ^ (value + 1)
      BY <1>1, <3>2
    <3>4. value + 1 \in S
      BY <3>1, <3>3, Zenon
    <3> QED
      BY <3>1, <3>4
  <2> QED
    BY <2>1, <2>2
<1>3. S \subseteq Nat /\ \A d \in S : d >= 1
  BY <1>1
<1>4. num_digits(value) = First(S)
  BY DEF num_digits
<1> HIDE DEF S
<1>5. First(S) \in S /\ \A j \in S : First(S) <= j
  BY <1>2, <1>3, FirstIsLeast
<1>6. First(S) \in Nat /\ First(S) >= 1
  BY <1>3, <1>5
<1>7. First(S) <= b
  BY <1>2, <1>3, <1>5, <1>6
<1>8. value < 2 ^ First(S)
  BY <1>5 DEF S
<1> QED
  BY <1>4, <1>6, <1>7, <1>8

LEMMA ZerosFacts ==
    ASSUME NEW n \in Nat
    PROVE  /\ Zeros(n) \in Seq(Bit) /\ Len(Zeros(n)) = n
           /\ \A k \in 1 .. n : Zeros(n)[k] = 0
BY DEF Zeros, Bit

\* What w is when it is s followed by t.
Joins(w, s, t, S) ==
    /\ w \in Seq(S) /\ Len(w) = Len(s) + Len(t)
    /\ Len(s) \in Nat /\ Len(t) \in Nat
    /\ \A k \in 1 .. Len(s) : w[k] = s[k]
    /\ \A k \in 1 .. Len(t) : w[Len(s) + k] = t[k]

LEMMA ConcatFacts ==
    ASSUME NEW S, NEW s \in Seq(S), NEW t \in Seq(S)
    PROVE  Joins(s \o t, s, t, S)
BY DEF Joins

LEMMA RepeatedFacts ==
    ASSUME NEW s \in Seq(Bit), NEW n \in Nat \ {0}
    PROVE  Repeated(s, n) \in Seq(Bit) /\ Len(Repeated(s, n)) = n * Len(s)
<1>1. Len(s) \in Nat /\ n * Len(s) \in Nat
  OBVIOUS
<1>2. ASSUME NEW k \in 1 .. n * Len(s)
      PROVE  s[(k - 1) \div n + 1] \in Bit
  <2>1. k - 1 \in Int /\ 0 * n <= k - 1 /\ k - 1 <= Len(s) * n - 1
    BY <1>1
  <2>2. (k - 1) \div n \in 0 .. Len(s)
    BY <1>1, <2>1, DivideBetween
  <2>3. (k - 1) \div n # Len(s)
    <3>1. k - 1 = n * ((k - 1) \div n) + ((k - 1) % n) /\ (k - 1) % n \in 0 .. n - 1
      BY <2>1
    <3> QED
      BY <1>1, <2>1, <3>1
  <2> QED
    BY <1>1, <2>2, <2>3
<1> QED
  BY <1>1, <1>2 DEF Repeated

LEMMA BinaryFacts ==
    ASSUME NEW b \in 1 .. 30, NEW value \in 0 .. 2 ^ b - 1
    PROVE  /\ to_binary(value) \in Seq(Bit)
           /\ Len(to_binary(value)) = num_digits(value)
<1> DEFINE d == num_digits(value)
<1>1. d \in 1 .. 30 /\ value \in Nat
  <2>1. 2 ^ b \in Nat /\ value \in Nat
    BY Powers
  <2>2. d \in 1 .. b
    BY DigitsOfValue
  <2> HIDE DEF d
  <2> QED
    BY <2>1, <2>2
<1>2. to_binary(value) = [k \in 1 .. d |-> (value \div 2 ^ (d - k)) % 2]
  BY DEF to_binary
<1> HIDE DEF d
<1>3. ASSUME NEW k \in 1 .. d
      PROVE  (value \div 2 ^ (d - k)) % 2 \in Bit
  <2> DEFINE w == 2 ^ (d - k)
  <2>1. d - k \in 0 .. 30
    BY <1>1
  <2>2. w \in Nat /\ d - k < w
    BY <2>1, Powers
  <2>3. w \in Nat \ {0}
    BY <2>1, <2>2
  <2> HIDE DEF w
  <2>4. value \div w \in Int
    BY <1>1, <2>3
  <2>5. (value \div w) % 2 \in Bit
    BY <2>4 DEF Bit
  <2> QED
    BY <2>5 DEF w
<1>4. [k \in 1 .. d |-> (value \div 2 ^ (d - k)) % 2] \in Seq(Bit)
  BY <1>1, <1>3, IsASeq
<1>5. Len(to_binary(value)) = d
  BY <1>1, <1>2, LenProperties
<1> QED
  BY <1>2, <1>4, <1>5 DEF d

\* A code word has the length of its value's packet, and its ambles are zeros.
LEMMA WordFacts ==
    ASSUME NEW b \in 1 .. 30, NEW value \in 0 .. 2 ^ b - 1,
           NEW m \in Nat \ {0}, NEW p \in Nat \ {0}
    PROVE  LET word == lev_string(b, m, p, value)
               end == p + 1 + b * m
           IN  /\ word \in Seq(Bit)
               /\ Len(word) = total_len(b, m, p)
               /\ end \in Nat /\ end + p + 1 = total_len(b, m, p) /\ end > p + 1
               /\ word[1] = 1 /\ word[Len(word)] = 1
               /\ \A k \in 1 .. p : word[k + 1] = 0 /\ word[end + k] = 0
               /\ \A k \in 1 .. b * m :
                     word[p + 1 + k] = message_bits(b, m, value)[k]
<1> DEFINE d == num_digits(value)
           digits == Repeated(to_binary(value), m)
           lead == Zeros(m * (b - d))
           message == lead \o digits
           one == <<1>>
           left == one \o Zeros(p)
           most == left \o message
           all == most \o Zeros(p)
           end == p + 1 + b * m
           word == all \o one
<1>1. word = lev_string(b, m, p, value) /\ message = message_bits(b, m, value)
  BY DEF lev_string, message_bits
<1>2. d \in 1 .. b /\ to_binary(value) \in Seq(Bit) /\ Len(to_binary(value)) = d
  BY DigitsOfValue, BinaryFacts
<1>3. digits \in Seq(Bit) /\ Len(digits) = m * d
  BY <1>2, RepeatedFacts
<1> HIDE DEF d, digits
<1>4. m * (b - d) \in Nat /\ m * (b - d) + m * d = b * m /\ b * m \in Nat \ {0}
  <2>1. b - d \in Nat
    BY <1>2
  <2>2. m * (b - d) \in Nat
    BY <2>1
  <2>3. m * (b - d) + m * d = m * b
    BY <1>2
  <2>4. b * m \in Nat \ {0} /\ m * b = b * m
    OBVIOUS
  <2> QED
    BY <2>2, <2>3, <2>4
<1>5. lead \in Seq(Bit) /\ Len(lead) = m * (b - d)
  BY <1>4, ZerosFacts
<1> HIDE DEF lead
<1>6. message \in Seq(Bit) /\ Len(message) = b * m
  BY <1>3, <1>4, <1>5, ConcatFacts DEF Joins
<1> HIDE DEF message
<1>7. one \in Seq(Bit) /\ Len(one) = 1 /\ one[1] = 1
  BY DEF Bit
<1>8. Zeros(p) \in Seq(Bit) /\ Len(Zeros(p)) = p /\ \A k \in 1 .. p : Zeros(p)[k] = 0
  BY ZerosFacts
<1> HIDE DEF one
<1>9. /\ left \in Seq(Bit) /\ Len(left) = p + 1 /\ left[1] = 1
      /\ \A k \in 1 .. p : left[k + 1] = 0
  <2>1. /\ left \in Seq(Bit) /\ Len(left) = p + 1 /\ left[1] = 1
        /\ \A k \in 1 .. p : left[1 + k] = 0
    <3>1. Joins(one \o Zeros(p), one, Zeros(p), Bit)
      BY <1>7, <1>8, ConcatFacts
    <3> QED
      BY <1>7, <1>8, <3>1 DEF Joins
  <2> QED
    BY <2>1
<1> HIDE DEF left
<1>10. /\ most \in Seq(Bit) /\ Len(most) = end /\ most[1] = 1
       /\ \A k \in 1 .. p : most[k + 1] = 0
       /\ \A k \in 1 .. b * m : most[p + 1 + k] = message[k]
  <2>1. /\ most \in Seq(Bit) /\ Len(most) = p + 1 + b * m
        /\ \A k \in 1 .. p + 1 : most[k] = left[k]
        /\ \A k \in 1 .. b * m : most[p + 1 + k] = message[k]
    <3>1. Joins(left \o message, left, message, Bit)
      BY <1>4, <1>6, <1>9, ConcatFacts
    <3> QED
      BY <1>4, <1>6, <1>9, <3>1 DEF Joins
  <2>2. 1 \in 1 .. p + 1 /\ \A k \in 1 .. p : k + 1 \in 1 .. p + 1
    OBVIOUS
  <2> QED
    BY <1>9, <2>1, <2>2
<1>11. end \in Nat /\ end > p + 1 /\ end + p + 1 = total_len(b, m, p)
  BY <1>4 DEF total_len
<1> HIDE DEF most
<1>12. /\ all \in Seq(Bit) /\ Len(all) = end + p /\ all[1] = 1
       /\ \A k \in 1 .. p : all[k + 1] = 0 /\ all[end + k] = 0
       /\ \A k \in 1 .. b * m : all[p + 1 + k] = message[k]
  <2>1. /\ all \in Seq(Bit) /\ Len(all) = end + p
        /\ \A k \in 1 .. end : all[k] = most[k]
        /\ \A k \in 1 .. p : all[end + k] = Zeros(p)[k]
    <3>1. Joins(most \o Zeros(p), most, Zeros(p), Bit)
      BY <1>8, <1>10, ConcatFacts
    <3> QED
      BY <1>8, <1>10, <3>1 DEF Joins
  <2>2. /\ 1 \in 1 .. end /\ \A k \in 1 .. p : k + 1 \in 1 .. end
        /\ \A k \in 1 .. b * m : p + 1 + k \in 1 .. end
    BY <1>4 DEF end
  <2> HIDE DEF end
  <2> QED
    BY <1>8, <1>10, <2>1, <2>2
<1> HIDE DEF all, end
<1>13. /\ word \in Seq(Bit) /\ Len(word) = end + p + 1
       /\ word[1] = 1 /\ word[end + p + 1] = 1
       /\ \A k \in 1 .. p : word[k + 1] = 0 /\ word[end + k] = 0
       /\ \A k \in 1 .. b * m : word[p + 1 + k] = message[k]
  <2>1. /\ word \in Seq(Bit) /\ Len(word) = end + p + 1
        /\ \A k \in 1 .. end + p : word[k] = all[k]
        /\ word[end + p + 1] = one[1]
    <3>1. Joins(all \o one, all, one, Bit)
      BY <1>7, <1>12, ConcatFacts
    <3> QED
      BY <1>7, <1>12, <3>1 DEF Joins
  <2>2. /\ 1 \in 1 .. end + p
        /\ \A k \in 1 .. p : k + 1 \in 1 .. end + p /\ end + k \in 1 .. end + p
        /\ \A k \in 1 .. b * m : p + 1 + k \in 1 .. end + p
    BY <1>4, <1>11 DEF end
  <2> QED
    BY <1>7, <1>12, <2>1, <2>2
<1> HIDE DEF word
<1> QED
  BY <1>1, <1>11, <1>13 DEF end

\* A bit of a message is the digit of its value that it stands for.
LEMMA MessageDigits ==
    ASSUME NEW b \in 1 .. 30, NEW value \in 0 .. 2 ^ b - 1,
           NEW m \in Nat \ {0}, NEW k \in 1 .. b * m
    PROVE  message_bits(b, m, value)[k] = (value \div 2 ^ (b - 1 - ((k - 1) \div m))) % 2
<1> DEFINE d == num_digits(value)
           digits == Repeated(to_binary(value), m)
           lead == Zeros(m * (b - d))
           q == (k - 1) \div m
           r == (k - 1) % m
<1>1. d \in 1 .. b /\ to_binary(value) \in Seq(Bit) /\ Len(to_binary(value)) = d
  BY DigitsOfValue, BinaryFacts
<1>2. digits \in Seq(Bit) /\ Len(digits) = m * d
  BY <1>1, RepeatedFacts
<1>3. value \in Nat /\ value \in 0 .. 2 ^ d - 1
  <2>1. value \in Nat
    BY Powers
  <2>2. value < 2 ^ d
    BY DigitsOfValue
  <2>3. 2 ^ d \in Nat
    <3> HIDE DEF d
    <3>1. d \in 0 .. 30
      BY <1>1
    <3> QED
      BY <3>1, Powers
  <2> HIDE DEF d
  <2> QED
    BY <2>1, <2>2, <2>3
<1>4. digits = [j \in 1 .. m * d |-> to_binary(value)[(j - 1) \div m + 1]]
  BY <1>1 DEF Repeated
<1>5. to_binary(value) = [j \in 1 .. d |-> (value \div 2 ^ (d - j)) % 2]
  BY DEF to_binary
<1>6. message_bits(b, m, value) = lead \o digits
  BY DEF message_bits
<1> HIDE DEF d, digits
<1>7. m * (b - d) \in Nat /\ m * (b - d) + m * d = m * b /\ m * b = b * m
  <2>1. b - d \in Nat
    BY <1>1
  <2>2. m * (b - d) \in Nat
    BY <2>1
  <2>3. m * (b - d) + m * d = m * b
    BY <1>1
  <2> QED
    BY <2>2, <2>3
<1>8. /\ lead \in Seq(Bit) /\ Len(lead) = m * (b - d)
      /\ \A j \in 1 .. m * (b - d) : lead[j] = 0
  BY <1>7, ZerosFacts
<1> HIDE DEF lead
<1>9. k - 1 = m * q + r /\ r \in 0 .. m - 1 /\ q \in Int /\ k \in Nat \ {0}
  <2>1. b * m \in Nat /\ k - 1 \in Int /\ k \in Nat \ {0}
    OBVIOUS
  <2> QED
    BY <2>1
<1>10. q \in 0 .. b - 1
  <2>1. 0 * m <= k - 1 /\ k - 1 <= b * m - 1 /\ k - 1 <= b * m /\ b * m \in Int
    BY <1>9
  <2>2. q \in 0 .. b
    BY <1>9, <2>1, DivideBetween
  <2>3. q # b
    BY <1>7, <1>9, <2>1
  <2> QED
    BY <2>2, <2>3
<1>11. Joins(lead \o digits, lead, digits, Bit)
  BY <1>2, <1>8, ConcatFacts
<1>12. CASE k <= m * (b - d)
  <2>1. (lead \o digits)[k] = 0
    BY <1>7, <1>8, <1>9, <1>11, <1>12 DEF Joins
  <2>2. q < b - d
    <3>1. ASSUME q >= b - d PROVE FALSE
      <4>1. m * q >= m * (b - d)
        BY <1>1, <1>10, <3>1
      <4> QED
        BY <1>7, <1>9, <1>12, <4>1
    <3> QED
      BY <1>1, <1>10, <3>1
  <2>3. b - 1 - q \in d .. 30 /\ d \in 0 .. 30
    BY <1>1, <1>10, <2>2
  <2> HIDE DEF q
  <2>4. value \div 2 ^ (b - 1 - q) = 0
    BY <1>3, <2>3, NoDigitsBeyond
  <2>5. 0 % 2 = 0
    OBVIOUS
  <2>6. message_bits(b, m, value)[k] = (value \div 2 ^ (b - 1 - q)) % 2
    BY <1>6, <2>1, <2>4, <2>5, Zenon
  <2> QED
    BY <2>6 DEF q
<1>13. CASE ~ (k <= m * (b - d))
  <2> DEFINE j == k - m * (b - d)
             h == q - (b - d)
  <2>1. j \in 1 .. m * d /\ k = m * (b - d) + j
    BY <1>1, <1>7, <1>9, <1>13
  <2>2. (lead \o digits)[k] = digits[j]
    BY <1>2, <1>8, <1>11, <2>1 DEF Joins
  <2>3. j - 1 = m * h + r
    <3>1. m * h = m * q - m * (b - d)
      BY <1>1, <1>10
    <3>2. m * q \in Int /\ m * h \in Int
      BY <1>1, <1>10
    <3> HIDE DEF h, q, r
    <3> QED
      BY <1>7, <1>9, <3>1, <3>2
  <2>4. (m * h + r) \div m = h /\ h \in Int
    <3>1. h \in Int
      BY <1>1, <1>10
    <3> HIDE DEF h, r
    <3> QED
      BY <1>9, <3>1, QuotientIs
  <2>5. (j - 1) \div m = h
    BY <2>3, <2>4, Zenon
  <2>6. digits[j] = to_binary(value)[h + 1]
    BY <1>4, <2>1, <2>5
  <2>7. h + 1 \in 1 .. d /\ d - (h + 1) = b - 1 - q
    <3>1. h >= 0
      <4>1. ASSUME q < b - d PROVE FALSE
        <5>1. m * (q + 1) <= m * (b - d)
          BY <1>1, <1>10, <4>1
        <5>2. m * (q + 1) = m * q + m
          BY <1>10
        <5>3. m * q \in Int
          BY <1>10
        <5> QED
          BY <1>7, <1>9, <1>13, <5>1, <5>2, <5>3
      <4> QED
        BY <1>1, <1>10, <4>1
    <3> QED
      BY <1>1, <1>10, <3>1
  <2>8. to_binary(value)[h + 1] = (value \div 2 ^ (d - (h + 1))) % 2
    BY <1>5, <2>7
  <2>9. message_bits(b, m, value)[k] = (value \div 2 ^ (b - 1 - q)) % 2
    BY <1>6, <2>2, <2>6, <2>7, <2>8, Zenon
  <2> QED
    BY <2>9
<1> QED
  BY <1>12, <1>13, Zenon

\* Every digit is sent as a block of m equal bits.
DigitAt(b, m, p, i) == p + 2 + m * (b - 1 - i)

LEMMA WordDigit ==
    ASSUME NEW b \in 1 .. 30, NEW m \in Nat \ {0}, NEW p \in Nat \ {0},
           NEW i \in 0 .. b - 1, NEW c \in 0 .. m - 1
    PROVE  /\ DigitAt(b, m, p, i) \in p + 2 .. p + 2 + b * m - m
           /\ \A n \in 0 .. 2 ^ b - 1 :
                 lev_string(b, m, p, n)[DigitAt(b, m, p, i) + c] = (n \div 2 ^ i) % 2
<1> DEFINE j == b - 1 - i
           k == m * j + 1 + c
<1>1. j \in 0 .. b - 1 /\ j + 1 <= b /\ b - 1 - j = i
  OBVIOUS
<1>2. k \in 1 .. b * m /\ m * j \in 0 .. b * m - m /\ m * j \in Nat
  <2>1. m * j \in Nat /\ m * (j + 1) = m * j + m
    BY <1>1
  <2>2. m * (j + 1) <= m * b
    BY <1>1
  <2>3. m * b = b * m
    OBVIOUS
  <2> QED
    BY <2>1, <2>2, <2>3
<1>3. (k - 1) \div m = j
  <2>1. (m * j + c) \div m = j
    BY <1>1, QuotientIs
  <2>2. k - 1 = m * j + c
    BY <1>1, <1>2
  <2> QED
    BY <2>1, <2>2, Zenon
<1>4. DigitAt(b, m, p, i) = p + 2 + m * j /\ p + 1 + k = p + 2 + m * j + c
  BY <1>2 DEF DigitAt
<1> HIDE DEF j, k
<1>5. ASSUME NEW n \in 0 .. 2 ^ b - 1
      PROVE  lev_string(b, m, p, n)[p + 1 + k] = (n \div 2 ^ i) % 2
  <2>1. lev_string(b, m, p, n)[p + 1 + k] = message_bits(b, m, n)[k]
    BY <1>2, WordFacts
  <2>2. message_bits(b, m, n)[k] = (n \div 2 ^ (b - 1 - ((k - 1) \div m))) % 2
    BY <1>2, MessageDigits
  <2> QED
    BY <1>1, <1>3, <2>1, <2>2
<1>6. DigitAt(b, m, p, i) \in p + 2 .. p + 2 + b * m - m
  <2>1. b * m \in Nat
    OBVIOUS
  <2> QED
    BY <1>2, <1>4, <2>1
<1>7. p + 1 + k = DigitAt(b, m, p, i) + c
  BY <1>4
<1> QED
  BY <1>5, <1>6, <1>7

\* The code words of two values differ in a whole block.
Apart(s, t, a, m) ==
    \A c \in 0 .. m - 1 : /\ s[a + c] = s[a] /\ t[a + c] = t[a]
                          /\ s[a] # t[a]

LEMMA WordsApart ==
    ASSUME NEW b \in 1 .. 30, NEW m \in Nat \ {0}, NEW p \in Nat \ {0},
           NEW v \in 0 .. 2 ^ b - 1, NEW w \in 0 .. 2 ^ b - 1, v # w
    PROVE  \E a \in p + 2 .. p + 2 + b * m - m :
               Apart(lev_string(b, m, p, v), lev_string(b, m, p, w), a, m)
<1>1. PICK i \in 0 .. b - 1 : (v \div 2 ^ i) % 2 # (w \div 2 ^ i) % 2
  BY DigitsDecide
<1> DEFINE a == DigitAt(b, m, p, i)
<1>2. 0 \in 0 .. m - 1
  OBVIOUS
<1>3. a \in p + 2 .. p + 2 + b * m - m
  BY <1>2, WordDigit
<1>4. a + 0 = a
  <2>1. b * m \in Nat
    OBVIOUS
  <2> HIDE DEF a
  <2> QED
    BY <1>3, <2>1
<1>5. ASSUME NEW c \in 0 .. m - 1
      PROVE  \A n \in 0 .. 2 ^ b - 1 :
                 lev_string(b, m, p, n)[a + c] = (n \div 2 ^ i) % 2
  BY WordDigit, Zenon
<1>6. ASSUME NEW n \in 0 .. 2 ^ b - 1, NEW c \in 0 .. m - 1
      PROVE  /\ lev_string(b, m, p, n)[a + c] = (n \div 2 ^ i) % 2
             /\ lev_string(b, m, p, n)[a] = (n \div 2 ^ i) % 2
  BY <1>2, <1>4, <1>5, Zenon
<1> HIDE DEF a
<1>7. Apart(lev_string(b, m, p, v), lev_string(b, m, p, w), a, m)
  BY <1>1, <1>6 DEF Apart
<1> QED
  BY <1>3, <1>7

\* So do the words themselves.
LEMMA WordsDiffer ==
    ASSUME NEW b \in 1 .. 30, NEW m \in Nat \ {0}, NEW p \in Nat \ {0},
           NEW v \in 0 .. 2 ^ b - 1, NEW w \in 0 .. 2 ^ b - 1,
           lev_string(b, m, p, v) = lev_string(b, m, p, w)
    PROVE  v = w
<1>1. 0 \in 0 .. m - 1
  OBVIOUS
<1>2. ASSUME v # w PROVE FALSE
  <2>1. PICK a \in p + 2 .. p + 2 + b * m - m :
            Apart(lev_string(b, m, p, v), lev_string(b, m, p, w), a, m)
    BY <1>2, WordsApart
  <2> QED
    BY <1>1, <2>1 DEF Apart
<1> QED
  BY <1>2

-----------------------------------------------------------------------------
(* Sums over a finite set, as SumFunction of the community modules has them. *)

\* The element that SumFunction takes out of a set, and what it computes: the
\* sum of f over each subset of S.
Pick(s) == CHOOSE x \in s : TRUE
IsSum(h, f, S) ==
    h = [s \in SUBSET S |-> IF s = {} THEN 0 ELSE f[Pick(s)] + h[s \ {Pick(s)}]]

\* T has each subset of S that it has all the subsets of one element less of.
Hereditary(S, T) ==
    \A s \in SUBSET S : (\A x \in s : s \ {x} \in T) => s \in T

\* Then it has them all.
LEMMA SubsetInduction ==
    ASSUME NEW S, IsFiniteSet(S), NEW T, Hereditary(S, T)
    PROVE  SUBSET S \subseteq T
<1> DEFINE C == {n \in Nat : \A s \in SUBSET S : Cardinality(s) = n => s \in T}
<1>1. ASSUME NEW s \in SUBSET S
      PROVE  /\ IsFiniteSet(s) /\ Cardinality(s) \in Nat
             /\ Cardinality(s) = 0 <=> s = {}
             /\ \A x \in s : Cardinality(s \ {x}) = Cardinality(s) - 1
  <2>1. IsFiniteSet(s)
    BY FS_Subset
  <2> QED
    BY <2>1, FS_CardinalityType, FS_EmptySet, FS_RemoveElement
<1>2. 0 \in C
  <2> SUFFICES ASSUME NEW s \in SUBSET S, Cardinality(s) = 0 PROVE s \in T
    OBVIOUS
  <2>1. s = {}
    BY <1>1
  <2> QED
    BY <2>1 DEF Hereditary
<1>3. ASSUME NEW n \in Nat, n \in C PROVE n + 1 \in C
  <2> SUFFICES ASSUME NEW s \in SUBSET S, Cardinality(s) = n + 1 PROVE s \in T
    OBVIOUS
  <2>1. ASSUME NEW x \in s PROVE s \ {x} \in T
    <3>1. s \ {x} \in SUBSET S /\ Cardinality(s \ {x}) = n
      BY <1>1
    <3> QED
      BY <1>3, <3>1
  <2> QED
    BY <2>1 DEF Hereditary
<1>4. Nat \subseteq C
  <2> HIDE DEF C
  <2> QED
    BY <1>2, <1>3, Induction
<1> QED
  BY <1>1, <1>4

LEMMA SumExists ==
    ASSUME NEW S, IsFiniteSet(S), NEW f \in [S -> Int]
    PROVE  \E h \in [SUBSET S -> Int] : IsSum(h, f, S)
<1> DEFINE Eq(h, s) == h[s] = IF s = {} THEN 0 ELSE f[Pick(s)] + h[s \ {Pick(s)}]
           Upto(h, n) == \A s \in SUBSET S : Cardinality(s) <= n => Eq(h, s)
           C == {n \in Nat : \E h \in [SUBSET S -> Int] : Upto(h, n)}
<1>1. ASSUME NEW s \in SUBSET S
      PROVE  /\ Cardinality(s) \in Nat
             /\ Cardinality(s) = 0 <=> s = {}
             /\ s # {} => /\ Pick(s) \in s /\ f[Pick(s)] \in Int
                          /\ s \ {Pick(s)} \in SUBSET S
                          /\ Cardinality(s \ {Pick(s)}) = Cardinality(s) - 1
  <2>1. IsFiniteSet(s)
    BY FS_Subset
  <2>2. s # {} => Pick(s) \in s
    BY DEF Pick
  <2> QED
    BY <2>1, <2>2, FS_CardinalityType, FS_EmptySet, FS_RemoveElement
<1>2. 0 \in C
  <2> DEFINE h == [s \in SUBSET S |-> 0]
  <2>1. h \in [SUBSET S -> Int]
    OBVIOUS
  <2>2. Upto(h, 0)
    <3> SUFFICES ASSUME NEW s \in SUBSET S, Cardinality(s) <= 0 PROVE Eq(h, s)
      OBVIOUS
    <3>1. s = {}
      <4>1. Cardinality(s) \in Nat /\ (Cardinality(s) = 0 <=> s = {})
        BY <1>1
      <4> QED
        BY <4>1
    <3> QED
      BY <3>1
  <2> HIDE DEF h
  <2> QED
    BY <2>1, <2>2
<1>3. ASSUME NEW n \in Nat, n \in C PROVE n + 1 \in C
  <2>1. PICK h \in [SUBSET S -> Int] : Upto(h, n)
    BY <1>3
  <2> DEFINE g == [s \in SUBSET S |->
                      IF Cardinality(s) <= n THEN h[s]
                      ELSE f[Pick(s)] + h[s \ {Pick(s)}]]
  <2>2. g \in [SUBSET S -> Int]
    <3> SUFFICES ASSUME NEW s \in SUBSET S, ~ (Cardinality(s) <= n)
                 PROVE  f[Pick(s)] + h[s \ {Pick(s)}] \in Int
      OBVIOUS
    <3>1. s # {}
      <4>1. Cardinality(s) = 0 <=> s = {}
        BY <1>1
      <4> QED
        BY <4>1
    <3> QED
      BY <1>1, <3>1
  <2>3. ASSUME NEW s \in SUBSET S, Cardinality(s) <= n + 1 PROVE Eq(g, s)
    <3>1. CASE s = {}
      BY <1>1, <2>1, <3>1
    <3>2. CASE s # {}
      <4> DEFINE r == s \ {Pick(s)}
      <4>1. r \in SUBSET S /\ Cardinality(r) <= n /\ Cardinality(r) \in Nat
        BY <1>1, <2>3, <3>2
      <4>2. g[r] = h[r]
        BY <4>1
      <4>3. g[s] = f[Pick(s)] + h[r]
        BY <2>1, <3>2
      <4> QED
        BY <3>2, <4>2, <4>3
    <3> QED
      BY <3>1, <3>2
  <2> HIDE DEF g
  <2> QED
    BY <2>2, <2>3
<1>4. Nat \subseteq C
  <2> HIDE DEF C
  <2> QED
    BY <1>2, <1>3, Induction
<1>5. Cardinality(S) \in Nat /\ \A s \in SUBSET S : Cardinality(s) <= Cardinality(S)
  BY FS_CardinalityType, FS_Subset
<1>6. PICK h \in [SUBSET S -> Int] : Upto(h, Cardinality(S))
  BY <1>4, <1>5
<1>7. \A s \in SUBSET S : Eq(h, s)
  BY <1>5, <1>6
<1> QED
  BY <1>7 DEF IsSum

\* What SumFunction computes.
LEMMA SumFacts ==
    ASSUME NEW S, IsFiniteSet(S), NEW f \in [S -> Int]
    PROVE  \E h \in [SUBSET S -> Int] : IsSum(h, f, S) /\ SumFunction(f) = h[S]
<1> DEFINE u == CHOOSE h : IsSum(h, f, S)
<1>1. SumFunction(f) = u[S]
  <2>1. DOMAIN f = S
    OBVIOUS
  <2> QED
    BY <2>1 DEF SumFunction, SumFunctionOnSet, FoldFunctionOnSet, MapThenFoldSet,
                IsSum, Pick
<1>2. PICK h \in [SUBSET S -> Int] : IsSum(h, f, S)
  BY SumExists
<1>3. IsSum(u, f, S)
  BY <1>2
<1> HIDE DEF u
<1> DEFINE T == {s \in SUBSET S : u[s] = h[s]}
<1>4. ASSUME NEW s \in SUBSET S, \A x \in s : s \ {x} \in T PROVE s \in T
  <2>1. CASE s = {}
    BY <1>2, <1>3, <2>1 DEF IsSum
  <2>2. CASE s # {}
    <3>1. Pick(s) \in s
      BY <2>2 DEF Pick
    <3>2. u[s \ {Pick(s)}] = h[s \ {Pick(s)}]
      BY <1>4, <3>1
    <3>3. /\ u[s] = f[Pick(s)] + u[s \ {Pick(s)}]
          /\ h[s] = f[Pick(s)] + h[s \ {Pick(s)}]
      BY <1>2, <1>3, <2>2 DEF IsSum
    <3> QED
      BY <3>2, <3>3
  <2> QED
    BY <2>1, <2>2
<1>5. SUBSET S \subseteq T
  <2> HIDE DEF T
  <2>1. Hereditary(S, T)
    BY <1>4 DEF Hereditary
  <2> QED
    BY <2>1, SubsetInduction
<1>6. u[S] = h[S]
  BY <1>5
<1> QED
  BY <1>1, <1>2, <1>6

\* Any element can be taken out first.
Splits(h, f, S) ==
    \A s \in SUBSET S : \A x \in s : h[s] = f[x] + h[s \ {x}]

LEMMA SumSplits ==
    ASSUME NEW S, IsFiniteSet(S), NEW f \in [S -> Int],
           NEW h \in [SUBSET S -> Int], IsSum(h, f, S)
    PROVE  Splits(h, f, S)
<1> DEFINE T == {r \in SUBSET S : \A y \in r : h[r] = f[y] + h[r \ {y}]}
<1>1. ASSUME NEW r \in SUBSET S, \A y \in r : r \ {y} \in T, NEW y \in r
      PROVE  h[r] = f[y] + h[r \ {y}]
  <2> DEFINE p == Pick(r)
  <2>1. p \in r
    BY DEF Pick
  <2>2. h[r] = f[p] + h[r \ {p}]
    BY <1>1 DEF IsSum
  <2> HIDE DEF p
  <2>3. CASE y = p
    BY <2>2, <2>3
  <2>4. CASE y # p
    <3>0. r \ {p} \in T /\ r \ {y} \in T /\ y \in r \ {p} /\ p \in r \ {y}
      <4> HIDE DEF T
      <4> QED
        BY <1>1, <2>1, <2>4
    <3>1. h[r \ {p}] = f[y] + h[(r \ {p}) \ {y}]
      BY <3>0
    <3>2. h[r \ {y}] = f[p] + h[(r \ {y}) \ {p}]
      BY <3>0
    <3>3. (r \ {p}) \ {y} = (r \ {y}) \ {p} /\ (r \ {p}) \ {y} \in SUBSET S
      OBVIOUS
    <3>4. f[p] \in Int /\ f[y] \in Int /\ h[(r \ {p}) \ {y}] \in Int
      BY <2>1, <3>3
    <3>5. f[p] + (f[y] + h[(r \ {p}) \ {y}]) = f[y] + (f[p] + h[(r \ {p}) \ {y}])
      BY <3>4
    <3> HIDE DEF T
    <3> QED
      BY <2>2, <3>1, <3>2, <3>3, <3>5
  <2> QED
    BY <2>3, <2>4
<1>2. SUBSET S \subseteq T
  <2>1. \A r \in SUBSET S : (\A y \in r : r \ {y} \in T) => r \in T
    BY <1>1
  <2> HIDE DEF T
  <2>2. Hereditary(S, T)
    BY <2>1 DEF Hereditary
  <2> QED
    BY <2>2, SubsetInduction
<1> QED
  BY <1>2 DEF Splits

\* Functions that differ at x have sums that differ as they do.
SameBut(f, g, S, x) == \A y \in S : y # x => g[y] = f[y]

LEMMA SumChanges ==
    ASSUME NEW S, IsFiniteSet(S), NEW f \in [S -> Int], NEW g \in [S -> Int],
           NEW x \in S, SameBut(f, g, S, x)
    PROVE  /\ SumFunction(f) \in Int /\ SumFunction(g) \in Int
           /\ SumFunction(g) = SumFunction(f) - f[x] + g[x]
<1>1. PICK h \in [SUBSET S -> Int] : IsSum(h, f, S) /\ SumFunction(f) = h[S]
  BY SumFacts
<1>2. PICK k \in [SUBSET S -> Int] : IsSum(k, g, S) /\ SumFunction(g) = k[S]
  BY SumFacts
<1> DEFINE R == S \ {x}
           T == {s \in SUBSET R : k[s] = h[s]}
<1>3. IsFiniteSet(R)
  BY FS_Subset
<1>4. ASSUME NEW s \in SUBSET R, \A y \in s : s \ {y} \in T PROVE s \in T
  <2>1. CASE s = {}
    BY <1>1, <1>2, <2>1 DEF IsSum
  <2>2. CASE s # {}
    <3>1. Pick(s) \in s
      BY <2>2 DEF Pick
    <3>2. k[s \ {Pick(s)}] = h[s \ {Pick(s)}] /\ g[Pick(s)] = f[Pick(s)]
      BY <1>4, <3>1 DEF SameBut
    <3>3. /\ k[s] = g[Pick(s)] + k[s \ {Pick(s)}]
          /\ h[s] = f[Pick(s)] + h[s \ {Pick(s)}]
      BY <1>1, <1>2, <2>2 DEF IsSum
    <3> QED
      BY <3>2, <3>3
  <2> QED
    BY <2>1, <2>2
<1>5. SUBSET R \subseteq T
  <2> HIDE DEF R, T
  <2>1. Hereditary(R, T)
    BY <1>4 DEF Hereditary
  <2> QED
    BY <1>3, <2>1, SubsetInduction
<1>6. k[R] = h[R]
  BY <1>5
<1>7. h[S] = f[x] + h[R] /\ k[S] = g[x] + k[R]
  <2>1. h[S] = f[x] + h[R]
    <3>1. h \in [SUBSET S -> Int] /\ IsSum(h, f, S)
      BY <1>1
    <3>2. Splits(h, f, S)
      BY <3>1, SumSplits
    <3> QED
      BY <3>2 DEF Splits
  <2>2. k[S] = g[x] + k[R]
    <3>1. k \in [SUBSET S -> Int] /\ IsSum(k, g, S)
      BY <1>2
    <3>2. Splits(k, g, S)
      BY <3>1, SumSplits
    <3> QED
      BY <3>2 DEF Splits
  <2> QED
    BY <2>1, <2>2
<1>8. f[x] \in Int /\ g[x] \in Int /\ h[R] \in Int
  OBVIOUS
<1> QED
  BY <1>1, <1>2, <1>6, <1>7, <1>8

LEMMA SumOfZeros ==
    ASSUME NEW S, IsFiniteSet(S), NEW f \in [S -> Int], \A x \in S : f[x] = 0
    PROVE  SumFunction(f) = 0
<1>1. PICK h \in [SUBSET S -> Int] : IsSum(h, f, S) /\ SumFunction(f) = h[S]
  BY SumFacts
<1> DEFINE T == {s \in SUBSET S : h[s] = 0}
<1>2. ASSUME NEW s \in SUBSET S, \A y \in s : s \ {y} \in T PROVE s \in T
  <2>1. CASE s = {}
    BY <1>1, <2>1 DEF IsSum
  <2>2. CASE s # {}
    <3>1. Pick(s) \in s
      BY <2>2 DEF Pick
    <3>2. h[s] = f[Pick(s)] + h[s \ {Pick(s)}]
      BY <1>1, <2>2 DEF IsSum
    <3>3. h[s \ {Pick(s)}] = 0 /\ f[Pick(s)] = 0
      BY <1>2, <3>1
    <3> QED
      BY <3>2, <3>3
  <2> QED
    BY <2>1, <2>2
<1>3. SUBSET S \subseteq T
  <2> HIDE DEF T
  <2>1. Hereditary(S, T)
    BY <1>2 DEF Hereditary
  <2> QED
    BY <2>1, SubsetInduction
<1> QED
  BY <1>1, <1>3

\* A count more at one place makes the sum one more.
LEMMA SumOneMore ==
    ASSUME NEW S, IsFiniteSet(S), NEW f \in [S -> Nat], NEW x \in S
    PROVE  /\ SumFunction([f EXCEPT ![x] = @ + 1]) = SumFunction(f) + 1
           /\ SumFunction(f) \in Int
<1> DEFINE g == [f EXCEPT ![x] = @ + 1]
<1>1. /\ g \in [S -> Nat] /\ g[x] = f[x] + 1
      /\ \A y \in S : y # x => g[y] = f[y]
  OBVIOUS
<1>2. /\ f \in [S -> Int] /\ g \in [S -> Int] /\ f[x] \in Int
      /\ SameBut(f, g, S, x)
  BY <1>1 DEF SameBut
<1> HIDE DEF g
<1>3. /\ SumFunction(f) \in Int /\ SumFunction(g) \in Int
      /\ SumFunction(g) = SumFunction(f) - f[x] + g[x]
  BY <1>2, SumChanges
<1>4. SumFunction(g) = SumFunction(f) + 1
  BY <1>1, <1>2, <1>3
<1> QED
  BY <1>3, <1>4 DEF g
===============================================================================
