---------------------------- MODULE AckStatsProofs ----------------------------
(***************************************************************************)
(* Proofs about the sliding-window statistics, for every window of two or  *)
(* more acks, every length of bitmap and any number of acks.               *)
(***************************************************************************)
EXTENDS AckStats, Lemmas

\* The slot that is j acks old: 1 is the latest.
Back(j) == IF j <= window_index THEN window_index - j
           ELSE window_index - j + window_size

\* An ack of the history without its totals.
Info(k) == [bits |-> seen[k].bits, zeros |-> seen[k].zeros]

\* The window array holds the latest acks, each in the slot of its age.
Held == \A j \in 1 .. InWindow : window[Back(j)] = Info(ack_count - j + 1)

\* The queue is filled from slot 0 and then turns with window_index.
InStep ==
    /\ IsRing(ack_stats_cq, 0 .. window_size - 1)
    /\ cqueue_items(ack_stats_cq) = InWindow
    /\ \A i \in 0 .. window_size - 1 : ack_stats_cq.items[i] \in {i, NULL}
    /\ ack_count < window_size =>
          /\ window_index = ack_count
          /\ ack_stats_cq.rear = ack_count - 1
          /\ ack_count > 0 => ack_stats_cq.front = 0
    /\ ack_count >= window_size => ack_stats_cq.front = window_index

\* The all-time totals are those recorded with the latest ack.
TotalsRecorded ==
    /\ bits_total = BitsAfter(ack_count)
    /\ zeros_total = ZerosAfter(ack_count)

Inv == TypeOK /\ InStep /\ Held /\ TotalsRecorded /\ WindowTotals

\* What TypeOK says of the parts, with the entries of the history one by one.
LEMMA TypeFacts ==
    ASSUME Inv
    PROVE  /\ window_size \in WindowSizes /\ window_size \in Nat /\ window_size > 1
           /\ window_size = ack_stats_cq.size
           /\ window_index \in 0 .. window_size - 1
           /\ window \in [0 .. window_size - 1 -> AckInfo]
           /\ lengths \in [0 .. MaxBits -> Int]
           /\ cur_bits_total \in Int /\ cur_zeros_total \in Int
           /\ bits_total \in Nat /\ zeros_total \in Nat /\ ack_count \in Nat
           /\ \A k \in 1 .. ack_count :
                 /\ seen[k].bits \in Nat /\ seen[k].zeros \in Nat
                 /\ seen[k].bits_total \in Nat /\ seen[k].zeros_total \in Nat
<1> DEFINE S == [bits : Nat, zeros : Nat, bits_total : Nat, zeros_total : Nat]
<1>1. seen \in Seq(S) /\ Len(seen) = ack_count
  BY DEF Inv, TypeOK
<1>2. \A x \in S : /\ x.bits \in Nat /\ x.zeros \in Nat
                   /\ x.bits_total \in Nat /\ x.zeros_total \in Nat
  OBVIOUS
<1> HIDE DEF S
<1>3. \A k \in 1 .. ack_count : seen[k] \in S
  BY <1>1, ElementOfSeq
<1>4. TypeOK
  BY DEF Inv
<1>5. window_size \in Nat /\ window_size > 1
  BY <1>4, WindowSizesAssumption DEF TypeOK
<1> QED
  BY <1>2, <1>3, <1>4, <1>5 DEF TypeOK, window_size

\* The statistics start in step.
LEMMA InitInv == ASSUME Init PROVE Inv
<1>1. PICK size \in WindowSizes :
        /\ ack_stats_cq = cqueue_create(size)
        /\ window = [i \in 0 .. size - 1 |-> [bits |-> -1, zeros |-> -1]]
  BY DEF Init
<1>2. size \in Nat \ {0, 1}
  BY WindowSizesAssumption
<1>3. /\ ack_stats_cq.size = size
      /\ ack_stats_cq.items = [i \in 0 .. size - 1 |-> NULL]
      /\ ack_stats_cq.front = INVALID
      /\ ack_stats_cq.rear = INVALID
      /\ ack_stats_cq = [size |-> size, items |-> ack_stats_cq.items,
                         front |-> INVALID, rear |-> INVALID]
  BY <1>1 DEF cqueue_create
<1>4. IsRing(ack_stats_cq, 0 .. window_size - 1)
  BY <1>2, <1>3 DEF IsRing, OnArc, INVALID, window_size
<1>5. InWindow = 0 /\ cqueue_items(ack_stats_cq) = 0
  BY <1>2, <1>3 DEF Init, InWindow, window_size, cqueue_items
<1>6. TypeOK
  <2>1. lengths \in [0 .. MaxBits -> Int]
    BY GarbageAssumption DEF Init
  <2>2. window \in [0 .. size - 1 -> AckInfo]
    BY <1>1 DEF AckInfo
  <2>3. seen = <<>> /\ ack_count = 0
    BY DEF Init
  <2> QED
    BY <1>2, <1>3, <2>1, <2>2, <2>3 DEF Init, TypeOK, window_size
<1>7. InStep
  BY <1>2, <1>3, <1>4, <1>5 DEF Init, InStep, window_size, INVALID
<1>8. Held
  BY <1>5 DEF Held
<1> QED
  BY <1>5, <1>6, <1>7, <1>8 DEF Init, Inv, TotalsRecorded, WindowTotals,
                                BitsAfter, ZerosAfter

\* What one ack does to the queue and the index.
LEMMA UpdateKeepsStep ==
    ASSUME Inv, NEW bits, NEW zeros, ack_stats_update(bits, zeros)
    PROVE  /\ InStep'
           /\ window_size' = window_size
           /\ window_index' = After(window_index, window_size)
<1> DEFINE q == ack_stats_cq
           W == window_size
           r == cqueue_add(q, window_index)
<1>1. /\ W \in Nat /\ W > 1 /\ W = q.size
      /\ window_index \in 0 .. W - 1
      /\ ack_count \in Nat
      /\ IsRing(q, 0 .. W - 1)
      /\ cqueue_items(q) = InWindow
  BY TypeFacts DEF Inv, InStep
<1>2. ack_stats_cq' = r /\ ack_count' = ack_count + 1
  BY DEF ack_stats_update
<1>3. window_index' = After(window_index, W)
  BY <1>1, StepAround DEF ack_stats_update, NextIndex
<1>4. window_size' = W
  BY <1>2 DEF cqueue_add, window_size
<1>5. NULL \notin 0 .. W - 1
  BY <1>1, NullAssumption
<1>6. IsRing(r, 0 .. W - 1)
  BY <1>1, <1>5, AddKeepsRing
<1>7. CASE ack_count < W
  <2>1. /\ cqueue_items(q) < q.size
        /\ window_index = ack_count
        /\ q.rear = ack_count - 1
        /\ q.front = IF ack_count = 0 THEN INVALID ELSE 0
    <3>1. cqueue_items(q) = ack_count
      BY <1>1, <1>7 DEF InWindow
    <3>2. ack_count = 0 <=> q.front = INVALID
      BY <1>1, <3>1, CountOfRing
    <3> QED
      BY <1>1, <1>7, <3>1, <3>2 DEF Inv, InStep
  <2>2. After(q.rear, q.size) = ack_count
    BY <1>1, <1>7, <2>1 DEF After
  <2>3. r = [size  |-> q.size,
             items |-> [q.items EXCEPT ![ack_count] = window_index],
             front |-> IF q.front = INVALID THEN 0 ELSE q.front,
             rear  |-> ack_count]
    BY <1>1, <2>1, <2>2, AddFieldsWithRoom
  <2>4. /\ r.front = 0 /\ r.rear = ack_count /\ r.size = W
        /\ r.items = [q.items EXCEPT ![ack_count] = ack_count]
    BY <1>1, <2>1, <2>3
  <2> HIDE DEF r
  <2>5. cqueue_items(r) = ack_count + 1
    BY <1>1, <2>4 DEF cqueue_items, INVALID
  <2>6. InWindow' = ack_count + 1
    BY <1>1, <1>2, <1>4, <1>7 DEF InWindow
  <2>7. \A i \in 0 .. W - 1 : r.items[i] \in {i, NULL}
    BY <1>1, <1>7, <2>4 DEF Inv, InStep, IsRing
  <2>8. ack_count + 1 < W => window_index' = ack_count + 1
    BY <1>1, <1>3, <2>1 DEF After
  <2>9. ack_count + 1 >= W => window_index' = 0
    BY <1>1, <1>3, <1>7, <2>1 DEF After
  <2> QED
    BY <1>1, <1>2, <1>3, <1>4, <1>6, <2>4, <2>5, <2>6, <2>7, <2>8, <2>9
       DEF InStep
<1>8. CASE ack_count >= W
  <2>1. cqueue_items(q) = q.size /\ q.front = window_index
    BY <1>1, <1>8 DEF InWindow, Inv, InStep
  <2>2. r = [size  |-> q.size,
             items |-> [q.items EXCEPT ![q.front] = window_index],
             front |-> After(q.front, q.size),
             rear  |-> q.front]
    BY <1>1, <1>5, <2>1, AddFieldsFull
  <2>3. /\ r.front = After(window_index, W)
        /\ r.rear = window_index /\ r.size = W
        /\ r.items = [q.items EXCEPT ![window_index] = window_index]
    BY <1>1, <2>1, <2>2
  <2> HIDE DEF r
  <2>4. cqueue_items(r) = W
    BY <1>1, <2>3 DEF cqueue_items, INVALID, After
  <2>5. InWindow' = W
    BY <1>1, <1>2, <1>4, <1>8 DEF InWindow
  <2>6. \A i \in 0 .. W - 1 : r.items[i] \in {i, NULL}
    BY <1>1, <2>3 DEF Inv, InStep, IsRing
  <2>7. ~(ack_count' < W) /\ ack_count' >= W
    BY <1>1, <1>2, <1>8
  <2> QED
    BY <1>1, <1>2, <1>3, <1>4, <1>6, <2>3, <2>4, <2>5, <2>6, <2>7
       DEF InStep
<1> QED
  BY <1>1, <1>3, <1>4, <1>7, <1>8

\* The history after an ack: one more entry, the earlier ones as they were.
LEMMA HistoryGrows ==
    ASSUME Inv, NEW bits, NEW zeros, ack_stats_update(bits, zeros)
    PROVE  /\ ack_count' = ack_count + 1
           /\ seen' \in Seq([bits : Nat, zeros : Nat,
                             bits_total : Nat, zeros_total : Nat])
           /\ Len(seen') = ack_count + 1
           /\ \A k \in 1 .. ack_count : seen'[k] = seen[k]
           /\ seen'[ack_count + 1] = [bits        |-> bits,
                                      zeros       |-> zeros,
                                      bits_total  |-> bits_total + bits,
                                      zeros_total |-> zeros_total + zeros]
<1> DEFINE S == [bits : Nat, zeros : Nat, bits_total : Nat, zeros_total : Nat]
           ack == [bits        |-> bits,
                   zeros       |-> zeros,
                   bits_total  |-> bits_total + bits,
                   zeros_total |-> zeros_total + zeros]
<1>1. seen \in Seq(S) /\ Len(seen) = ack_count /\ ack_count \in Nat
  BY DEF Inv, TypeOK
<1>2. ack \in S
  BY MaxBitsAssumption DEF Inv, TypeOK, ack_stats_update
<1>3. seen' = Append(seen, ack) /\ ack_count' = ack_count + 1
  BY DEF ack_stats_update
<1> HIDE DEF S, ack
<1>4. /\ seen' \in Seq(S) /\ Len(seen') = ack_count + 1
      /\ \A k \in 1 .. ack_count : seen'[k] = seen[k]
      /\ seen'[ack_count + 1] = ack
  BY <1>1, <1>2, <1>3, AppendProperties
<1> QED
  BY <1>3, <1>4 DEF S, ack

\* Storing an ack in the slot of the one that leaves keeps all the others.
LEMMA UpdateKeepsHeld ==
    ASSUME Inv, NEW bits, NEW zeros, ack_stats_update(bits, zeros)
    PROVE  Held'
<1> DEFINE W == window_size
<1>1. /\ W \in Nat /\ W > 1
      /\ window_index \in 0 .. W - 1
      /\ ack_count \in Nat
      /\ window \in [0 .. W - 1 -> AckInfo]
  BY TypeFacts
<1>2. W' = W /\ window_index' = After(window_index, W)
  BY UpdateKeepsStep
<1>3. window' = [window EXCEPT ![window_index] = [bits |-> bits, zeros |-> zeros]]
  BY DEF ack_stats_update
<1>4. /\ ack_count' = ack_count + 1
      /\ \A k \in 1 .. ack_count : seen'[k] = seen[k]
      /\ seen'[ack_count + 1].bits = bits /\ seen'[ack_count + 1].zeros = zeros
  <2>1. /\ seen'[ack_count + 1] = [bits        |-> bits,
                                   zeros       |-> zeros,
                                   bits_total  |-> bits_total + bits,
                                   zeros_total |-> zeros_total + zeros]
        /\ ack_count' = ack_count + 1
        /\ \A k \in 1 .. ack_count : seen'[k] = seen[k]
    BY HistoryGrows
  <2> QED
    BY <2>1
<1>5. SUFFICES ASSUME NEW j \in 1 .. InWindow'
               PROVE  (window')[Back(j)'] = Info(ack_count - j + 1)'
  BY <1>4 DEF Held, Info
<1>6. /\ j \in 1 .. W /\ j <= ack_count + 1
  BY <1>1, <1>2, <1>4 DEF InWindow
<1>7. CASE j = 1
  <2>1. Back(j)' = window_index
    BY <1>1, <1>2, <1>7 DEF Back, After
  <2>2. ack_count' - j + 1 = ack_count + 1
    BY <1>1, <1>4, <1>7
  <2>3. Info(ack_count - j + 1)' = [bits |-> bits, zeros |-> zeros]
    BY <1>4, <2>2 DEF Info
  <2> QED
    BY <1>1, <1>3, <2>1, <2>3
<1>8. CASE j > 1
  <2>1. j - 1 \in 1 .. InWindow
    BY <1>1, <1>6, <1>8 DEF InWindow
  <2>2. Back(j)' = Back(j - 1)
    BY <1>1, <1>2, <1>6, <1>8 DEF Back, After
  <2>3. Back(j - 1) # window_index /\ Back(j - 1) \in 0 .. W - 1
    BY <1>1, <1>6, <1>8 DEF Back
  <2>4. (window')[Back(j - 1)] = window[Back(j - 1)]
    BY <1>1, <1>3, <2>3
  <2>5. window[Back(j - 1)] = Info(ack_count - (j - 1) + 1)
    BY <2>1 DEF Inv, Held
  <2>6. /\ ack_count' - j + 1 = ack_count - (j - 1) + 1
        /\ ack_count - (j - 1) + 1 \in 1 .. ack_count
    BY <1>1, <1>4, <1>6, <1>8
  <2>7. Info(ack_count - j + 1)' = Info(ack_count - (j - 1) + 1)
    BY <1>4, <2>6 DEF Info
  <2> QED
    BY <2>2, <2>4, <2>5, <2>7
<1> QED
  BY <1>6, <1>7, <1>8

\* The ack that leaves a full window is the one window_size acks ago.
LEMMA LeavingIsOldest ==
    ASSUME Inv
    PROVE  Leaving = IF ack_count < window_size
                     THEN [bits |-> 0, zeros |-> 0]
                     ELSE Info(ack_count - window_size + 1)
<1> DEFINE W == window_size
<1>1. /\ W \in Nat /\ W > 1
      /\ window_index \in 0 .. W - 1
      /\ ack_count \in Nat
      /\ cqueue_items(ack_stats_cq) = InWindow
  BY TypeFacts DEF Inv, InStep
<1>2. CASE ack_count < W
  BY <1>1, <1>2 DEF Leaving, InWindow
<1>3. CASE ack_count >= W
  <2>1. ack_stats_cq.front = window_index /\ InWindow = W
    BY <1>1, <1>3 DEF Inv, InStep, InWindow
  <2>2. ack_stats_cq.items[window_index] \in {window_index, NULL}
    BY <1>1 DEF Inv, InStep
  <2>3. ack_stats_cq.items[window_index] # NULL
    <3>1. IsRing(ack_stats_cq, 0 .. W - 1) /\ W = ack_stats_cq.size
      BY DEF Inv, InStep, window_size
    <3>2. /\ ack_stats_cq.rear \in 0 .. W - 1
          /\ After(ack_stats_cq.rear, W) = window_index
      BY <1>1, <2>1, <3>1, CountOfRing
    <3>3. OnArc(ack_stats_cq, window_index)
      BY <1>1, <2>1, <3>2 DEF OnArc, INVALID
    <3> QED
      BY <1>1, <3>1, <3>3 DEF IsRing
  <2>4. cqueue_front(ack_stats_cq) = window_index
    BY <2>1, <2>2, <2>3 DEF cqueue_front
  <2>5. Back(W) = window_index
    BY <1>1 DEF Back
  <2>6. window[window_index] = Info(ack_count - W + 1)
    BY <1>1, <2>1, <2>5 DEF Inv, Held
  <2> QED
    BY <1>1, <1>3, <2>1, <2>4, <2>6 DEF Leaving
<1> QED
  BY <1>1, <1>2, <1>3

\* One ack keeps the current totals those of the window.  Inside the proof n
\* and W are the values of ack_count and window_size before the ack.
LEMMA UpdateKeepsTotals ==
    ASSUME Inv, NEW bits, NEW zeros, ack_stats_update(bits, zeros)
    PROVE  WindowTotals' /\ TotalsRecorded'
<1>1. PICK n \in Nat, W \in Nat : n = ack_count /\ W = window_size /\ W > 1
  BY TypeFacts
<1>2. /\ bits_total \in Nat /\ zeros_total \in Nat
      /\ cur_bits_total \in Int /\ cur_zeros_total \in Int
      /\ bits \in Nat /\ zeros \in Nat
  BY TypeFacts, MaxBitsAssumption DEF ack_stats_update
<1>3. /\ ack_count' = n + 1
      /\ \A k \in 1 .. n : seen'[k] = seen[k]
      /\ seen'[n + 1] = [bits        |-> bits,
                         zeros       |-> zeros,
                         bits_total  |-> bits_total + bits,
                         zeros_total |-> zeros_total + zeros]
      /\ window_size' = W
  BY <1>1, HistoryGrows, UpdateKeepsStep
<1>4. /\ bits_total' = bits_total + bits
      /\ zeros_total' = zeros_total + zeros
      /\ cur_bits_total' = cur_bits_total - Leaving.bits + bits
      /\ cur_zeros_total' = cur_zeros_total - Leaving.zeros + zeros
  BY DEF ack_stats_update
<1>5. \A k \in 0 .. n : /\ BitsAfter(k)' = BitsAfter(k)
                         /\ ZerosAfter(k)' = ZerosAfter(k)
  BY <1>3 DEF BitsAfter, ZerosAfter
<1>6. /\ BitsAfter(n + 1)' = bits_total + bits
      /\ ZerosAfter(n + 1)' = zeros_total + zeros
  BY <1>3 DEF BitsAfter, ZerosAfter
<1>7. bits_total = BitsAfter(n) /\ zeros_total = ZerosAfter(n)
  BY <1>1 DEF Inv, TotalsRecorded
<1>8. /\ cur_bits_total = BitsAfter(n) - BitsAfter(n - InWindow)
      /\ cur_zeros_total = ZerosAfter(n) - ZerosAfter(n - InWindow)
      /\ \A k \in 1 .. n : /\ BitsAfter(k) = BitsAfter(k - 1) + seen[k].bits
                            /\ ZerosAfter(k) = ZerosAfter(k - 1) + seen[k].zeros
  BY <1>1 DEF Inv, WindowTotals
<1>9. \A k \in 0 .. n : BitsAfter(k) \in Nat /\ ZerosAfter(k) \in Nat
  BY <1>1, TypeFacts DEF BitsAfter, ZerosAfter
<1>10. \A k \in 1 .. n : seen[k].bits \in Nat /\ seen[k].zeros \in Nat
  BY <1>1, TypeFacts
<1>11. \A k \in 1 .. n + 1 :
          /\ BitsAfter(k)' = BitsAfter(k - 1)' + seen'[k].bits
          /\ ZerosAfter(k)' = ZerosAfter(k - 1)' + seen'[k].zeros
  <2> TAKE k \in 1 .. n + 1
  <2>1. CASE k = n + 1
    <3>1. k - 1 = n /\ n \in 0 .. n
      BY <2>1
    <3>2. seen'[k].bits = bits /\ seen'[k].zeros = zeros
      BY <1>3, <2>1
    <3>3. BitsAfter(k - 1)' = bits_total /\ ZerosAfter(k - 1)' = zeros_total
      BY <1>5, <1>7, <3>1
    <3>4. /\ BitsAfter(k)' = bits_total + bits
          /\ ZerosAfter(k)' = zeros_total + zeros
      BY <1>6, <2>1
    <3> QED
      BY <3>2, <3>3, <3>4
  <2>2. CASE k # n + 1
    <3>1. k \in 1 .. n /\ k \in 0 .. n /\ k - 1 \in 0 .. n
      BY <2>2
    <3>2. /\ BitsAfter(k)' = BitsAfter(k) /\ BitsAfter(k - 1)' = BitsAfter(k - 1)
          /\ ZerosAfter(k)' = ZerosAfter(k) /\ ZerosAfter(k - 1)' = ZerosAfter(k - 1)
      BY <1>5, <3>1
    <3> QED
      BY <1>3, <1>8, <3>1, <3>2
  <2> QED
    BY <2>1, <2>2
<1>12. TotalsRecorded'
  BY <1>3, <1>4, <1>6 DEF TotalsRecorded
<1>13. SUFFICES ASSUME NEW m \in 0 .. n, m = (ack_count - InWindow)'
                PROVE  /\ cur_bits_total' = BitsAfter(n + 1)' - BitsAfter(m)'
                       /\ cur_zeros_total' = ZerosAfter(n + 1)' - ZerosAfter(m)'
  <2>1. (ack_count - InWindow)' \in 0 .. n
    BY <1>1, <1>3 DEF InWindow
  <2>2. PICK m \in 0 .. n : m = (ack_count - InWindow)'
    BY <2>1
  <2>3. /\ cur_bits_total' = BitsAfter(n + 1)' - BitsAfter(m)'
        /\ cur_zeros_total' = ZerosAfter(n + 1)' - ZerosAfter(m)'
    BY <1>13, <2>2
  <2> QED
    BY <1>3, <1>11, <1>12, <2>2, <2>3 DEF WindowTotals
<1>14. CASE n < W
  <2>1. m = 0 /\ n - InWindow = 0
    BY <1>1, <1>3, <1>13, <1>14 DEF InWindow
  <2>2. Leaving.bits = 0 /\ Leaving.zeros = 0
    BY <1>1, <1>14, LeavingIsOldest
  <2>3. BitsAfter(m)' = 0 /\ ZerosAfter(m)' = 0
        /\ BitsAfter(n - InWindow) = 0 /\ ZerosAfter(n - InWindow) = 0
    BY <2>1 DEF BitsAfter, ZerosAfter
  <2> QED
    BY <1>2, <1>4, <1>6, <1>7, <1>8, <2>2, <2>3
<1>15. CASE n >= W
  <2>1. m = n - W + 1 /\ InWindow = W
    BY <1>1, <1>3, <1>13, <1>15 DEF InWindow
  <2>2. m \in 1 .. n /\ m - 1 = n - W /\ n - W \in 0 .. n
    BY <1>1, <1>15, <2>1
  <2>3. Leaving.bits = seen[m].bits /\ Leaving.zeros = seen[m].zeros
    BY <1>1, <1>15, <2>1, LeavingIsOldest DEF Info
  <2>4. /\ BitsAfter(m) = BitsAfter(n - W) + seen[m].bits
        /\ ZerosAfter(m) = ZerosAfter(n - W) + seen[m].zeros
    BY <1>8, <2>2
  <2>5. BitsAfter(m)' = BitsAfter(m) /\ ZerosAfter(m)' = ZerosAfter(m)
    BY <1>5, <1>13
  <2>6. /\ BitsAfter(m) \in Nat /\ BitsAfter(n - W) \in Nat
        /\ ZerosAfter(m) \in Nat /\ ZerosAfter(n - W) \in Nat
        /\ seen[m].bits \in Nat /\ seen[m].zeros \in Nat
    BY <1>9, <1>10, <2>2
  <2> QED
    BY <1>2, <1>4, <1>6, <1>7, <1>8, <2>1, <2>3, <2>4, <2>5, <2>6
<1> QED
  BY <1>1, <1>14, <1>15

\* One ack keeps the types.
LEMMA UpdateKeepsType ==
    ASSUME Inv, NEW bits, NEW zeros, ack_stats_update(bits, zeros)
    PROVE  TypeOK'
<1>1. /\ window_size' = window_size /\ window_size \in WindowSizes
      /\ window_size \in Nat /\ window_size > 1
      /\ window_index' = After(window_index, window_size)
      /\ window_index \in 0 .. window_size - 1
  BY UpdateKeepsStep, TypeFacts
<1>2. window_index' \in 0 .. window_size - 1
  BY <1>1 DEF After
<1>3. bits \in Nat /\ zeros \in Nat /\ bits \in 0 .. MaxBits
  BY MaxBitsAssumption DEF ack_stats_update
<1>4. window' \in [0 .. window_size - 1 -> AckInfo]
  <2>1. window' = [window EXCEPT ![window_index] =
                                    [bits |-> bits, zeros |-> zeros]]
    BY DEF ack_stats_update
  <2>2. [bits |-> bits, zeros |-> zeros] \in AckInfo
    BY <1>3 DEF AckInfo
  <2>3. window \in [0 .. window_size - 1 -> AckInfo]
    BY TypeFacts
  <2> QED
    BY <2>1, <2>2, <2>3
<1>5. lengths' \in [0 .. MaxBits -> Int]
  <2>1. lengths \in [0 .. MaxBits -> Int] /\ lengths[bits] \in Int
    BY <1>3, TypeFacts
  <2> QED
    BY <1>3, <2>1 DEF ack_stats_update, Counted
<1>6. Leaving.bits \in Int /\ Leaving.zeros \in Int
  <2>1. CASE ack_count < window_size
    BY <2>1, LeavingIsOldest
  <2>2. CASE ack_count >= window_size
    <3>1. ack_count - window_size + 1 \in 1 .. ack_count
      BY <1>1, <2>2, TypeFacts
    <3>2. Leaving = Info(ack_count - window_size + 1)
      BY <1>1, <2>2, TypeFacts, LeavingIsOldest
    <3> QED
      BY <3>1, <3>2, TypeFacts DEF Info
  <2> QED
    BY <1>1, <2>1, <2>2, TypeFacts
<1>7. /\ cur_bits_total' \in Int /\ cur_zeros_total' \in Int
      /\ bits_total' \in Nat /\ zeros_total' \in Nat /\ ack_count' \in Nat
  <2>1. /\ cur_bits_total \in Int /\ cur_zeros_total \in Int
        /\ bits_total \in Nat /\ zeros_total \in Nat /\ ack_count \in Nat
    BY TypeFacts
  <2>2. /\ ack_count' = ack_count + 1
        /\ cur_bits_total' = cur_bits_total - Leaving.bits + bits
        /\ cur_zeros_total' = cur_zeros_total - Leaving.zeros + zeros
        /\ bits_total' = bits_total + bits
        /\ zeros_total' = zeros_total + zeros
    BY DEF ack_stats_update
  <2> QED
    BY <1>3, <1>6, <2>1, <2>2
<1>8. /\ seen' \in Seq([bits : Nat, zeros : Nat,
                        bits_total : Nat, zeros_total : Nat])
      /\ Len(seen') = ack_count'
  BY HistoryGrows
<1> QED
  BY <1>1, <1>2, <1>4, <1>5, <1>7, <1>8 DEF TypeOK

\* The invariant is inductive.
LEMMA Invariance == Spec => []Inv
<1>1. Init => Inv
  BY InitInv
<1>2. Inv /\ [Next]_vars => Inv'
  <2> SUFFICES ASSUME Inv, [Next]_vars PROVE Inv'
    OBVIOUS
  <2>1. ASSUME NEW bits, NEW zeros, ack_stats_update(bits, zeros) PROVE Inv'
    BY <2>1, UpdateKeepsType, UpdateKeepsStep, UpdateKeepsHeld,
       UpdateKeepsTotals DEF Inv
  <2>2. CASE UNCHANGED vars
    BY <2>2 DEF vars, Inv, TypeOK, InStep, Held, TotalsRecorded, WindowTotals,
                window_size, InWindow, Back, Info, BitsAfter, ZerosAfter
  <2> QED
    BY <2>1, <2>2 DEF Next
<1> QED
  BY <1>1, <1>2, PTL DEF Spec

\* The fields keep their types and the indexes stay inside the arrays, for
\* every window size and any number of acks.
THEOREM TypeCorrect == Spec => []TypeOK
<1>1. Inv => TypeOK
  BY DEF Inv
<1> QED
  BY <1>1, Invariance, PTL

\* The current totals are exactly those of the last window_size acks.
THEOREM TotalsFollowWindow == Spec => []WindowTotals
<1>1. Inv => WindowTotals
  BY DEF Inv
<1> QED
  BY <1>1, Invariance, PTL

\* The queue's pointers lead to the acks of the window, oldest first: no ack
\* is overwritten while it is queued.
THEOREM PointersAlwaysFollow == Spec => []PointersFollowArrival
<1>1. Inv => PointersFollowArrival
  <2> SUFFICES ASSUME Inv, NEW k \in 1 .. InWindow
               PROVE  window[Contents(ack_stats_cq)[k]] =
                        Info(ack_count - InWindow + k)
    BY DEF PointersFollowArrival, Info, Inv, InStep
  <2> DEFINE W == window_size
             q == ack_stats_cq
             i == Slot(q.front, k - 1, W)
             j == InWindow - k + 1
  <2>1. /\ W \in Nat /\ W > 1 /\ W = q.size
        /\ window_index \in 0 .. W - 1
        /\ ack_count \in Nat
        /\ cqueue_items(q) = InWindow
        /\ IsRing(q, 0 .. W - 1)
    BY TypeFacts DEF Inv, InStep
  <2>2. InWindow \in 0 .. W /\ j \in 1 .. InWindow
    BY <2>1 DEF InWindow
  <2>3. i = Back(j) /\ i \in 0 .. W - 1
    <3>1. CASE ack_count < W
      <4>1. InWindow = ack_count /\ window_index = ack_count /\ q.front = 0
        BY <2>1, <2>2, <3>1 DEF Inv, InStep, InWindow
      <4> QED
        BY <2>1, <4>1 DEF Slot, Back
    <3>2. CASE ack_count >= W
      <4>1. InWindow = W /\ q.front = window_index
        BY <2>1, <3>2 DEF Inv, InStep, InWindow
      <4> QED
        BY <2>1, <4>1 DEF Slot, Back
    <3> QED
      BY <2>1, <3>1, <3>2
  <2>4. Contents(q)[k] = q.items[i]
    BY <2>1, ContentsAt
  <2>5. Contents(q)[k] \in 0 .. W - 1
    BY <2>1, ContentsType, ElementOfSeq
  <2>6. Contents(q)[k] = i
    <3>1. q.items[i] \in {i, NULL}
      BY <2>3 DEF Inv, InStep
    <3> QED
      BY <2>1, <2>4, <2>5, <3>1, NullAssumption
  <2>7. window[i] = Info(ack_count - j + 1)
    BY <2>2, <2>3 DEF Inv, Held
  <2>8. ack_count - j + 1 = ack_count - InWindow + k
    BY <2>1, <2>2
  <2> QED
    BY <2>6, <2>7, <2>8
<1> QED
  BY <1>1, Invariance, PTL

-----------------------------------------------------------------------------
(* What is printed.                                                         *)

\* Every ack has bits, MaxBits at most, and no more zeros than bits: what the
\* assertions of ack_stats_update let through.
AcksInRange ==
    \A k \in 1 .. ack_count :
        seen[k].bits \in 1 .. MaxBits /\ seen[k].zeros \in 0 .. seen[k].bits

LEMMA RangeInvariance == Spec => []AcksInRange
<1>1. Init => AcksInRange
  BY DEF Init, AcksInRange
<1>2. Inv /\ AcksInRange /\ [Next]_vars => AcksInRange'
  <2> SUFFICES ASSUME Inv, AcksInRange, [Next]_vars PROVE AcksInRange'
    OBVIOUS
  <2>1. ASSUME NEW bits, NEW zeros, ack_stats_update(bits, zeros)
        PROVE  AcksInRange'
    <3>1. /\ ack_count' = ack_count + 1 /\ ack_count \in Nat
          /\ \A k \in 1 .. ack_count : seen'[k] = seen[k]
          /\ seen'[ack_count + 1].bits = bits
          /\ seen'[ack_count + 1].zeros = zeros
      <4>1. ack_count \in Nat
        BY TypeFacts
      <4>2. /\ ack_count' = ack_count + 1
            /\ \A k \in 1 .. ack_count : seen'[k] = seen[k]
            /\ seen'[ack_count + 1] = [bits        |-> bits,
                                       zeros       |-> zeros,
                                       bits_total  |-> bits_total + bits,
                                       zeros_total |-> zeros_total + zeros]
        BY <2>1, HistoryGrows
      <4> QED
        BY <4>1, <4>2
    <3>2. bits \in 1 .. MaxBits /\ zeros \in 0 .. bits
      BY <2>1 DEF ack_stats_update
    <3>3. ASSUME NEW k \in 1 .. ack_count + 1
          PROVE  seen'[k].bits \in 1 .. MaxBits /\ seen'[k].zeros \in 0 .. seen'[k].bits
      <4>1. CASE k = ack_count + 1
        BY <3>1, <3>2, <4>1
      <4>2. CASE k \in 1 .. ack_count
        BY <3>1, <4>2 DEF AcksInRange
      <4> QED
        BY <3>1, <4>1, <4>2
    <3> QED
      BY <3>1, <3>3 DEF AcksInRange
  <2>2. CASE UNCHANGED vars
    BY <2>2 DEF vars, AcksInRange
  <2> QED
    BY <2>1, <2>2 DEF Next
<1> QED
  BY <1>1, <1>2, Invariance, PTL DEF Spec

\* The bits and zeros of the latest j acks are bounded by their number.
LEMMA TotalsInRange ==
    ASSUME Inv, AcksInRange, NEW old \in 0 .. ack_count
    PROVE  /\ ack_count - old \in Nat
           /\ BitsAfter(ack_count) - BitsAfter(old) \in Int
           /\ ZerosAfter(ack_count) - ZerosAfter(old) \in Int
           /\ ack_count - old <= BitsAfter(ack_count) - BitsAfter(old)
           /\ BitsAfter(ack_count) - BitsAfter(old) <= MaxBits * (ack_count - old)
           /\ 0 <= ZerosAfter(ack_count) - ZerosAfter(old)
           /\ ZerosAfter(ack_count) - ZerosAfter(old)
                  <= BitsAfter(ack_count) - BitsAfter(old)
<1> DEFINE m == ack_count - old
           B(j) == BitsAfter(old + j) - BitsAfter(old)
           Z(j) == ZerosAfter(old + j) - ZerosAfter(old)
           T == {j \in 0 .. m : /\ j <= B(j) /\ B(j) <= MaxBits * j
                                /\ 0 <= Z(j) /\ Z(j) <= B(j)}
<1>1. /\ ack_count \in Nat /\ old \in Nat /\ m \in Nat /\ MaxBits \in Nat
      /\ \A k \in 1 .. ack_count :
            /\ BitsAfter(k) = BitsAfter(k - 1) + seen[k].bits
            /\ ZerosAfter(k) = ZerosAfter(k - 1) + seen[k].zeros
  BY TypeFacts, MaxBitsAssumption DEF Inv, WindowTotals
<1>2. \A k \in 0 .. ack_count : BitsAfter(k) \in Nat /\ ZerosAfter(k) \in Nat
  BY <1>1, TypeFacts DEF BitsAfter, ZerosAfter
<1>3. \A j \in 0 .. m : B(j) \in Int /\ Z(j) \in Int
  <2>1. \A j \in 0 .. m : old + j \in 0 .. ack_count
    BY <1>1
  <2> QED
    BY <1>1, <1>2, <2>1
<1>4. 0 \in T
  <2>1. B(0) = 0 /\ Z(0) = 0
    BY <1>1, <1>2
  <2> QED
    BY <1>1, <2>1
<1>5. ASSUME NEW j \in 0 .. m - 1, j \in T PROVE j + 1 \in T
  <2>1. old + (j + 1) \in 1 .. ack_count /\ (old + (j + 1)) - 1 = old + j
    BY <1>1
  <2>2. /\ B(j + 1) = B(j) + seen[old + (j + 1)].bits
        /\ Z(j + 1) = Z(j) + seen[old + (j + 1)].zeros
    <3> DEFINE k == old + (j + 1)
    <3>1. k \in 1 .. ack_count /\ k - 1 = old + j /\ k - 1 \in 0 .. ack_count
      BY <1>1, <2>1
    <3>2. /\ BitsAfter(k) = BitsAfter(k - 1) + seen[k].bits
          /\ ZerosAfter(k) = ZerosAfter(k - 1) + seen[k].zeros
      BY <1>1, <3>1
    <3>3. seen[k].bits \in Nat /\ seen[k].zeros \in Nat
      BY <3>1, TypeFacts
    <3> HIDE DEF k
    <3>4. /\ BitsAfter(k) \in Nat /\ BitsAfter(k - 1) \in Nat /\ BitsAfter(old) \in Nat
          /\ ZerosAfter(k) \in Nat /\ ZerosAfter(k - 1) \in Nat /\ ZerosAfter(old) \in Nat
      BY <1>1, <1>2, <3>1
    <3>5. B(j + 1) = BitsAfter(k) - BitsAfter(old) /\ B(j) = BitsAfter(k - 1) - BitsAfter(old)
      BY <3>1 DEF k
    <3>6. Z(j + 1) = ZerosAfter(k) - ZerosAfter(old) /\ Z(j) = ZerosAfter(k - 1) - ZerosAfter(old)
      BY <3>1 DEF k
    <3>7. /\ B(j + 1) = B(j) + seen[k].bits
          /\ Z(j + 1) = Z(j) + seen[k].zeros
      BY <3>2, <3>3, <3>4, <3>5, <3>6
    <3> QED
      BY <3>7 DEF k
  <2> DEFINE x == seen[old + (j + 1)].bits
             y == seen[old + (j + 1)].zeros
  <2>3. x \in 1 .. MaxBits /\ y \in 0 .. x
    BY <2>1 DEF AcksInRange
  <2>4. MaxBits * (j + 1) = MaxBits * j + MaxBits /\ MaxBits * j \in Int
    BY <1>1
  <2>5. B(j) \in Int /\ Z(j) \in Int /\ j \in 0 .. m /\ j + 1 \in 0 .. m
    BY <1>1, <1>3
  <2>6. /\ j <= B(j) /\ B(j) <= MaxBits * j /\ 0 <= Z(j) /\ Z(j) <= B(j)
    BY <1>5
  <2>7. B(j + 1) = B(j) + x /\ Z(j + 1) = Z(j) + y
    BY <2>2
  <2> HIDE DEF x, y, B, Z
  <2>8. /\ j + 1 <= B(j + 1) /\ B(j + 1) <= MaxBits * (j + 1)
        /\ 0 <= Z(j + 1) /\ Z(j + 1) <= B(j + 1)
    BY <1>1, <2>3, <2>4, <2>5, <2>6, <2>7
  <2> QED
    BY <2>5, <2>8
<1>6. m \in T
  <2> HIDE DEF T
  <2>1. 0 .. m \subseteq T
    BY <1>1, <1>4, <1>5, InductionTo
  <2> QED
    BY <1>1, <2>1
<1>7. old + m = ack_count /\ m \in 0 .. m
  BY <1>1
<1> QED
  BY <1>1, <1>3, <1>6, <1>7

\* A number that an int can hold is what the int holds.
LEMMA WrappedFits ==
    ASSUME NEW x \in 0 .. INT_MAX
    PROVE  Wrapped(x) = x
<1> DEFINE n == 2 * (INT_MAX + 1)
           j == x + INT_MAX + 1
<1>1. INT_MAX \in Nat
  BY IntMaxAssumption
<1>2. n \in Nat \ {0} /\ j \in 0 .. n - 1
  BY <1>1
<1>3. \A m \in Nat \ {0} : \A i \in 0 .. m - 1 : i % m = i
  BY SMT
<1>4. j % n = j
  <2> HIDE DEF j, n
  <2> QED
    BY <1>2, <1>3
<1>5. Wrapped(x) = j - (INT_MAX + 1)
  <2>1. Wrapped(x) = (j % n) - (INT_MAX + 1)
    BY DEF Wrapped
  <2> HIDE DEF j, n
  <2> QED
    BY <1>4, <2>1
<1> QED
  BY <1>1, <1>5

\* What is printed, for totals in range.
LEMMA QuotientsInRange ==
    ASSUME NEW n \in Nat \ {0}, NEW bits \in Int, NEW zeros \in Int,
           n <= bits, bits <= MaxBits * n, 0 <= zeros, zeros <= bits
    PROVE  /\ bits # 0 /\ bits \div n \in 1 .. MaxBits
           /\ n * MaxBits * 100 <= INT_MAX =>
                  Quotient(Wrapped(zeros * 100), bits) \in 0 .. 100
<1>1. MaxBits \in Nat
  BY MaxBitsAssumption
<1>2. bits \div n \in 1 .. MaxBits
  BY <1>1, DivideBetween
<1>3. /\ bits \in Nat \ {0} /\ zeros * 100 \in Int
      /\ 0 * bits <= zeros * 100 /\ zeros * 100 <= 100 * bits
  OBVIOUS
<1>4. (zeros * 100) \div bits \in 0 .. 100
  BY <1>3, DivideBetween
<1>5. ASSUME n * MaxBits * 100 <= INT_MAX
      PROVE  Quotient(Wrapped(zeros * 100), bits) \in 0 .. 100
  <2>1. n * MaxBits \in Nat /\ bits <= n * MaxBits
    BY <1>1
  <2>2. zeros * 100 \in 0 .. INT_MAX
    <3> DEFINE m == n * MaxBits
    <3>1. m \in Nat /\ bits <= m /\ m * 100 <= INT_MAX
      BY <1>5, <2>1
    <3> HIDE DEF m
    <3> QED
      BY <3>1, IntMaxAssumption
  <2>3. Wrapped(zeros * 100) = zeros * 100 /\ zeros * 100 >= 0
    BY <2>2, WrappedFits
  <2> QED
    BY <1>4, <2>3 DEF Quotient
<1> QED
  BY <1>2, <1>3, <1>5

\* From the first ack on, no division of ack_stats_print is one by zero and
\* every average is a length a bitmap can have, as long as the totals fit an
\* int; and a share of zeros is a percentage as long as a hundred times the
\* bits it is a share of fits one: for every window, MaxBits and INT_MAX.
THEOREM PrintedAlwaysInRange == Spec => []PrintedInRange
<1>1. Inv /\ AcksInRange => PrintedInRange
  <2> SUFFICES ASSUME Inv, AcksInRange, ack_count > 0
               PROVE  /\ Printable
                      /\ {CurrentAverage, OverallAverage} \subseteq 1 .. MaxBits
                      /\ InWindow * MaxBits * 100 <= INT_MAX =>
                             CurrentZerosPercent \in 0 .. 100
                      /\ ack_count * MaxBits * 100 <= INT_MAX =>
                             OverallZerosPercent \in 0 .. 100
    BY DEF PrintedInRange
  <2>1. /\ ack_count \in Nat \ {0} /\ window_size \in Nat /\ window_size > 1
        /\ cqueue_items(ack_stats_cq) = InWindow
    BY TypeFacts DEF Inv, InStep
  <2>2. InWindow \in 1 .. ack_count /\ PrintedCount = InWindow
    BY <2>1 DEF InWindow, PrintedCount
  <2> DEFINE old == ack_count - InWindow
  <2>3. /\ cur_bits_total = BitsAfter(ack_count) - BitsAfter(old)
        /\ cur_zeros_total = ZerosAfter(ack_count) - ZerosAfter(old)
        /\ old \in 0 .. ack_count /\ ack_count - old = InWindow
    BY <2>1, <2>2 DEF Inv, WindowTotals
  <2> HIDE DEF old
  <2>4. /\ cur_bits_total \in Int /\ cur_zeros_total \in Int
        /\ InWindow <= cur_bits_total /\ cur_bits_total <= MaxBits * InWindow
        /\ 0 <= cur_zeros_total /\ cur_zeros_total <= cur_bits_total
    BY <2>3, TotalsInRange
  <2>5. /\ bits_total \in Int /\ zeros_total \in Int
        /\ ack_count <= bits_total /\ bits_total <= MaxBits * ack_count
        /\ 0 <= zeros_total /\ zeros_total <= bits_total
    <3>1. BitsAfter(0) = 0 /\ ZerosAfter(0) = 0 /\ 0 \in 0 .. ack_count
      BY <2>1 DEF BitsAfter, ZerosAfter
    <3>2. /\ bits_total = BitsAfter(ack_count) /\ zeros_total = ZerosAfter(ack_count)
          /\ bits_total \in Nat /\ zeros_total \in Nat
      BY TypeFacts DEF Inv, TotalsRecorded
    <3>3. /\ ack_count - 0 <= BitsAfter(ack_count) - BitsAfter(0)
          /\ BitsAfter(ack_count) - BitsAfter(0) <= MaxBits * (ack_count - 0)
          /\ 0 <= ZerosAfter(ack_count) - ZerosAfter(0)
          /\ ZerosAfter(ack_count) - ZerosAfter(0)
                <= BitsAfter(ack_count) - BitsAfter(0)
      BY <3>1, TotalsInRange
    <3> QED
      BY <2>1, <3>1, <3>2, <3>3
  <2>6. /\ cur_bits_total # 0 /\ CurrentAverage \in 1 .. MaxBits
        /\ InWindow * MaxBits * 100 <= INT_MAX => CurrentZerosPercent \in 0 .. 100
    BY <2>1, <2>2, <2>4, QuotientsInRange DEF CurrentAverage, CurrentZerosPercent
  <2>7. /\ bits_total # 0 /\ OverallAverage \in 1 .. MaxBits
        /\ ack_count * MaxBits * 100 <= INT_MAX =>
               OverallZerosPercent \in 0 .. 100
    BY <2>1, <2>5, QuotientsInRange DEF OverallAverage, OverallZerosPercent
  <2>8. PrintedCount # 0 /\ ack_count # 0
    BY <2>1, <2>2
  <2> QED
    BY <2>6, <2>7, <2>8 DEF Printable
<1> QED
  BY <1>1, Invariance, RangeInvariance, PTL
=============================================================================
