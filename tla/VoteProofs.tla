------------------------------ MODULE VoteProofs ------------------------------
(***************************************************************************)
(* Proofs about the main loop, for every window, every way to vote and any *)
(* number of lines and values.  A line is stored in an array that is       *)
(* overwritten in a circle while a queue points to its latest entries; the *)
(* first part shows once, for both arrays of the code, that the entries    *)
(* queued are a sequence that grows at its end.  The second part shows     *)
(* that the counting loops elect a winner, the third puts them together.   *)
(***************************************************************************)
EXTENDS Vote, Lemmas

\* The slot written j entries before slot w, in an array of M slots.
Behind(w, j, M) == IF j <= w THEN w - j ELSE w - j + M

\* The queue points to the slots written last, w the latest of them.
Trails(q, w, M) ==
    \A k \in 1 .. cqueue_items(q) :
        Contents(q)[k] = Behind(w, cqueue_items(q) - k, M)

\* The entries of the array a that are queued, oldest first.
View(q, a) == [k \in 1 .. cqueue_items(q) |-> a[Contents(q)[k]]]

\* A slot behind the one written next keeps its entry.
LEMMA BehindMoves ==
    ASSUME NEW M \in Nat \ {0, 1}, NEW w \in 0 .. M - 1
    PROVE  /\ After(w, M) \in 0 .. M - 1
           /\ Behind(w, 0, M) = w
           /\ \A j \in 0 .. M - 2 :
                 /\ Behind(After(w, M), j + 1, M) = Behind(w, j, M)
                 /\ Behind(w, j, M) # After(w, M)
           /\ \A j \in 0 .. M - 1 : Behind(w, j, M) \in 0 .. M - 1
BY DEF Behind, After

\* The array a of M slots and the queue q into it are in good order, w being
\* the slot written last.
Stored(q, a, w, M) ==
    /\ M \in Nat \ {0, 1}
    /\ w \in 0 .. M - 1
    /\ IsRing(q, 0 .. M - 1)
    /\ q.size <= M
    /\ Trails(q, w, M)
    /\ a \in [0 .. M - 1 -> MatchInfo]

\* The queue r into the array b has what q has of a, and then the entry e; the
\* oldest entry is gone if q was full.
Appends(q, a, r, b, e) ==
    LET n == cqueue_items(q)
        m == cqueue_items(r)
    IN  /\ r.size = q.size
        /\ n \in 0 .. q.size
        /\ m = IF n = q.size THEN n ELSE n + 1
        /\ View(q, a) \in Seq(MatchInfo) /\ Len(View(q, a)) = n
        /\ \A k \in 1 .. m :
              View(r, b)[k] = IF k = m THEN e
                              ELSE View(q, a)[IF n = q.size THEN k + 1 ELSE k]
        /\ View(r, b) =
              Append(IF n = q.size THEN Tail(View(q, a)) ELSE View(q, a), e)

\* Storing an entry in the next slot and queueing it appends it.
LEMMA StoreIsAppend ==
    ASSUME NEW q, NEW a, NEW w, NEW M, Stored(q, a, w, M), NEW e \in MatchInfo
    PROVE  LET r == cqueue_add(q, After(w, M))
               b == [a EXCEPT ![After(w, M)] = e]
           IN  Stored(r, b, After(w, M), M) /\ Appends(q, a, r, b, e)
<1> DEFINE r == cqueue_add(q, After(w, M))
           b == [a EXCEPT ![After(w, M)] = e]
           n == cqueue_items(q)
           m == cqueue_items(r)
           c == Contents(q)
           d == Contents(r)
           S == MatchInfo
<1> NULL \notin Nat
  BY NullAssumption
<1> /\ M \in Nat \ {0, 1} /\ w \in 0 .. M - 1
    /\ IsRing(q, 0 .. M - 1) /\ q.size <= M /\ Trails(q, w, M)
    /\ a \in [0 .. M - 1 -> S] /\ e \in S
  BY DEF Stored
<1> HIDE DEF S
<1>1. /\ After(w, M) \in 0 .. M - 1
      /\ NULL \notin 0 .. M - 1
  BY BehindMoves
<1>2. IsRing(r, 0 .. M - 1) /\ r.size = q.size
  BY <1>1, AddKeepsRing DEF cqueue_add
<1>3. /\ c \in Seq(0 .. M - 1) /\ Len(c) = n /\ n \in 0 .. q.size
      /\ d \in Seq(0 .. M - 1) /\ Len(d) = m /\ m \in 0 .. q.size
      /\ q.size \in Nat /\ q.size > 1
  BY <1>2, ContentsType, CountOfRing
<1>4. d = Append(IF n = q.size THEN Tail(c) ELSE c, After(w, M))
  BY <1>1, AddIsPut
<1>5. /\ m = IF n = q.size THEN n ELSE n + 1
      /\ d[m] = After(w, M)
      /\ \A k \in 1 .. m - 1 : d[k] = c[IF n = q.size THEN k + 1 ELSE k]
  <2> HIDE DEF c, d, n, m
  <2>1. CASE n = q.size
    BY <1>1, <1>3, <1>4, <2>1
  <2>2. CASE n # q.size
    BY <1>1, <1>3, <1>4, <2>2
  <2> QED
    BY <2>1, <2>2
<1> HIDE DEF c, d, r
<1>6. /\ \A j \in 0 .. M - 1 : Behind(w, j, M) \in 0 .. M - 1
      /\ \A j \in 0 .. M - 2 :
            /\ Behind(After(w, M), j + 1, M) = Behind(w, j, M)
            /\ Behind(w, j, M) # After(w, M)
      /\ Behind(After(w, M), 0, M) = After(w, M)
  BY <1>1, BehindMoves
<1>7. \A k \in 1 .. n : c[k] = Behind(w, n - k, M)
  BY DEF Trails, c
<1>8. n \in Nat /\ n <= q.size /\ n <= M /\ m \in Nat /\ q.size \in Nat
  BY <1>3
<1> HIDE DEF n, m
<1>9. ASSUME NEW k \in 1 .. n
      PROVE  /\ c[k] = Behind(w, n - k, M) /\ c[k] \in 0 .. M - 1
             /\ n - k \in 0 .. M - 1
  <2>1. n - k \in 0 .. M - 1
    BY <1>8
  <2> QED
    BY <2>1, <1>6, <1>7
<1>10. Trails(r, After(w, M), M)
  <2> SUFFICES ASSUME NEW k \in 1 .. m
               PROVE  d[k] = Behind(After(w, M), m - k, M)
    BY DEF Trails, d, m
  <2>1. CASE k = m
    BY <1>8, <1>6, <1>5, <2>1
  <2>2. CASE k # m
    <3> DEFINE i == IF n = q.size THEN k + 1 ELSE k
    <3>1. i \in 1 .. n /\ m - k = (n - i) + 1 /\ n - i \in 0 .. M - 2
      BY <1>8, <1>5, <2>2
    <3>2. k \in 1 .. m - 1
      BY <1>8, <2>2
    <3>3. d[k] = c[i]
      BY <1>5, <3>2
    <3> HIDE DEF i
    <3>4. c[i] = Behind(w, n - i, M)
      BY <1>7, <3>1
    <3> QED
      BY <1>6, <3>1, <3>3, <3>4
  <2> QED
    BY <2>1, <2>2
<1>11. View(q, a) \in Seq(S) /\ Len(View(q, a)) = n /\ DOMAIN View(q, a) = 1 .. n
  <2>1. \A k \in 1 .. n : a[c[k]] \in S
    BY <1>9
  <2>2. View(q, a) = [k \in 1 .. n |-> a[c[k]]]
    BY DEF View, c, n
  <2> QED
    BY <1>8, <2>1, <2>2
<1>12. ASSUME NEW k \in 1 .. m
      PROVE  View(r, b)[k] = IF k = m THEN e
                             ELSE View(q, a)[IF n = q.size THEN k + 1 ELSE k]
  <2>1. View(r, b)[k] = b[d[k]]
    BY DEF View, d, m
  <2>2. CASE k = m
    BY <1>1, <1>5, <2>1, <2>2
  <2>3. CASE k # m
    <3> DEFINE i == IF n = q.size THEN k + 1 ELSE k
    <3>1. i \in 1 .. n /\ n - i \in 0 .. M - 2 /\ k \in 1 .. m - 1
      BY <1>8, <1>5, <2>3
    <3>2. d[k] = c[i]
      BY <1>5, <3>1
    <3> HIDE DEF i
    <3>3. c[i] # After(w, M) /\ c[i] \in 0 .. M - 1
      BY <1>9, <1>6, <3>1
    <3>4. b[c[i]] = a[c[i]]
      BY <3>3
    <3>5. View(q, a)[i] = a[c[i]]
      BY <3>1 DEF View, c, n
    <3> QED
      BY <2>1, <2>3, <3>2, <3>4, <3>5 DEF i
  <2> QED
    BY <2>2, <2>3
<1>13. View(r, b) = Append(IF n = q.size THEN Tail(View(q, a)) ELSE View(q, a), e)
  <2> DEFINE s == IF n = q.size THEN Tail(View(q, a)) ELSE View(q, a)
             v == View(q, a)
             x == View(r, b)
  <2>1. DOMAIN x = 1 .. m /\ x = [k \in 1 .. m |-> x[k]]
    BY DEF View, m
  <2>8. v \in Seq(S) /\ Len(v) = n
    BY <1>11
  <2>9. \A k \in 1 .. m : x[k] = IF k = m THEN e
                                 ELSE v[IF n = q.size THEN k + 1 ELSE k]
    BY <1>12
  <2> HIDE DEF v, x
  <2>2. /\ s \in Seq(S) /\ Len(s) = m - 1
        /\ \A k \in 1 .. m - 1 : s[k] = v[IF n = q.size THEN k + 1 ELSE k]
    <3>1. CASE n = q.size
      <4>1. s = Tail(v) /\ m = n /\ v # << >>
        <5>1. n > 1 /\ m = n
          BY <1>3, <1>5, <3>1
        <5>2. Len(v) # 0
          BY <1>8, <2>8, <5>1
        <5>3. v # << >>
          BY <5>2
        <5>4. s = Tail(v)
          BY <3>1 DEF v
        <5> QED
          BY <5>1, <5>3, <5>4
      <4>2. /\ Tail(v) \in Seq(S) /\ Len(Tail(v)) = Len(v) - 1
            /\ \A k \in 1 .. Len(Tail(v)) : Tail(v)[k] = v[k + 1]
        BY <2>8, <4>1, HeadTailProperties
      <4> QED
        BY <1>8, <2>8, <3>1, <4>1, <4>2
    <3>2. CASE n # q.size
      BY <1>8, <1>5, <2>8, <3>2
    <3> QED
      BY <3>1, <3>2
  <2> HIDE DEF s
  <2>4. ASSUME NEW k \in 1 .. m PROVE x[k] = IF k = m THEN e ELSE s[k]
    <3>1. CASE k = m
      BY <2>9, <3>1
    <3>2. CASE k \in 1 .. m - 1
      BY <1>8, <2>9, <2>2, <3>2
    <3> QED
      BY <1>8, <3>1, <3>2
  <2>5. Append(s, e) = [k \in 1 .. m |-> IF k = m THEN e ELSE s[k]]
    <3>1. m - 1 \in Nat /\ (m - 1) + 1 = m
      BY <1>8, <1>3, <1>5, <2>2, LenProperties
    <3>2. /\ Append(s, e) \in Seq(S) /\ Len(Append(s, e)) = m
          /\ \A k \in 1 .. m - 1 : Append(s, e)[k] = s[k]
          /\ Append(s, e)[m] = e
      BY <2>2, <3>1, AppendProperties
    <3>3. Append(s, e) = [k \in 1 .. m |-> Append(s, e)[k]]
      BY <3>2, LenProperties
    <3>4. \A k \in 1 .. m : Append(s, e)[k] = IF k = m THEN e ELSE s[k]
      BY <1>8, <3>2
    <3> QED
      BY <3>3, <3>4
  <2> QED
    BY <2>1, <2>4, <2>5 DEF v, x, s
<1>14. b \in [0 .. M - 1 -> S]
  BY <1>1
<1>15. Stored(r, b, After(w, M), M)
  BY <1>1, <1>2, <1>10, <1>14 DEF Stored, S
<1> QED
  BY <1>2, <1>3, <1>5, <1>11, <1>12, <1>13, <1>15 DEF r, n, m, S, Appends

-----------------------------------------------------------------------------
(* The vote.                                                                *)

\* The entries of a packet that was decoded and of another line.
PacketEntry == [status : {"STATUS_MATCH"}, match : {{v} : v \in Values},
                is_packet : {TRUE}, ack_number : Nat \ {0}]
OtherEntry  == [status : {"STATUS_NOT_PACKET"}, match : {{}},
                is_packet : {FALSE}, ack_number : Nat \ {0}]
Entry == PacketEntry \cup OtherEntry

\* What the counting loops keep: a type, and its value before the first entry.
Tally == [freq : [Values -> Nat], max : Nat, value : Values \cup {VALUE_INVALID}]
NoTally == [freq |-> [j \in Values |-> 0], max |-> 0, value |-> VALUE_INVALID]

LEMMA EntryFacts ==
    ASSUME NEW m \in Entry
    PROVE  /\ m.match = {} => m \in OtherEntry /\ m.status = "STATUS_NOT_PACKET"
           /\ m.match # {} => /\ m \in PacketEntry /\ m.status = "STATUS_MATCH"
                              /\ \E v \in Values : m.match = {v}
           /\ m.is_packet = IF m.match # {} THEN TRUE ELSE FALSE
           /\ m.ack_number \in Nat \ {0}
           /\ m \in MatchInfo
<1>1. ASSUME NEW st \in Statuses, NEW mt \in SUBSET Values, NEW b \in BOOLEAN,
             NEW k \in Int
      PROVE  [status |-> st, match |-> mt, is_packet |-> b, ack_number |-> k]
                \in MatchInfo
  BY DEF MatchInfo
<1>2. CASE m \in PacketEntry
  <2>1. PICK v \in Values, k \in Nat \ {0} :
           m = [status |-> "STATUS_MATCH", match |-> {v}, is_packet |-> TRUE,
                ack_number |-> k]
    BY <1>2 DEF PacketEntry
  <2>2. /\ "STATUS_MATCH" \in Statuses /\ {v} \in SUBSET Values
        /\ TRUE \in BOOLEAN /\ k \in Int
    BY DEF Statuses
  <2>3. m \in MatchInfo
    BY <1>1, <2>1, <2>2, Zenon
  <2> QED
    BY <1>2, <2>1, <2>3
<1>3. CASE m \in OtherEntry
  <2>1. PICK k \in Nat \ {0} :
           m = [status |-> "STATUS_NOT_PACKET", match |-> {}, is_packet |-> FALSE,
                ack_number |-> k]
    BY <1>3 DEF OtherEntry
  <2>2. /\ "STATUS_NOT_PACKET" \in Statuses /\ {} \in SUBSET Values
        /\ FALSE \in BOOLEAN /\ k \in Int
    BY DEF Statuses
  <2>3. m \in MatchInfo
    BY <1>1, <2>1, <2>2, Zenon
  <2> QED
    BY <1>3, <2>1, <2>3
<1> QED
  BY <1>2, <1>3 DEF Entry

LEMMA CountType ==
    ASSUME NEW m, NEW x \in Tally, NEW j \in Values
    PROVE  Count(x, m, j) \in Tally
BY DEF Count, Tally

\* The inner loop counts the one flag of a packet.
LEMMA CountEntryIs ==
    ASSUME NEW m \in Entry, NEW x \in Tally
    PROVE  /\ m.match = {} => CountEntry(m, x) = x
           /\ \A v \in Values : m.match = {v} => CountEntry(m, x) = Count(x, m, v)
<1>1. ASSUME m.match = {} PROVE CountEntry(m, x) = x
  BY <1>1, EntryFacts DEF CountEntry
<1>2. ASSUME NEW v \in Values, m.match = {v}
      PROVE  CountEntry(m, x) = Count(x, m, v)
  <2> DEFINE P(t) == t = [j \in 0 .. NumValues |->
                            IF j = 0 THEN x ELSE Count(t[j - 1], m, j - 1)]
             u == CHOOSE t : P(t)
             step == [k \in 1 .. NumValues |-> [y \in Tally |-> Count(y, m, k - 1)]]
  <2>1. NumValues \in Nat \ {0} /\ Values = 0 .. NumValues - 1
    BY NumValuesAssumption DEF Values
  <2>2. m.status = "STATUS_MATCH"
    BY <1>2, EntryFacts
  <2>3. CountEntry(m, x) = u[NumValues]
    BY <2>2 DEF CountEntry
  <2>4. \E t : P(t)
    <3>1. ASSUME NEW k \in 1 .. NumValues, NEW y \in Tally
          PROVE  Count(y, m, k - 1) \in Tally
      BY <2>1, CountType
    <3>2. step \in [1 .. NumValues -> [Tally -> Tally]]
      BY <3>1
    <3>3. PICK f : Recurs(f, Tally, x, step, NumValues)
      <4> HIDE DEF step
      <4> QED
        BY <2>1, <3>2, Recursion
    <3>4. f \in [0 .. NumValues -> Tally] /\ f[0] = x
      BY <3>3 DEF Recurs
    <3>5. ASSUME NEW k \in 1 .. NumValues PROVE f[k] = Count(f[k - 1], m, k - 1)
      <4>1. f[k - 1] \in Tally
        BY <2>1, <3>4
      <4>2. f[k] = step[k][f[k - 1]]
        BY <3>3 DEF Recurs
      <4> QED
        BY <4>1, <4>2
    <3> QED
      BY <2>1, <3>4, <3>5
  <2>5. P(u)
    BY <2>4
  <2> HIDE DEF u
  <2>6. u[0] = x /\ \A k \in 1 .. NumValues : u[k] = Count(u[k - 1], m, k - 1)
    BY <2>1, <2>5
  <2> DEFINE R == {j \in 0 .. NumValues :
                     u[j] = IF j <= v THEN x ELSE Count(x, m, v)}
  <2>7. 0 \in R
    BY <2>1, <2>6
  <2>8. ASSUME NEW j \in 0 .. NumValues - 1, j \in R PROVE j + 1 \in R
    <3>1. u[j + 1] = Count(u[j], m, j) /\ j + 1 \in 0 .. NumValues
      BY <2>1, <2>6
    <3>2. CASE j = v
      BY <2>1, <2>8, <3>1, <3>2
    <3>3. CASE j # v
      <4>1. Count(u[j], m, j) = u[j]
        BY <1>2, <3>3 DEF Count
      <4> QED
        BY <2>1, <2>8, <3>1, <3>3, <4>1
    <3> QED
      BY <3>2, <3>3
  <2>9. 0 .. NumValues \subseteq R
    <3> HIDE DEF R
    <3> QED
      BY <2>1, <2>7, <2>8, InductionTo
  <2> QED
    BY <2>1, <2>3, <2>9
<1> QED
  BY <1>1, <1>2
LEMMA CountEntryType ==
    ASSUME NEW m \in Entry, NEW x \in Tally
    PROVE  CountEntry(m, x) \in Tally
<1>1. CASE m.match = {}
  BY <1>1, CountEntryIs
<1>2. CASE m.match # {}
  <2>1. PICK v \in Values : m.match = {v}
    BY <1>2, EntryFacts
  <2>2. CountEntry(m, x) = Count(x, m, v)
    BY <2>1, CountEntryIs
  <2> QED
    BY <2>2, CountType
<1> QED
  BY <1>1, <1>2

\* The outer loop tallies the entries of the slots one after the other.
LEMMA MostFrequentSteps ==
    ASSUME NEW q, NEW w, NEW n \in Nat,
           \A k \in 1 .. n : Entries(q, w, n)[k] \in Entry
    PROVE  \E t \in [0 .. n -> Tally] :
              /\ t[0] = NoTally
              /\ \A k \in 1 .. n : t[k] = CountEntry(Entries(q, w, n)[k], t[k - 1])
              /\ MostFrequent(q, w, n) = t[n].value
<1> DEFINE E == Entries(q, w, n)
           P(t) == t = [k \in 0 .. n |->
                          IF k = 0 THEN NoTally ELSE CountEntry(E[k], t[k - 1])]
           u == CHOOSE t : P(t)
           step == [k \in 1 .. n |-> [y \in Tally |-> CountEntry(E[k], y)]]
<1>1. MostFrequent(q, w, n) = u[n].value
  BY DEF MostFrequent, NoTally
<1>2. NoTally \in Tally
  BY DEF NoTally, Tally
<1>3. \E t \in [0 .. n -> Tally] : P(t)
  <2>1. ASSUME NEW k \in 1 .. n, NEW y \in Tally PROVE CountEntry(E[k], y) \in Tally
    BY CountEntryType
  <2> HIDE DEF E
  <2>2. step \in [1 .. n -> [Tally -> Tally]]
    BY <2>1
  <2>3. PICK f : Recurs(f, Tally, NoTally, step, n)
    <3> HIDE DEF step
    <3> QED
      BY <1>2, <2>2, Recursion
  <2>4. f \in [0 .. n -> Tally] /\ f[0] = NoTally
    BY <2>3 DEF Recurs
  <2>5. ASSUME NEW k \in 1 .. n PROVE f[k] = CountEntry(E[k], f[k - 1])
    <3>1. f[k - 1] \in Tally
      BY <2>4
    <3>2. f[k] = step[k][f[k - 1]]
      BY <2>3 DEF Recurs
    <3> QED
      BY <3>1, <3>2
  <2> QED
    BY <2>4, <2>5
<1>4. P(u)
  BY <1>3
<1>5. PICK t \in [0 .. n -> Tally] : P(t)
  BY <1>3
<1> HIDE DEF u, E
\* There is one such function only.
<1>6. 0 .. n \subseteq {k \in 0 .. n : u[k] = t[k]}
  <2> DEFINE T == {k \in 0 .. n : u[k] = t[k]}
  <2>1. 0 \in T
    BY <1>4, <1>5
  <2>2. ASSUME NEW k \in 0 .. n - 1, k \in T PROVE k + 1 \in T
    <3>1. k + 1 \in 0 .. n /\ k + 1 # 0 /\ (k + 1) - 1 = k
      OBVIOUS
    <3>2. u[k + 1] = CountEntry(E[k + 1], u[k]) /\ t[k + 1] = CountEntry(E[k + 1], t[k])
      BY <1>4, <1>5, <3>1
    <3> QED
      BY <2>2, <3>1, <3>2
  <2> HIDE DEF T
  <2>3. 0 .. n \subseteq T
    BY <2>1, <2>2, InductionTo
  <2> QED
    BY <2>3 DEF T
<1>7. /\ t[0] = NoTally
      /\ \A k \in 1 .. n : t[k] = CountEntry(E[k], t[k - 1])
  BY <1>5
<1>8. u[n] = t[n]
  BY <1>6
<1> QED
  BY <1>1, <1>7, <1>8 DEF E

\* A set has one element more among the first k + 1 numbers if it has k + 1.
LEMMA OneMore ==
    ASSUME NEW G, NEW k \in Nat
    PROVE  /\ Cardinality(G \cap (1 .. k)) \in Nat
           /\ Cardinality(G \cap (1 .. k + 1)) =
                 Cardinality(G \cap (1 .. k)) + IF k + 1 \in G THEN 1 ELSE 0
<1>1. IsFiniteSet(1 .. k)
  BY FS_Interval
<1>2. IsFiniteSet(G \cap (1 .. k))
  <2>1. G \cap (1 .. k) \subseteq 1 .. k
    OBVIOUS
  <2> QED
    BY <1>1, <2>1, FS_Subset
<1>3. Cardinality(G \cap (1 .. k)) \in Nat
  BY <1>2, FS_CardinalityType
<1>4. CASE k + 1 \in G
  <2>1. G \cap (1 .. k + 1) = (G \cap (1 .. k)) \cup {k + 1}
    BY <1>4
  <2>2. k + 1 \notin G \cap (1 .. k)
    OBVIOUS
  <2> QED
    BY <1>2, <1>3, <1>4, <2>1, <2>2, FS_AddElement
<1>5. CASE k + 1 \notin G
  <2>1. G \cap (1 .. k + 1) = G \cap (1 .. k)
    BY <1>5
  <2> QED
    BY <1>3, <1>5, <2>1
<1> QED
  BY <1>3, <1>4, <1>5

\* The slots among the first n whose entry decoded to v.
SlotsFor(q, w, n, v) == {k \in 1 .. n : Entries(q, w, n)[k].match = {v}}

\* The loops elect a value that no other outnumbers, or none of no packets.
LEMMA WinnerOf ==
    ASSUME NEW q, NEW w, NEW n \in Nat,
           \A k \in 1 .. n : Entries(q, w, n)[k] \in Entry
    PROVE  LET x == MostFrequent(q, w, n)
               E == Entries(q, w, n)
           IN  /\ (\A k \in 1 .. n : E[k].match = {}) => x = VALUE_INVALID
               /\ (\E k \in 1 .. n : E[k].match # {}) =>
                     /\ x \in Values
                     /\ \E k \in 1 .. n : E[k].match = {x}
                     /\ \A v \in Values : Cardinality(SlotsFor(q, w, n, v))
                                             <= Cardinality(SlotsFor(q, w, n, x))
<1> DEFINE E == Entries(q, w, n)
           C(v, k) == Cardinality(SlotsFor(q, w, n, v) \cap (1 .. k))
<1>1. PICK t \in [0 .. n -> Tally] :
              /\ t[0] = NoTally
              /\ \A k \in 1 .. n : t[k] = CountEntry(E[k], t[k - 1])
              /\ MostFrequent(q, w, n) = t[n].value
  BY MostFrequentSteps
<1> DEFINE J(k) == /\ \A v \in Values : /\ t[k].freq[v] = C(v, k)
                                        /\ t[k].freq[v] <= t[k].max
                   /\ t[k].value = VALUE_INVALID => t[k].max = 0
                   /\ t[k].value # VALUE_INVALID =>
                        t[k].max > 0 /\ t[k].max = t[k].freq[t[k].value]
           T == {k \in 0 .. n : J(k)}
<1>2. 0 \in T
  <2>1. \A v \in Values : C(v, 0) = 0
    <3>1. \A v \in Values : SlotsFor(q, w, n, v) \cap (1 .. 0) = {}
      OBVIOUS
    <3> QED
      BY <3>1, FS_EmptySet
  <2> QED
    BY <1>1, <2>1 DEF NoTally
<1>3. ASSUME NEW k \in 0 .. n - 1, k \in T PROVE k + 1 \in T
  <2>1. /\ k + 1 \in 1 .. n /\ k + 1 \in 0 .. n /\ (k + 1) - 1 = k
        /\ k \in 0 .. n /\ k \in Nat
    OBVIOUS
  <2>2. /\ t[k] \in Tally /\ E[k + 1] \in Entry
        /\ t[k + 1] = CountEntry(E[k + 1], t[k])
    BY <1>1, <2>1
  <2>3. \A v \in Values :
          C(v, k + 1) = C(v, k) + IF E[k + 1].match = {v} THEN 1 ELSE 0
    <3>1. \A v \in Values : k + 1 \in SlotsFor(q, w, n, v) <=> E[k + 1].match = {v}
      BY <2>1 DEF SlotsFor
    <3> QED
      BY <2>1, <3>1, OneMore
  <2> HIDE DEF C
  <2>4. CASE E[k + 1].match = {}
    <3>1. t[k + 1] = t[k]
      BY <2>2, <2>4, CountEntryIs
    <3>2. \A v \in Values : C(v, k + 1) = C(v, k)
      <4>1. \A v \in Values : t[k].freq[v] = C(v, k) /\ t[k].freq[v] \in Nat
        BY <1>3, <2>2 DEF Tally
      <4> QED
        BY <2>3, <2>4, <4>1
    <3> QED
      BY <1>3, <2>1, <3>1, <3>2
  <2>5. CASE E[k + 1].match # {}
    <3>1. PICK v \in Values : E[k + 1].match = {v}
      BY <2>2, <2>5, EntryFacts
    <3>2. t[k + 1] = Count(t[k], E[k + 1], v)
      BY <2>2, <3>1, CountEntryIs
    <3>3. /\ t[k].freq \in [Values -> Nat] /\ t[k].max \in Nat
          /\ t[k].value \in Values \cup {VALUE_INVALID}
          /\ VALUE_INVALID \notin Values
      BY <2>2 DEF Tally, Values, VALUE_INVALID
    <3>4. /\ t[k + 1].freq = [t[k].freq EXCEPT ![v] = t[k].freq[v] + 1]
          /\ t[k + 1].max = IF t[k].freq[v] + 1 > t[k].max
                            THEN t[k].freq[v] + 1 ELSE t[k].max
          /\ t[k + 1].value = IF t[k].freq[v] + 1 > t[k].max THEN v ELSE t[k].value
      BY <3>1, <3>2 DEF Count
    <3>5. \A x \in Values : C(x, k + 1) = C(x, k) + IF x = v THEN 1 ELSE 0
      BY <2>3, <3>1
    <3>6. J(k)
      BY <1>3
    <3>7. J(k + 1)
      BY <3>3, <3>4, <3>5, <3>6
    <3> QED
      BY <2>1, <3>7
  <2> QED
    BY <2>4, <2>5
<1>4. n \in T
  <2> HIDE DEF T
  <2>1. 0 .. n \subseteq T
    BY <1>2, <1>3, InductionTo
  <2> QED
    BY <2>1
<1>5. \A v \in Values : C(v, n) = Cardinality(SlotsFor(q, w, n, v))
  <2>1. \A v \in Values : SlotsFor(q, w, n, v) \cap (1 .. n) = SlotsFor(q, w, n, v)
    BY DEF SlotsFor
  <2> QED
    BY <2>1
<1>6. ASSUME NEW v \in Values
      PROVE  C(v, n) > 0 <=> \E k \in 1 .. n : E[k].match = {v}
  <2> DEFINE G == SlotsFor(q, w, n, v)
  <2>1. IsFiniteSet(G)
    <3>1. IsFiniteSet(1 .. n) /\ G \subseteq 1 .. n
      BY FS_Interval DEF SlotsFor
    <3> QED
      BY <3>1, FS_Subset
  <2>2. Cardinality(G) \in Nat /\ (Cardinality(G) = 0 <=> G = {})
    BY <2>1, FS_CardinalityType, FS_EmptySet
  <2>3. G # {} <=> \E k \in 1 .. n : E[k].match = {v}
    BY DEF SlotsFor
  <2> QED
    BY <1>5, <2>2, <2>3
<1>7. t[n] \in Tally /\ MostFrequent(q, w, n) = t[n].value /\ J(n)
  BY <1>1, <1>4
<1> DEFINE x == MostFrequent(q, w, n)
<1> HIDE DEF J, T, E, C, x
<1>8. /\ t[n].freq \in [Values -> Nat] /\ t[n].max \in Nat
      /\ t[n].value \in Values \cup {VALUE_INVALID}
      /\ VALUE_INVALID \notin Values /\ x = t[n].value
  BY <1>7 DEF Tally, Values, VALUE_INVALID, x
<1>9. ASSUME \A k \in 1 .. n : E[k].match = {} PROVE x = VALUE_INVALID
  <2>1. \A v \in Values : ~ (C(v, n) > 0)
    BY <1>6, <1>9
  <2> QED
    BY <1>7, <1>8, <2>1 DEF J
<1>10. ASSUME NEW k \in 1 .. n, E[k].match # {}
      PROVE  x \in Values /\ C(x, n) > 0
  <2>1. E[k] \in Entry
    BY DEF E
  <2>2. PICK v \in Values : E[k].match = {v}
    BY <1>10, <2>1, EntryFacts
  <2>3. C(v, n) > 0
    BY <1>6, <2>2
  <2> QED
    BY <1>7, <1>8, <2>3 DEF J
<1>11. ASSUME x \in Values
       PROVE  \A v \in Values : C(v, n) <= C(x, n)
  BY <1>7, <1>8, <1>11 DEF J
<1> QED
  BY <1>5, <1>6, <1>9, <1>10, <1>11 DEF E, x

\* The permutation p takes a slot to the place of its entry in the queue.
Places(q, a, n, p) ==
    /\ p \in Bijection(1 .. n, 1 .. n)
    /\ \A i \in 1 .. n : /\ q.items[i - 1] = Contents(q)[p[i]]
                         /\ Entries(q, a, n)[i] = View(q, a)[p[i]]
                         /\ p[i] = 1 <=> i = q.front + 1

\* Where the slots a vote reads are all in use, they hold the entries queued,
\* though not oldest first.
LEMMA SlotsAndPlaces ==
    ASSUME NEW Ptr, NULL \notin Ptr, NEW q, IsRing(q, Ptr), NEW a,
           NEW n, n = cqueue_items(q), n = q.size \/ n = 0 \/ q.front = 0
    PROVE  /\ n \in Nat
           /\ \A i \in 1 .. n : q.items[i - 1] \in Ptr
           /\ \E p : Places(q, a, n, p)
<1>1. /\ n \in 0 .. q.size /\ q.size \in Nat /\ n \in Nat
      /\ n # 0 => q.front \in 0 .. q.size - 1
  <2>1. /\ cqueue_items(q) \in 0 .. q.size
        /\ cqueue_items(q) = 0 <=> q.front = INVALID
        /\ q.size \in Nat /\ q.front \in INVALID .. q.size - 1
    BY CountOfRing DEF IsRing
  <2> QED
    BY <2>1 DEF INVALID
<1> DEFINE place(i) == IF i - 1 >= q.front THEN i - q.front
                       ELSE i - q.front + q.size
           slot(k) == Slot(q.front, k - 1, q.size) + 1
           p == [i \in 1 .. n |-> place(i)]
<1>2. ASSUME NEW i \in 1 .. n
      PROVE  place(i) \in 1 .. n /\ slot(place(i)) = i
  BY <1>1 DEF Slot
<1>3. ASSUME NEW k \in 1 .. n
      PROVE  slot(k) \in 1 .. n /\ place(slot(k)) = k
  BY <1>1 DEF Slot
<1> HIDE DEF place, slot
<1>4. p \in Bijection(1 .. n, 1 .. n)
  <2>1. p \in [1 .. n -> 1 .. n]
    BY <1>2
  <2>2. \A i, j \in 1 .. n : p[i] = p[j] => i = j
    <3>1. \A i \in 1 .. n : slot(p[i]) = i
      BY <1>2
    <3> QED
      BY <3>1
  <2>3. \A k \in 1 .. n : \E i \in 1 .. n : p[i] = k
    <3>1. \A k \in 1 .. n : slot(k) \in 1 .. n /\ p[slot(k)] = k
      BY <1>3
    <3> QED
      BY <3>1
  <2> HIDE DEF p
  <2> QED
    BY <2>1, <2>2, <2>3 DEF Bijection, Injection, Surjection, IsInjective
<1>5. ASSUME NEW i \in 1 .. n
      PROVE  /\ p[i] \in 1 .. n
             /\ q.items[i - 1] = Contents(q)[p[i]]
             /\ q.items[i - 1] \in Ptr
             /\ Entries(q, a, n)[i] = View(q, a)[p[i]]
             /\ p[i] = 1 <=> i = q.front + 1
  <2>1. p[i] \in 1 .. n /\ slot(p[i]) = i
    BY <1>2
  <2>5. p[i] = 1 <=> i = q.front + 1
    BY <1>1 DEF place
  <2>2. Slot(q.front, p[i] - 1, q.size) = i - 1
    <3> HIDE DEF p
    <3>1. Slot(q.front, p[i] - 1, q.size) + 1 = i
      BY <2>1 DEF slot
    <3>2. Slot(q.front, p[i] - 1, q.size) \in Int
      BY <1>1, <2>1 DEF Slot
    <3> QED
      BY <3>1, <3>2
  <2> HIDE DEF p
  <2>3. Contents(q)[p[i]] = q.items[i - 1]
    BY <2>1, <2>2, ContentsAt
  <2>4. Contents(q)[p[i]] \in Ptr
    BY <2>1, ContentsType
  <2> QED
    BY <2>1, <2>3, <2>4, <2>5 DEF Entries, View
<1>6. Places(q, a, n, p)
  BY <1>4, <1>5 DEF Places
<1> QED
  BY <1>1, <1>5, <1>6

\* So it counts what is queued.
LEMMA SameCount ==
    ASSUME NEW n \in Nat, NEW p \in Bijection(1 .. n, 1 .. n),
           NEW S \in SUBSET (1 .. n), NEW T \in SUBSET (1 .. n),
           \A i \in 1 .. n : i \in S <=> p[i] \in T
    PROVE  Cardinality(S) = Cardinality(T) /\ Cardinality(T) \in 0 .. n
<1> DEFINE h == [i \in S |-> p[i]]
<1>1. IsFiniteSet(1 .. n) /\ Cardinality(1 .. n) = n
  BY FS_Interval
<1>2. IsFiniteSet(S) /\ IsFiniteSet(T) /\ Cardinality(T) <= n /\ Cardinality(T) \in Nat
  <2>1. IsFiniteSet(S) /\ IsFiniteSet(T) /\ Cardinality(T) <= Cardinality(1 .. n)
    BY <1>1, FS_Subset
  <2> QED
    BY <1>1, <2>1, FS_CardinalityType
<1>3. /\ p \in [1 .. n -> 1 .. n]
      /\ \A i, j \in 1 .. n : p[i] = p[j] => i = j
      /\ \A k \in 1 .. n : \E i \in 1 .. n : p[i] = k
  BY DEF Bijection, Injection, Surjection, IsInjective
<1>4. h \in Bijection(S, T)
  <2>1. h \in [S -> T]
    BY <1>3
  <2>2. \A i, j \in S : h[i] = h[j] => i = j
    BY <1>3
  <2>3. \A k \in T : \E i \in S : h[i] = k
    BY <1>3
  <2> HIDE DEF h
  <2> QED
    BY <2>1, <2>2, <2>3 DEF Bijection, Injection, Surjection, IsInjective
<1>5. ExistsBijection(S, T)
  BY <1>4 DEF ExistsBijection
<1>6. Cardinality(S) = Cardinality(T)
  BY <1>2, <1>5, FS_Bijection
<1> QED
  BY <1>2, <1>6

\* The n entries that a vote among the first n slots counts are those queued.
Countable(q, a, w, M, n) ==
    /\ Stored(q, a, w, M)
    /\ n = cqueue_items(q)
    /\ n = q.size \/ n = 0 \/ q.front = 0
    /\ \A k \in 1 .. n : View(q, a)[k] \in Entry

\* What a vote elects and counts, in terms of the entries queued.
Counted(q, a, n) ==
    LET x == MostFrequent(q, a, n)
        V(v) == {k \in 1 .. n : View(q, a)[k].match = {v}}
        pk == {k \in 1 .. n : View(q, a)[k].is_packet}
    IN  /\ n \in Nat
        /\ SlotsFilled(q, n)
        /\ \A i \in 1 .. n : \E k \in 1 .. n : Entries(q, a, n)[i] = View(q, a)[k]
        /\ (\A k \in 1 .. n : View(q, a)[k].match = {}) => x = VALUE_INVALID
        /\ (\E k \in 1 .. n : View(q, a)[k].match # {}) =>
              /\ x \in Values
              /\ \E k \in 1 .. n : View(q, a)[k].match = {x}
              /\ \A v \in Values : Cardinality(V(v)) <= Cardinality(V(x))
        /\ Packets(q, a, n) = Cardinality(pk)
        /\ Packets(q, a, n) \in 0 .. n

LEMMA VoteOnQueue ==
    ASSUME NEW q, NEW a, NEW w, NEW M, NEW n, Countable(q, a, w, M, n)
    PROVE  Counted(q, a, n)
<1> DEFINE x == MostFrequent(q, a, n)
           V(v) == {k \in 1 .. n : View(q, a)[k].match = {v}}
           pk == {k \in 1 .. n : View(q, a)[k].is_packet}
           E == Entries(q, a, n)
           u == View(q, a)
           Ptr == 0 .. M - 1
<1> /\ NULL \notin Ptr /\ IsRing(q, Ptr) /\ n = cqueue_items(q)
    /\ n = q.size \/ n = 0 \/ q.front = 0
    /\ \A k \in 1 .. n : u[k] \in Entry
  BY NullAssumption DEF Countable, Stored
<1> HIDE DEF Ptr
<1>1. PICK p \in Bijection(1 .. n, 1 .. n) :
         \A i \in 1 .. n : E[i] = u[p[i]]
  BY SlotsAndPlaces DEF Places
<1>2. n \in Nat /\ \A i \in 1 .. n : q.items[i - 1] \in Ptr
  BY SlotsAndPlaces
<1>3. /\ \A i \in 1 .. n : p[i] \in 1 .. n
      /\ \A k \in 1 .. n : \E i \in 1 .. n : p[i] = k
  BY DEF Bijection, Injection, Surjection
<1>4. SlotsFilled(q, n)
  <2>1. ASSUME NEW i \in 0 .. n - 1 PROVE q.items[i] # NULL
    <3>1. i + 1 \in 1 .. n /\ (i + 1) - 1 = i
      BY <1>2
    <3>2. q.items[(i + 1) - 1] \in Ptr
      BY <1>2, <3>1
    <3> QED
      BY <3>1, <3>2
  <2> QED
    BY <2>1 DEF SlotsFilled
<1> HIDE DEF E, u, Counted
<1>5. \A k \in 1 .. n : u[k] \in Entry
  BY DEF u
<1>6. \A i \in 1 .. n : E[i] \in Entry
  BY <1>1, <1>3, <1>5
<1>7. ASSUME NEW v
      PROVE  Cardinality(SlotsFor(q, a, n, v)) = Cardinality(V(v))
  <2> DEFINE G == {k \in 1 .. n : u[k].match = {v}}
             S == SlotsFor(q, a, n, v)
  <2>1. /\ S \in SUBSET (1 .. n) /\ G \in SUBSET (1 .. n)
        /\ \A i \in 1 .. n : i \in S <=> p[i] \in G
    BY <1>1, <1>3 DEF SlotsFor, E
  <2>2. V(v) = G
    BY DEF u
  <2> HIDE DEF G, S
  <2>3. Cardinality(S) = Cardinality(G)
    BY <1>1, <1>2, <2>1, SameCount
  <2> QED
    BY <2>2, <2>3 DEF S
<1>8. Packets(q, a, n) = Cardinality(pk) /\ Packets(q, a, n) \in 0 .. n
  <2> DEFINE G == {k \in 1 .. n : u[k].is_packet}
             S == {i \in 1 .. n : E[i].is_packet}
  <2>1. /\ S \in SUBSET (1 .. n) /\ G \in SUBSET (1 .. n)
        /\ \A i \in 1 .. n : i \in S <=> p[i] \in G
    BY <1>1, <1>3
  <2>2. pk = G
    BY DEF u
  <2>3. Packets(q, a, n) = Cardinality(S)
    BY DEF Packets, E
  <2> HIDE DEF G, S, pk
  <2>4. n \in Nat /\ p \in Bijection(1 .. n, 1 .. n)
    BY <1>1, <1>2
  <2>5. Cardinality(S) = Cardinality(G) /\ Cardinality(G) \in 0 .. n
    BY <2>1, <2>4, SameCount
  <2> QED
    BY <2>2, <2>3, <2>5
<1>9. ASSUME \A k \in 1 .. n : u[k].match = {}
      PROVE  x = VALUE_INVALID
  <2>1. \A i \in 1 .. n : E[i].match = {}
    BY <1>1, <1>3, <1>9
  <2> QED
    BY <1>2, <1>6, <2>1, WinnerOf DEF E
<1>10. ASSUME NEW k \in 1 .. n, u[k].match # {}
       PROVE  /\ x \in Values
              /\ \E j \in 1 .. n : u[j].match = {x}
              /\ \A v \in Values : Cardinality(V(v)) <= Cardinality(V(x))
  <2>1. \E i \in 1 .. n : E[i].match # {}
    BY <1>1, <1>3, <1>10
  <2>2. /\ x \in Values
        /\ \E i \in 1 .. n : E[i].match = {x}
        /\ \A v \in Values : Cardinality(SlotsFor(q, a, n, v))
                                <= Cardinality(SlotsFor(q, a, n, x))
    BY <1>2, <1>6, <2>1, WinnerOf DEF E
  <2>3. \E j \in 1 .. n : u[j].match = {x}
    <3>1. PICK i \in 1 .. n : E[i].match = {x}
      BY <2>2
    <3>2. p[i] \in 1 .. n /\ u[p[i]].match = {x}
      BY <1>1, <1>3, <3>1
    <3> QED
      BY <3>2
  <2>4. Cardinality(SlotsFor(q, a, n, x)) = Cardinality(V(x))
    BY <1>7
  <2>5. \A v \in Values : Cardinality(SlotsFor(q, a, n, v)) = Cardinality(V(v))
    BY <1>7
  <2> HIDE DEF V, x
  <2> QED
    BY <2>2, <2>3, <2>4, <2>5
<1>11. \A i \in 1 .. n : \E k \in 1 .. n : E[i] = u[k]
  BY <1>1, <1>3
<1> QED
  BY <1>2, <1>4, <1>8, <1>9, <1>10, <1>11 DEF E, u, Counted

-----------------------------------------------------------------------------
(* The loop.                                                                *)

\* The lines stored: the line that makes -A exit is counted, but not stored.
Lines == IF status = "exited" THEN line_count - 1 ELSE line_count

\* How many of count entries a queue of this size holds.
Kept(count, size) == IF count < size THEN count ELSE size

\* The window and its queue trail the lines, for -A without ever going round.
LinesQueued ==
    /\ Lines <= MaxLines
    /\ status = "exited" => opts.mode = "-A"
    /\ windex = Lines % MaxWindow
    /\ IF opts.mode \in {"-n", "-A"}
       THEN /\ Stored(cq, window, windex, MaxWindow)
            /\ cq.size = opts.size
            /\ cqueue_items(cq) = Kept(Lines, opts.size)
            /\ opts.mode = "-A" => Lines < MaxWindow /\ (Lines = 0 \/ cq.front = 0)
       ELSE cq = cqueue_create(0)

\* So do the array and the queue of the packets.
PacketsQueued ==
    IF opts.mode = "-l"
    THEN /\ Stored(packet_cq, packet_window, packet_windex, opts.size)
         /\ packet_cq.size = opts.size
         /\ cqueue_items(packet_cq) = Kept(packet_count, opts.size)
         /\ prev_packet_count = packet_count
    ELSE packet_cq = cqueue_create(0) /\ packet_windex = 0

\* What is queued are entries of lines, in the order of the lines.
EntriesQueued ==
    \A k \in DOMAIN Queued :
        IF opts.mode = "-l"
        THEN /\ Queued[k] \in PacketEntry
             /\ Queued[k].ack_number \in 1 .. line_count
             /\ k > 1 => Queued[k].ack_number > Queued[k - 1].ack_number
        ELSE /\ Queued[k] \in Entry
             /\ Queued[k].ack_number = Lines - Len(Queued) + k

\* When votes are held, and that the latest one elected the winner of the
\* entries that are queued still.
VotesHeld ==
    /\ voted <=> CASE opts.mode = "-n"   -> line_count > opts.size
                   [] opts.mode = "-l"   -> packet_count >= opts.size
                   [] opts.mode = "-A"   -> voted /\ status # "reading"
                   [] opts.mode = "none" -> FALSE
    /\ voted /\ opts.mode \in {"-n", "-l"} =>
          most_freq_value = MostFrequent(Queue, Array, opts.size)
    /\ status = "reading" => handed = NotHanded

Inv ==
    /\ TypeOK
    /\ LinesQueued
    /\ PacketsQueued
    /\ EntriesQueued
    /\ VotesHeld
    /\ NoAssertionFails
    /\ SafeModeOutput

\* What a line with the entry e does, a packet or not.
LineOf(e) ==
    /\ StartOfLine
    /\ e \in Entry
    /\ e.ack_number = line_count'
    /\ window' = [window EXCEPT ![windex'] = e]
    /\ packet_count' = IF e.match = {} THEN packet_count ELSE packet_count + 1
    /\ IF opts.mode = "-l" /\ e.match # {}
       THEN /\ packet_windex' = NextPacketIndex
            /\ packet_window' = [packet_window EXCEPT ![packet_windex'] = e]
            /\ packet_cq' = cqueue_add(packet_cq, packet_windex')
       ELSE UNCHANGED <<packet_window, packet_windex, packet_cq>>
    /\ EndOfLine

LEMMA LineHasEntry ==
    ASSUME TypeOK, NotPacket \/ \E num \in Values : Packet(num)
    PROVE  \E e : LineOf(e)
<1>1. line_count' \in Nat \ {0}
  <2>1. line_count \in Nat
    BY MaxLinesAssumption DEF TypeOK
  <2>2. line_count' = line_count + 1
    BY DEF NotPacket, Packet, StartOfLine
  <2> QED
    BY <2>1, <2>2
<1>2. CASE NotPacket
  <2> DEFINE e == [status |-> "STATUS_NOT_PACKET", match |-> {},
                   is_packet |-> FALSE, ack_number |-> line_count']
  <2>1. e \in OtherEntry
    BY <1>1 DEF OtherEntry
  <2>2. window' = [window EXCEPT ![windex'] = e]
    BY <1>2 DEF NotPacket, window_add
  <2>3. LineOf(e)
    BY <1>2, <2>1, <2>2 DEF NotPacket, LineOf, Entry
  <2> QED
    BY <2>3
<1>3. ASSUME NEW num \in Values, Packet(num) PROVE \E e : LineOf(e)
  <2> DEFINE e == [status |-> "STATUS_MATCH", match |-> {num},
                   is_packet |-> TRUE, ack_number |-> line_count']
  <2>1. e \in PacketEntry
    BY <1>1 DEF PacketEntry
  <2>2. /\ window' = [window EXCEPT ![windex'] = e]
        /\ opts.mode = "-l" =>
              packet_window' = [packet_window EXCEPT ![packet_windex'] = e]
    BY <1>3 DEF Packet, window_add
  <2>3. e.match # {} /\ e.ack_number = line_count' /\ e \in Entry
    BY <2>1 DEF Entry
  <2> HIDE DEF e
  <2>4. LineOf(e)
    BY <1>3, <2>2, <2>3 DEF Packet, LineOf
  <2> QED
    BY <2>4
<1> QED
  BY <1>2, <1>3

\* What the options allow.
LEMMA OptionFacts ==
    ASSUME opts \in Options
    PROVE  /\ opts.mode \in {"-n", "-l", "-A", "none"} /\ opts.size \in Nat
           /\ opts.output \in BOOLEAN /\ opts.safe_mode \in BOOLEAN
           /\ opts.min_packet_count \in Nat
           /\ opts.mode = "-n" => opts.size \in 2 .. MaxWindow
           /\ opts.mode = "-l" => opts.size >= 2
           /\ opts.mode = "-A" => opts.size = MaxWindow
           /\ opts.mode = "none" => opts.size = 0
           /\ MaxWindow \in Nat \ {0, 1}
           /\ NULL \notin Nat
BY OptionsAssumption, MaxWindowAssumption, NullAssumption DEF LegalOptions

\* A line is stored in the next slot of the window, and a packet in the next
\* slot of the array of the packets; the queue the votes count gets the entry
\* at its end, or it is left as it was.
LEMMA LineQueues ==
    ASSUME Inv, NEW e, LineOf(e)
    PROVE  /\ LinesQueued' /\ PacketsQueued'
           /\ window' \in [0 .. MaxWindow - 1 -> MatchInfo]
           /\ packet_window' \in [0 .. (packet_cq.size)' - 1 -> MatchInfo]
           /\ IF opts.mode \in {"-n", "-A"} \/ (opts.mode = "-l" /\ e.match # {})
              THEN LET n == Len(Queued)
                       m == Len(Queued')
                   IN  /\ n \in 0 .. opts.size
                       /\ m = IF n = opts.size THEN n ELSE n + 1
                       /\ DOMAIN Queued = 1 .. n
                       /\ DOMAIN Queued' = 1 .. m
                       /\ \A k \in 1 .. m :
                             (Queued')[k] =
                                IF k = m THEN e
                                ELSE Queued[IF n = opts.size THEN k + 1 ELSE k]
                       /\ Queued' = Append(IF n = opts.size THEN Tail(Queued)
                                           ELSE Queued, e)
              ELSE UNCHANGED <<Queue, Queued>>
<1>1. /\ status = "reading" /\ line_count \in Nat /\ packet_count \in Nat
      /\ Lines = line_count /\ windex = line_count % MaxWindow
      /\ opts' = opts /\ opts \in Options
      /\ line_count' = line_count + 1
      /\ status' # "exited" /\ Lines' = line_count + 1 /\ Lines' <= MaxLines
  <2>1. line_count \in Nat
    BY MaxLinesAssumption DEF Inv, TypeOK
  <2>2. line_count < MaxLines
    BY DEF LineOf, StartOfLine
  <2> QED
    BY <2>1, <2>2, MaxLinesAssumption
       DEF Inv, TypeOK, LinesQueued, LineOf, StartOfLine, EndOfLine,
           process_saved_packets, VoteOfLines, Output, Lines
<1>2. /\ opts.mode \in {"-n", "-l", "-A", "none"} /\ opts.size \in Nat
      /\ opts.mode = "-n" => opts.size \in 2 .. MaxWindow
      /\ opts.mode = "-l" => opts.size >= 2
      /\ opts.mode = "-A" => opts.size = MaxWindow
      /\ MaxWindow \in Nat \ {0, 1}
      /\ NULL \notin Nat
  BY <1>1, OptionFacts
<1>3. /\ windex \in 0 .. MaxWindow - 1
      /\ windex' = After(windex, MaxWindow)
      /\ windex' = (Lines') % MaxWindow
  <2>1. windex' = (line_count + 1) % MaxWindow
    BY DEF LineOf, StartOfLine, NextIndex
  <2> QED
    BY <1>1, <1>2, <2>1, CountAround
<1>4. e \in MatchInfo /\ e \in Entry
  BY EntryFacts DEF LineOf
<1>5. window' = [window EXCEPT ![windex'] = e]
  BY DEF LineOf
<1>6. window' \in [0 .. MaxWindow - 1 -> MatchInfo]
  BY <1>4, <1>5 DEF Inv, TypeOK
<1>7. CASE opts.mode \in {"-n", "-A"}
  <2>1. /\ cq' = cqueue_add(cq, After(windex, MaxWindow))
        /\ window' = [window EXCEPT ![After(windex, MaxWindow)] = e]
    BY <1>3, <1>5, <1>7 DEF LineOf, EndOfLine
  <2>2. /\ Stored(cq, window, windex, MaxWindow) /\ cq.size = opts.size
        /\ IsRing(cq, 0 .. MaxWindow - 1)
        /\ cqueue_items(cq) = Kept(line_count, opts.size)
        /\ opts.mode = "-A" => line_count < MaxWindow /\ (line_count = 0 \/ cq.front = 0)
    BY <1>1, <1>7 DEF Inv, LinesQueued, Stored
  <2>4. /\ Queued = View(cq, window)
        /\ Queued' = View(cq', window')
    BY <1>1, <1>7 DEF Queued, Queue, Array, View
  <2> DEFINE n == cqueue_items(cq)
             m == cqueue_items(cq')
  <2>6. /\ Stored(cq', window', windex', MaxWindow) /\ (cq').size = cq.size
        /\ n \in 0 .. cq.size
        /\ m = IF n = cq.size THEN n ELSE n + 1
        /\ View(cq, window) \in Seq(MatchInfo) /\ Len(View(cq, window)) = n
        /\ \A k \in 1 .. m :
              View(cq', window')[k] =
                 IF k = m THEN e
                 ELSE View(cq, window)[IF n = cq.size THEN k + 1 ELSE k]
        /\ View(cq', window') =
              Append(IF n = cq.size THEN Tail(View(cq, window))
                     ELSE View(cq, window), e)
    <3>1. Stored(cq', window', windex', MaxWindow) /\ Appends(cq, window, cq', window', e)
      BY <1>3, <1>4, <2>1, <2>2, StoreIsAppend
    <3> QED
      BY <3>1 DEF Appends
  <2>7. n \in 0 .. opts.size /\ m \in Nat
    BY <1>2, <2>2, <2>6
  <2>8. /\ DOMAIN View(cq, window) = 1 .. n /\ DOMAIN View(cq', window') = 1 .. m
        /\ Len(View(cq', window')) = m
    BY <2>7 DEF View
  <2>9. LinesQueued'
    <3>1. m = Kept(Lines', opts.size)
      BY <1>1, <1>2, <1>7, <2>2, <2>6, <2>7 DEF Kept
    <3>2. opts.mode = "-A" => Lines' < MaxWindow /\ (Lines' = 0 \/ (cq').front = 0)
      <4> SUFFICES ASSUME opts.mode = "-A"
                   PROVE  Lines' < MaxWindow /\ (cq').front = 0
        OBVIOUS
      <4>1. line_count + 1 < MaxWindow
        BY <1>1, <1>2 DEF LineOf, StartOfLine
      <4>2. n = line_count /\ n < cq.size
        BY <1>1, <1>2, <2>2, <4>1 DEF Kept
      <4>3. (cq').front = IF cq.front = INVALID THEN 0 ELSE cq.front
        <5>1. After(windex, MaxWindow) \in 0 .. MaxWindow - 1
          BY <1>2, <1>3, BehindMoves
        <5>2. cqueue_items(cq) < cq.size
          BY <4>2
        <5>3. cqueue_add(cq, After(windex, MaxWindow)) =
                 [size  |-> cq.size,
                  items |-> [cq.items EXCEPT ![After(cq.rear, cq.size)] =
                                After(windex, MaxWindow)],
                  front |-> IF cq.front = INVALID THEN 0 ELSE cq.front,
                  rear  |-> After(cq.rear, cq.size)]
          BY <2>2, <5>1, <5>2, AddFieldsWithRoom
        <5> QED
          BY <2>1, <5>3
      <4>4. cq.front = INVALID \/ cq.front = 0
        BY <2>2, <4>2, CountOfRing
      <4> QED
        BY <1>1, <4>1, <4>3, <4>4
    <3> QED
      BY <1>1, <1>3, <1>7, <2>2, <2>6, <3>1, <3>2 DEF LinesQueued
  <2>10. /\ packet_cq' = packet_cq /\ packet_windex' = packet_windex
         /\ packet_window' = packet_window
    BY <1>7 DEF LineOf
  <2>11. PacketsQueued'
    BY <1>1, <1>7, <2>10 DEF PacketsQueued, Inv
  <2>12. packet_window' \in [0 .. (packet_cq.size)' - 1 -> MatchInfo]
    BY <2>10 DEF Inv, TypeOK
  <2> HIDE DEF n, m
  <2> QED
    BY <1>6, <1>7, <2>2, <2>4, <2>6, <2>7, <2>8, <2>9, <2>11, <2>12
<1>8. CASE opts.mode = "-l" /\ e.match # {}
  <2>1. /\ packet_windex' = (packet_windex + 1) % opts.size
        /\ packet_window' = [packet_window EXCEPT ![packet_windex'] = e]
        /\ packet_cq' = cqueue_add(packet_cq, packet_windex')
        /\ packet_count' = packet_count + 1
    BY <1>8 DEF LineOf, NextPacketIndex
  <2>2. /\ Stored(packet_cq, packet_window, packet_windex, opts.size)
        /\ packet_cq.size = opts.size
        /\ packet_windex \in 0 .. opts.size - 1
        /\ cqueue_items(packet_cq) = Kept(packet_count, opts.size)
        /\ prev_packet_count = packet_count
    BY <1>8 DEF Inv, PacketsQueued, Stored
  <2>3. packet_windex' = After(packet_windex, opts.size)
    BY <1>2, <1>8, <2>1, <2>2, StepAround
  <2>4. /\ Queued = View(packet_cq, packet_window)
        /\ Queued' = View(packet_cq', packet_window')
    BY <1>1, <1>8 DEF Queued, Queue, Array, View
  <2>5. /\ packet_cq' = cqueue_add(packet_cq, After(packet_windex, opts.size))
        /\ packet_window' = [packet_window EXCEPT ![After(packet_windex, opts.size)] = e]
    BY <2>1, <2>3
  <2> DEFINE n == cqueue_items(packet_cq)
             m == cqueue_items(packet_cq')
             v == View(packet_cq, packet_window)
             w == View(packet_cq', packet_window')
  <2>6. /\ Stored(packet_cq', packet_window', packet_windex', opts.size)
        /\ (packet_cq').size = opts.size
        /\ n \in 0 .. opts.size
        /\ m = IF n = opts.size THEN n ELSE n + 1
        /\ v \in Seq(MatchInfo) /\ Len(v) = n
        /\ \A k \in 1 .. m :
              w[k] = IF k = m THEN e ELSE v[IF n = opts.size THEN k + 1 ELSE k]
        /\ w = Append(IF n = opts.size THEN Tail(v) ELSE v, e)
    <3>1. /\ Stored(packet_cq', packet_window', packet_windex', opts.size)
          /\ Appends(packet_cq, packet_window, packet_cq', packet_window', e)
      BY <1>4, <2>2, <2>3, <2>5, StoreIsAppend
    <3> QED
      BY <2>2, <3>1 DEF Appends
  <2>7. n \in 0 .. opts.size /\ m \in Nat
    BY <1>2, <2>2, <2>6
  <2>8. DOMAIN v = 1 .. n /\ DOMAIN w = 1 .. m /\ Len(w) = m
    BY <2>7 DEF View
  <2>9. PacketsQueued'
    <3>1. m = Kept(packet_count', opts.size)
      BY <1>1, <1>2, <1>8, <2>1, <2>2, <2>6, <2>7 DEF Kept
    <3>2. prev_packet_count' = packet_count'
      BY <1>1, <1>8, <2>1, <2>2 DEF LineOf, EndOfLine
    <3> QED
      BY <1>1, <1>8, <2>6, <3>1, <3>2 DEF PacketsQueued
  <2>10. LinesQueued'
    <3>1. cq' = cq
      BY <1>8 DEF LineOf, EndOfLine
    <3> QED
      BY <1>1, <1>3, <1>8, <3>1 DEF Inv, LinesQueued
  <2>11. packet_window' \in [0 .. (packet_cq.size)' - 1 -> MatchInfo]
    BY <2>6 DEF Stored
  <2> HIDE DEF n, m, v, w
  <2> QED
    BY <1>6, <1>8, <2>4, <2>6, <2>7, <2>8, <2>9, <2>10, <2>11 DEF v, w
<1>9. CASE opts.mode = "none" \/ (opts.mode = "-l" /\ e.match = {})
  <2>1. /\ packet_windex' = packet_windex /\ packet_window' = packet_window
        /\ packet_cq' = packet_cq /\ cq' = cq
    BY <1>9 DEF LineOf, EndOfLine
  <2>2. opts.mode = "-l" => packet_count' = packet_count
    BY <1>9 DEF LineOf
  <2>3. opts.mode = "-l" => prev_packet_count' = prev_packet_count
    BY <1>1, <2>2 DEF LineOf, EndOfLine, Inv, PacketsQueued
  <2>4. PacketsQueued'
    BY <1>1, <1>9, <2>1, <2>2, <2>3 DEF Inv, PacketsQueued
  <2>5. LinesQueued'
    BY <1>1, <1>3, <1>9, <2>1 DEF Inv, LinesQueued
  <2>6. Queue' = Queue
    BY <1>1, <2>1 DEF Queue
  <2>7. Queued' = Queued
    <3>1. CASE opts.mode = "-l"
      BY <1>1, <2>1, <3>1 DEF Queued, Queue, Array
    <3>2. CASE opts.mode = "none"
      <4>1. Queue = cqueue_create(0)
        BY <3>2 DEF Inv, LinesQueued, Queue
      <4>2. cqueue_items(Queue) = 0
        BY <4>1 DEF cqueue_items, cqueue_create
      <4> QED
        BY <2>6, <4>2 DEF Queued
    <3> QED
      BY <1>9, <3>1, <3>2
  <2>8. packet_window' \in [0 .. (packet_cq.size)' - 1 -> MatchInfo]
    BY <2>1 DEF Inv, TypeOK
  <2> QED
    BY <1>6, <1>9, <2>4, <2>5, <2>6, <2>7, <2>8
<1> QED
  BY <1>2, <1>7, <1>8, <1>9

LEMMA LineEntries ==
    ASSUME Inv, NEW e, LineOf(e)
    PROVE  EntriesQueued'
<1>1. /\ status = "reading" /\ line_count \in Nat
      /\ Lines = line_count
      /\ opts' = opts /\ opts \in Options
      /\ line_count' = line_count + 1
      /\ Lines' = line_count + 1
      /\ e \in Entry /\ e.ack_number = line_count'
  <2>1. line_count \in Nat
    BY MaxLinesAssumption DEF Inv, TypeOK
  <2> QED
    BY <2>1 DEF Inv, TypeOK, LineOf, StartOfLine, EndOfLine, process_saved_packets,
           VoteOfLines, Output, Lines
<1>2. opts.mode \in {"-n", "-l", "-A", "none"} /\ opts.size \in Nat
  BY <1>1, OptionFacts
<1>3. EntriesQueued
  BY DEF Inv
<1> DEFINE s == Queued
           t == Queued'
           n == Len(s)
           m == Len(t)
<1>4. CASE opts.mode \in {"-n", "-A"} \/ (opts.mode = "-l" /\ e.match # {})
  <2>1. /\ n \in 0 .. opts.size
        /\ m = IF n = opts.size THEN n ELSE n + 1
        /\ DOMAIN s = 1 .. n
        /\ DOMAIN t = 1 .. m
        /\ \A k \in 1 .. m :
              t[k] = IF k = m THEN e ELSE s[IF n = opts.size THEN k + 1 ELSE k]
    BY <1>4, LineQueues
  <2>2. CASE opts.mode \in {"-n", "-A"}
    <3>1. \A k \in 1 .. n : s[k] \in Entry /\ s[k].ack_number = line_count - n + k
      BY <1>1, <1>3, <2>1, <2>2 DEF EntriesQueued
    <3> SUFFICES ASSUME NEW k \in 1 .. m
                 PROVE  t[k] \in Entry /\ t[k].ack_number = Lines' - m + k
      BY <1>1, <2>1, <2>2 DEF EntriesQueued
    <3> HIDE DEF s, t, n, m
    <3>2. CASE k = m
      <4>1. t[k] = e /\ m \in Nat
        BY <1>2, <2>1, <3>2
      <4>2. Lines' - m + k = line_count + 1
        BY <1>1, <3>2, <4>1
      <4> QED
        BY <1>1, <4>1, <4>2
    <3>3. CASE k # m
      <4> DEFINE i == IF n = opts.size THEN k + 1 ELSE k
      <4>1. i \in 1 .. n /\ t[k] = s[i] /\ line_count - n + i = Lines' - m + k
        BY <1>1, <1>2, <2>1, <3>3
      <4> HIDE DEF i
      <4> QED
        BY <1>1, <3>1, <4>1
    <3> QED
      BY <3>2, <3>3
  <2>3. CASE opts.mode = "-l" /\ e.match # {}
    <3>1. \A k \in 1 .. n :
             /\ s[k] \in PacketEntry
             /\ s[k].ack_number \in 1 .. line_count
             /\ k > 1 => s[k].ack_number > s[k - 1].ack_number
      BY <1>3, <2>1, <2>3 DEF EntriesQueued
    <3>2. e \in PacketEntry
      BY <1>1, <2>3, EntryFacts
    <3> SUFFICES ASSUME NEW k \in 1 .. m
                 PROVE  /\ t[k] \in PacketEntry
                        /\ t[k].ack_number \in 1 .. line_count + 1
                        /\ k > 1 => t[k].ack_number > t[k - 1].ack_number
      BY <1>1, <2>1, <2>3 DEF EntriesQueued
    <3> HIDE DEF s, t, n, m
    <3> DEFINE i == IF n = opts.size THEN k + 1 ELSE k
    <3>3. CASE k = m
      <4>1. t[k] = e
        BY <2>1, <3>3
      <4>2. ASSUME k > 1 PROVE t[k - 1].ack_number \in 1 .. line_count
        <5>1. k - 1 \in 1 .. m /\ k - 1 # m /\ i - 1 \in 1 .. n
          BY <1>2, <2>1, <3>3, <4>2
        <5>2. t[k - 1] = s[i - 1]
          BY <2>1, <5>1
        <5> QED
          BY <3>1, <5>1, <5>2
      <4> QED
        BY <1>1, <3>2, <4>1, <4>2
    <3>4. CASE k # m
      <4>1. i \in 1 .. n /\ t[k] = s[i]
        BY <1>2, <2>1, <3>4
      <4>2. k > 1 => i > 1 /\ t[k - 1] = s[i - 1]
        BY <1>2, <2>1, <3>4
      <4> HIDE DEF i
      <4> QED
        BY <1>1, <3>1, <4>1, <4>2
    <3> QED
      BY <3>3, <3>4
  <2> QED
    BY <1>4, <2>2, <2>3
<1>5. CASE opts.mode = "none" \/ (opts.mode = "-l" /\ e.match = {})
  <2>1. Queued' = Queued
    BY <1>5, LineQueues
  <2>2. CASE opts.mode = "-l"
    BY <1>1, <1>3, <2>1, <2>2 DEF EntriesQueued
  <2>3. CASE opts.mode = "none"
    <3>1. Queue = cqueue_create(0)
      BY <2>3 DEF Inv, LinesQueued, Queue
    <3>2. cqueue_items(Queue) = 0
      BY <3>1 DEF cqueue_items, cqueue_create
    <3>3. DOMAIN Queued = {}
      BY <3>2 DEF Queued
    <3> QED
      BY <2>1, <3>3 DEF EntriesQueued
  <2> QED
    BY <1>5, <2>2, <2>3
<1> QED
  BY <1>2, <1>4, <1>5

\* What the loop relies on of a vote.
Elects(q, a, n) ==
    LET x == MostFrequent(q, a, n)
        v == View(q, a)
    IN  /\ SlotsFilled(q, n) /\ n \in Nat /\ n = cqueue_items(q)
        /\ DOMAIN v = 1 .. n
        /\ x \in Values \cup {VALUE_INVALID}
        /\ x # VALUE_INVALID => \E k \in DOMAIN v : x \in v[k].match
        /\ Packets(q, a, n) = Cardinality({k \in DOMAIN v : v[k].is_packet})
        /\ Packets(q, a, n) \in 0 .. n
        /\ \A i \in 1 .. n : \E k \in 1 .. n : Entries(q, a, n)[i] = v[k]

LEMMA WinnerIsQueued ==
    ASSUME NEW q, NEW a, NEW w, NEW M, NEW n, Countable(q, a, w, M, n)
    PROVE  Elects(q, a, n)
<1> DEFINE x == MostFrequent(q, a, n)
           v == View(q, a)
<1>1. Counted(q, a, n)
  BY VoteOnQueue
<1>2. n = cqueue_items(q) /\ DOMAIN v = 1 .. n
  BY DEF Countable, View
<1> HIDE DEF x, v
<1>3. /\ (\A k \in 1 .. n : v[k].match = {}) => x = VALUE_INVALID
      /\ (\E k \in 1 .. n : v[k].match # {}) =>
            x \in Values /\ \E k \in 1 .. n : v[k].match = {x}
  BY <1>1 DEF Counted, x, v
<1>4. /\ x \in Values \cup {VALUE_INVALID}
      /\ x # VALUE_INVALID => \E k \in 1 .. n : x \in v[k].match
  BY <1>3
<1>5. /\ SlotsFilled(q, n) /\ n \in Nat
      /\ Packets(q, a, n) = Cardinality({k \in 1 .. n : v[k].is_packet})
      /\ Packets(q, a, n) \in 0 .. n
      /\ \A i \in 1 .. n : \E k \in 1 .. n : Entries(q, a, n)[i] = v[k]
  BY <1>1 DEF Counted, v
<1> QED
  BY <1>2, <1>4, <1>5 DEF x, v, Elects

\* Where a line is followed by a vote, the queue is full.
LEMMA LineVoteIsCountable ==
    ASSUME Inv, NEW e, LineOf(e)
    PROVE  /\ opts.mode = "-n" /\ line_count' > opts.size =>
                 /\ Countable(cq', window', windex', MaxWindow, opts.size)
                 /\ Queued' = View(cq', window')
           /\ opts.mode = "-l" =>
                 /\ cqueue_items(packet_cq') = Kept(packet_count', opts.size)
                 /\ Queued' = View(packet_cq', packet_window')
           /\ opts.mode = "-l" /\ packet_count' >= opts.size =>
                 /\ Countable(packet_cq', packet_window', packet_windex',
                              opts.size, opts.size)
                 /\ \A k \in 1 .. opts.size : (Queued')[k] \in PacketEntry
<1>1. LinesQueued' /\ PacketsQueued' /\ EntriesQueued'
  BY LineQueues, LineEntries
<1>2. /\ opts' = opts /\ opts \in Options /\ Lines' = line_count'
      /\ line_count' \in Nat /\ packet_count' \in Nat
  <2>1. line_count \in Nat /\ packet_count \in Nat
    BY MaxLinesAssumption DEF Inv, TypeOK
  <2> QED
    BY <2>1 DEF Inv, TypeOK, LineOf, StartOfLine, EndOfLine, process_saved_packets,
           VoteOfLines, Output, Lines
<1>3. opts.size \in Nat
  BY <1>2, OptionFacts
<1>4. ASSUME opts.mode = "-n", line_count' > opts.size
      PROVE  /\ Countable(cq', window', windex', MaxWindow, opts.size)
             /\ Queued' = View(cq', window')
  <2>1. /\ Stored(cq', window', windex', MaxWindow) /\ (cq').size = opts.size
        /\ cqueue_items(cq') = Kept(line_count', opts.size)
    BY <1>1, <1>2, <1>4 DEF LinesQueued
  <2>2. cqueue_items(cq') = opts.size
    BY <1>2, <1>3, <1>4, <2>1 DEF Kept
  <2>3. Queued' = View(cq', window')
    BY <1>2, <1>4 DEF Queued, Queue, Array, View
  <2>4. DOMAIN Queued' = 1 .. opts.size
    BY <2>2, <2>3 DEF View
  <2>5. \A k \in 1 .. opts.size : View(cq', window')[k] \in Entry
    BY <1>1, <1>2, <1>4, <2>3, <2>4 DEF EntriesQueued
  <2> QED
    BY <2>1, <2>2, <2>3, <2>5 DEF Countable
<1>5. ASSUME opts.mode = "-l"
      PROVE  /\ cqueue_items(packet_cq') = Kept(packet_count', opts.size)
             /\ Queued' = View(packet_cq', packet_window')
             /\ Stored(packet_cq', packet_window', packet_windex', opts.size)
             /\ (packet_cq').size = opts.size
  <2>1. Queued' = View(packet_cq', packet_window')
    BY <1>2, <1>5 DEF Queued, Queue, Array, View
  <2> QED
    BY <1>1, <1>2, <1>5, <2>1 DEF PacketsQueued
<1>6. ASSUME opts.mode = "-l", packet_count' >= opts.size
      PROVE  /\ Countable(packet_cq', packet_window', packet_windex',
                          opts.size, opts.size)
             /\ \A k \in 1 .. opts.size : (Queued')[k] \in PacketEntry
  <2>1. cqueue_items(packet_cq') = opts.size
    BY <1>2, <1>3, <1>5, <1>6 DEF Kept
  <2>2. DOMAIN Queued' = 1 .. opts.size
    BY <1>5, <1>6, <2>1 DEF View
  <2>3. \A k \in 1 .. opts.size : (Queued')[k] \in PacketEntry
    BY <1>1, <1>2, <1>6, <2>2 DEF EntriesQueued
  <2>4. \A k \in 1 .. opts.size : View(packet_cq', packet_window')[k] \in Entry
    BY <1>5, <1>6, <2>3 DEF Entry
  <2> QED
    BY <1>5, <1>6, <2>1, <2>3, <2>4 DEF Countable
<1> QED
  BY <1>4, <1>5, <1>6

\* The types of what votes change.
VoteTypes ==
    /\ status \in {"reading", "ended", "exited", "crashed", "aborted"}
    /\ most_freq_value \in Values \cup {VALUE_INVALID}
    /\ window_packet_count \in 0 .. line_count
    /\ voted \in BOOLEAN
    /\ handed \in Values \cup {VALUE_INVALID, NotHanded}

LEMMA LineVotes ==
    ASSUME Inv, NEW e, LineOf(e)
    PROVE  VotesHeld' /\ NoAssertionFails' /\ SafeModeOutput' /\ VoteTypes'
<1>1. /\ opts' = opts /\ opts \in Options /\ status = "reading"
      /\ line_count \in Nat /\ packet_count \in Nat
      /\ line_count' = line_count + 1
      /\ packet_count' = IF e.match = {} THEN packet_count ELSE packet_count + 1
      /\ handed = NotHanded
  <2>1. line_count \in Nat /\ packet_count \in Nat
    BY MaxLinesAssumption DEF Inv, TypeOK
  <2> QED
    BY <2>1 DEF Inv, TypeOK, LineOf, StartOfLine, VotesHeld
<1>2. /\ opts.mode \in {"-n", "-l", "-A", "none"} /\ opts.size \in Nat
      /\ opts.mode = "-n" => opts.size \in 2 .. MaxWindow
      /\ opts.mode = "-l" => opts.size >= 2
      /\ opts.output \in BOOLEAN /\ opts.safe_mode \in BOOLEAN
      /\ opts.min_packet_count \in Nat
  BY <1>1, OptionFacts
<1>3. /\ VoteTypes /\ VotesHeld
      /\ window_packet_count \in 0 .. line_count
      /\ most_freq_value \in Values \cup {VALUE_INVALID}
      /\ voted \in BOOLEAN
  BY DEF Inv, TypeOK, VoteTypes
\* Where nothing is voted, nothing changes.
<1>4. ASSUME status' = "reading",
             UNCHANGED <<most_freq_value, window_packet_count, voted, handed>>
      PROVE  NoAssertionFails' /\ SafeModeOutput' /\ VoteTypes'
  <2>1. window_packet_count' \in 0 .. line_count'
    BY <1>1, <1>3, <1>4
  <2>2. VoteTypes'
    BY <1>3, <1>4, <2>1 DEF VoteTypes
  <2> QED
    BY <1>1, <1>4, <2>2 DEF NoAssertionFails, SafeModeOutput
<1>5. CASE opts.mode = "-n"
  <2>1. VoteOfLines
    BY <1>5 DEF LineOf, EndOfLine
  <2>2. voted' = (line_count' > opts.size)
    BY <2>1 DEF VoteOfLines
  <2>3. CASE line_count' > opts.size
    <3> DEFINE x == MostFrequent(cq', window', opts.size)
               pc == Packets(cq', window', opts.size)
               held == HoldBack(x, pc)
    <3>1. /\ Countable(cq', window', windex', MaxWindow, opts.size)
          /\ Queued' = View(cq', window')
      BY <1>5, <2>3, LineVoteIsCountable
    <3>2. /\ SlotsFilled(cq', opts.size)
          /\ x \in Values \cup {VALUE_INVALID}
          /\ x # VALUE_INVALID =>
                \E k \in DOMAIN Queued' : x \in (Queued')[k].match
          /\ pc = Cardinality({k \in DOMAIN Queued' : (Queued')[k].is_packet})
          /\ pc \in 0 .. opts.size
      <4>1. Elects(cq', window', opts.size)
        BY <3>1, WinnerIsQueued
      <4> QED
        BY <3>1, <4>1 DEF Elects
    <3>3. voted' = TRUE
      BY <2>2, <2>3
    <3>4. /\ most_freq_value' = x /\ window_packet_count' = pc
          /\ Output(x, HoldBack(x, pc), "reading")
      BY <2>1, <3>2, <3>3 DEF VoteOfLines
    <3>5. \/ handed' = x /\ status' = "crashed" /\ ~held
          \/ handed' = NotHanded /\ status' = "reading"
      BY <1>1, <3>4 DEF Output
    <3> HIDE DEF x, pc
    <3>6. /\ most_freq_value' \in Values \cup {VALUE_INVALID}
          /\ window_packet_count' \in 0 .. line_count'
          /\ handed' \in Values \cup {VALUE_INVALID, NotHanded}
          /\ status' \in {"reading", "crashed"}
      BY <1>1, <1>2, <2>3, <3>2, <3>4, <3>5
    <3>7. VoteTypes'
      BY <3>3, <3>6 DEF VoteTypes
    <3>8. NoAssertionFails'
      BY <3>6 DEF NoAssertionFails
    <3>9. SafeModeOutput'
      <4> SUFFICES ASSUME opts.safe_mode, handed' # NotHanded
                   PROVE  /\ \E k \in DOMAIN Queued' : handed' \in (Queued')[k].match
                          /\ opts.min_packet_count <=
                                Cardinality({k \in DOMAIN Queued' :
                                                (Queued')[k].is_packet})
        BY <1>1 DEF SafeModeOutput
      <4>1. handed' = x /\ x # VALUE_INVALID /\ ~ (pc < opts.min_packet_count)
        BY <3>5 DEF HoldBack
      <4> QED
        BY <1>2, <3>2, <4>1
    <3>10. VotesHeld'
      <4>1. MostFrequent(Queue', Array', opts'.size) = x
        BY <1>1, <1>5 DEF Queue, Array, x
      <4>2. voted' <=> line_count' > opts'.size
        BY <1>1, <2>3, <3>3
      <4>3. most_freq_value' = MostFrequent(Queue', Array', opts'.size)
        BY <3>4, <4>1
      <4>4. status' = "reading" => handed' = NotHanded
        BY <3>5
      <4> QED
        BY <1>1, <1>5, <4>2, <4>3, <4>4 DEF VotesHeld
    <3> QED
      BY <3>7, <3>8, <3>9, <3>10
  <2>4. CASE ~ (line_count' > opts.size)
    <3>1. voted' = FALSE
      <4>1. (line_count' > opts.size) = FALSE
        BY <2>4
      <4> QED
        BY <2>2, <4>1
    <3>2. /\ most_freq_value' = VALUE_INVALID
          /\ window_packet_count' = window_packet_count
          /\ Output(VALUE_INVALID, HoldBack(VALUE_INVALID, window_packet_count), "reading")
      BY <2>1, <3>1 DEF VoteOfLines
    <3>3. \/ handed' = VALUE_INVALID /\ status' = "crashed" /\ ~ opts.safe_mode
          \/ handed' = NotHanded /\ status' = "reading"
      BY <1>1, <3>2 DEF Output, HoldBack
    <3>4. /\ window_packet_count' \in 0 .. line_count'
          /\ handed' \in Values \cup {VALUE_INVALID, NotHanded}
          /\ status' \in {"reading", "crashed"}
      BY <1>1, <1>3, <3>2, <3>3
    <3>5. VoteTypes'
      BY <3>1, <3>2, <3>4 DEF VoteTypes
    <3>6. NoAssertionFails'
      BY <3>4 DEF NoAssertionFails
    <3>7. SafeModeOutput'
      BY <1>1, <3>3 DEF SafeModeOutput
    <3>8. VotesHeld'
      BY <1>1, <1>5, <2>4, <3>1, <3>3 DEF VotesHeld
    <3> QED
      BY <3>5, <3>6, <3>7, <3>8
  <2> QED
    BY <2>3, <2>4
<1>6. CASE opts.mode = "-l" /\ e.match = {}
  <2>1. packet_count' = packet_count /\ prev_packet_count = packet_count
    BY <1>1, <1>6 DEF Inv, PacketsQueued
  <2>2. /\ status' = "reading"
        /\ UNCHANGED <<most_freq_value, window_packet_count, voted, handed>>
        /\ packet_window' = packet_window /\ packet_cq' = packet_cq
    BY <1>1, <1>6, <2>1 DEF LineOf, EndOfLine
  <2>3. Queue' = Queue /\ Array' = Array
    BY <1>1, <1>6, <2>2 DEF Queue, Array
  <2>4. VotesHeld'
    <3>1. /\ voted' <=> packet_count' >= opts'.size
          /\ voted' => most_freq_value' = MostFrequent(Queue', Array', opts'.size)
      BY <1>1, <1>3, <1>6, <2>1, <2>2, <2>3 DEF VotesHeld
    <3> QED
      BY <1>1, <1>6, <2>2, <3>1 DEF VotesHeld
  <2> QED
    BY <1>4, <2>2, <2>4
<1>7. CASE opts.mode = "-l" /\ e.match # {}
  <2>1. packet_count' # prev_packet_count /\ packet_count' = packet_count + 1
    BY <1>1, <1>7 DEF Inv, PacketsQueued
  <2>2. process_saved_packets /\ window_packet_count' = window_packet_count
    BY <1>7, <2>1 DEF LineOf, EndOfLine
  <2>3. /\ cqueue_items(packet_cq') = Kept(packet_count', opts.size)
        /\ Queued' = View(packet_cq', packet_window')
    BY <1>7, LineVoteIsCountable
  <2>4. CASE packet_count' >= opts.size
    <3> DEFINE x == MostFrequent(packet_cq', packet_window', opts.size)
               held == opts.safe_mode /\ x = VALUE_INVALID
    <3>1. /\ Countable(packet_cq', packet_window', packet_windex',
                       opts.size, opts.size)
          /\ \A k \in 1 .. opts.size : (Queued')[k] \in PacketEntry
      BY <1>7, <2>4, LineVoteIsCountable
    <3>2. /\ SlotsFilled(packet_cq', opts.size)
          /\ opts.size = cqueue_items(packet_cq')
          /\ x \in Values \cup {VALUE_INVALID}
          /\ x # VALUE_INVALID =>
                \E k \in DOMAIN Queued' : x \in (Queued')[k].match
          /\ \A i \in 1 .. opts.size : \E k \in 1 .. opts.size :
                Entries(packet_cq', packet_window', opts.size)[i] = (Queued')[k]
      <4>1. Elects(packet_cq', packet_window', opts.size)
        BY <3>1, WinnerIsQueued
      <4> QED
        BY <2>3, <4>1 DEF Elects
    <3>3. ASSUME NEW i \in 1 .. opts.size
          PROVE  LET m == Entries(packet_cq', packet_window', opts.size)[i]
                 IN  m.is_packet /\ m.ack_number # 0
      <4>1. Entries(packet_cq', packet_window', opts.size)[i] \in PacketEntry
        BY <3>1, <3>2
      <4>2. \A m \in PacketEntry : m.is_packet = TRUE /\ m.ack_number # 0
        BY DEF PacketEntry
      <4> QED
        BY <4>1, <4>2
    <3>4. /\ most_freq_value' = x /\ voted' = TRUE
          /\ Output(x, held, "reading")
      BY <1>2, <2>2, <3>2, <3>3 DEF process_saved_packets
    <3>5. \/ handed' = x /\ status' = "crashed" /\ ~held
          \/ handed' = NotHanded /\ status' = "reading"
      BY <1>1, <3>4 DEF Output
    <3> HIDE DEF x
    <3>6. /\ most_freq_value' \in Values \cup {VALUE_INVALID}
          /\ window_packet_count' \in 0 .. line_count'
          /\ handed' \in Values \cup {VALUE_INVALID, NotHanded}
          /\ status' \in {"reading", "crashed"}
      BY <1>1, <1>3, <2>2, <3>2, <3>4, <3>5
    <3>7. VoteTypes'
      BY <3>4, <3>6 DEF VoteTypes
    <3>8. NoAssertionFails'
      BY <3>6 DEF NoAssertionFails
    <3>9. SafeModeOutput'
      <4> SUFFICES ASSUME opts.safe_mode, handed' # NotHanded
                   PROVE  \E k \in DOMAIN Queued' : handed' \in (Queued')[k].match
        BY <1>1, <1>7 DEF SafeModeOutput
      <4>1. handed' = x /\ x # VALUE_INVALID
        BY <3>5
      <4> QED
        BY <3>2, <4>1
    <3>10. VotesHeld'
      <4>1. MostFrequent(Queue', Array', opts'.size) = x
        BY <1>1, <1>7 DEF Queue, Array, x
      <4>2. voted' <=> packet_count' >= opts'.size
        BY <1>1, <2>4, <3>4
      <4>3. most_freq_value' = MostFrequent(Queue', Array', opts'.size)
        BY <3>4, <4>1
      <4>4. status' = "reading" => handed' = NotHanded
        BY <3>5
      <4> QED
        BY <1>1, <1>7, <4>2, <4>3, <4>4 DEF VotesHeld
    <3> QED
      BY <3>7, <3>8, <3>9, <3>10
  <2>5. CASE ~ (packet_count' >= opts.size)
    <3>1. cqueue_items(packet_cq') < opts.size
      BY <1>1, <1>2, <2>1, <2>3, <2>5 DEF Kept
    <3>2. /\ status' = "reading"
          /\ UNCHANGED <<most_freq_value, window_packet_count, voted, handed>>
      BY <2>2, <3>1 DEF process_saved_packets
    <3>3. ~ voted /\ ~ (packet_count >= opts.size)
      BY <1>1, <1>2, <1>3, <1>7, <2>1, <2>5 DEF VotesHeld
    <3>4. VotesHeld'
      BY <1>1, <1>7, <2>5, <3>2, <3>3 DEF VotesHeld
    <3> QED
      BY <1>4, <3>2, <3>4
  <2> QED
    BY <2>4, <2>5
<1>8. CASE opts.mode \in {"-A", "none"}
  <2>1. /\ status' = "reading"
        /\ UNCHANGED <<most_freq_value, window_packet_count, voted, handed>>
    BY <1>1, <1>8 DEF LineOf, EndOfLine
  <2>2. ~ voted
    BY <1>1, <1>3, <1>8 DEF VotesHeld
  <2>3. VotesHeld'
    BY <1>1, <1>8, <2>1, <2>2 DEF VotesHeld
  <2> QED
    BY <1>4, <2>1, <2>3
<1> QED
  BY <1>2, <1>5, <1>6, <1>7, <1>8

\* The items of the queues point into their arrays.
ItemsInArrays ==
    /\ \A i \in 0 .. cq.size - 1 : cq.items[i] \in (0 .. MaxWindow - 1) \cup {NULL}
    /\ \A i \in 0 .. packet_cq.size - 1 :
          packet_cq.items[i] \in (0 .. packet_cq.size - 1) \cup {NULL}
    /\ packet_windex \in 0 .. packet_cq.size

LEMMA ItemsType == LinesQueued /\ PacketsQueued => ItemsInArrays
<1> SUFFICES ASSUME LinesQueued, PacketsQueued PROVE ItemsInArrays
  OBVIOUS
<1>1. \A i \in 0 .. cq.size - 1 : cq.items[i] \in (0 .. MaxWindow - 1) \cup {NULL}
  <2>1. CASE opts.mode \in {"-n", "-A"}
    BY <2>1 DEF LinesQueued, Stored, IsRing
  <2>2. CASE opts.mode \notin {"-n", "-A"}
    BY <2>2 DEF LinesQueued, cqueue_create
  <2> QED
    BY <2>1, <2>2
<1>2. /\ \A i \in 0 .. packet_cq.size - 1 :
            packet_cq.items[i] \in (0 .. packet_cq.size - 1) \cup {NULL}
      /\ packet_windex \in 0 .. packet_cq.size
  <2>1. CASE opts.mode = "-l"
    BY <2>1 DEF PacketsQueued, Stored, IsRing
  <2>2. CASE opts.mode # "-l"
    BY <2>2 DEF PacketsQueued, cqueue_create
  <2> QED
    BY <2>1, <2>2
<1> QED
  BY <1>1, <1>2 DEF ItemsInArrays

LEMMA LineKeepsInv ==
    ASSUME Inv, NEW e, LineOf(e)
    PROVE  Inv'
<1>1. /\ LinesQueued' /\ PacketsQueued'
      /\ window' \in [0 .. MaxWindow - 1 -> MatchInfo]
      /\ packet_window' \in [0 .. (packet_cq.size)' - 1 -> MatchInfo]
  BY LineQueues
<1>2. VotesHeld' /\ NoAssertionFails' /\ SafeModeOutput' /\ VoteTypes'
  BY LineVotes
<1>3. EntriesQueued'
  BY LineEntries
<1>4. /\ opts' = opts /\ opts \in Options
      /\ line_count \in Nat /\ line_count' = line_count + 1 /\ line_count < MaxLines
      /\ packet_count \in 0 .. line_count /\ prev_packet_count \in 0 .. packet_count
      /\ packet_count' = IF e.match = {} THEN packet_count ELSE packet_count + 1
  <2>1. line_count \in Nat
    BY MaxLinesAssumption DEF Inv, TypeOK
  <2> QED
    BY <2>1 DEF Inv, TypeOK, LineOf, StartOfLine
<1>5. /\ line_count' \in 0 .. MaxLines + 1
      /\ packet_count' \in 0 .. line_count'
  BY <1>4, MaxLinesAssumption
<1>6. windex' \in 0 .. MaxWindow - 1
  BY <1>4, CountAround, MaxWindowAssumption DEF LineOf, StartOfLine, NextIndex
<1>7. prev_packet_count' \in 0 .. packet_count'
  <2>1. CASE opts.mode = "-l"
    <3>1. prev_packet_count' = packet_count'
      BY <1>1, <1>4, <2>1 DEF PacketsQueued
    <3> QED
      BY <1>5, <3>1
  <2>2. CASE opts.mode # "-l"
    <3>1. prev_packet_count' = prev_packet_count
      BY <2>2 DEF LineOf, EndOfLine
    <3> QED
      BY <1>4, <3>1
  <2> QED
    BY <2>1, <2>2
<1>8. ItemsInArrays'
  BY <1>1, ItemsType, PTL
<1>9. TypeOK'
  BY <1>1, <1>2, <1>4, <1>5, <1>6, <1>7, <1>8
     DEF TypeOK, VoteTypes, ItemsInArrays
<1> QED
  BY <1>1, <1>2, <1>3, <1>9 DEF Inv

LEMMA InitInv == Init => Inv
<1> SUFFICES ASSUME Init PROVE Inv
  OBVIOUS
<1>1. /\ opts \in Options /\ opts.mode \in {"-n", "-l", "-A", "none"}
      /\ opts.size \in Nat
      /\ opts.mode = "-n" => opts.size \in 2 .. MaxWindow
      /\ opts.mode = "-l" => opts.size >= 2
      /\ opts.mode = "-A" => opts.size = MaxWindow
      /\ MaxWindow \in Nat \ {0, 1} /\ NULL \notin Nat
  BY OptionFacts DEF Init
<1>2. ASSUME NEW st \in Statuses, NEW n \in Nat, NEW ack \in Int
      PROVE  Fresh(n, st, ack) \in [0 .. n - 1 -> MatchInfo]
  <2>1. [status |-> st, match |-> {}, is_packet |-> FALSE, ack_number |-> ack]
           \in MatchInfo
    BY DEF MatchInfo
  <2> QED
    BY <2>1 DEF Fresh
<1>3. ASSUME NEW size \in Nat
      PROVE  /\ cqueue_items(cqueue_create(size)) = 0
             /\ cqueue_create(size).size = size
             /\ \A Ptr : NULL \notin Ptr /\ size > 1 => IsRing(cqueue_create(size), Ptr)
             /\ \A w, M : Trails(cqueue_create(size), w, M)
  <2> DEFINE q == cqueue_create(size)
  <2>1. cqueue_items(q) = 0 /\ q.size = size
    BY DEF cqueue_create, cqueue_items
  <2>2. \A Ptr : NULL \notin Ptr /\ size > 1 => IsRing(q, Ptr)
    BY DEF cqueue_create, IsRing, OnArc, INVALID
  <2>3. \A w, M : Trails(q, w, M)
    <3> HIDE DEF q
    <3> QED
      BY <2>1 DEF Trails
  <2> QED
    BY <2>1, <2>2, <2>3
<1>4. window \in [0 .. MaxWindow - 1 -> MatchInfo]
  <2>1. "STATUS_INVALID" \in Statuses /\ -1 \in Int
    BY DEF Statuses
  <2> QED
    BY <1>1, <1>2, <2>1 DEF Init
<1>5. /\ packet_cq = cqueue_create(IF opts.mode = "-l" THEN opts.size ELSE 0)
      /\ packet_cq.size = IF opts.mode = "-l" THEN opts.size ELSE 0
      /\ packet_window \in [0 .. packet_cq.size - 1 -> MatchInfo]
  <2>1. "STATUS_UNUSED" \in Statuses /\ 0 \in Int
    BY DEF Statuses
  <2> DEFINE size == IF opts.mode = "-l" THEN opts.size ELSE 0
  <2>2. size \in Nat
    BY <1>1
  <2>3. packet_cq = cqueue_create(size) /\ packet_window = Fresh(size, "STATUS_UNUSED", 0)
    BY DEF Init
  <2> HIDE DEF size
  <2> QED
    BY <1>2, <1>3, <2>1, <2>2, <2>3 DEF size
<1>6. /\ Lines = 0 /\ line_count = 0 /\ windex = 0 /\ packet_windex = 0
      /\ 0 % MaxWindow = 0 /\ Lines <= MaxLines /\ status = "reading"
  BY <1>1, MaxLinesAssumption DEF Init, Lines
<1>7. LinesQueued
  <2>1. CASE opts.mode \in {"-n", "-A"}
    <3>1. cq = cqueue_create(opts.size) /\ opts.size > 1 /\ opts.size <= MaxWindow
      BY <1>1, <2>1 DEF Init
    <3>2. Stored(cq, window, windex, MaxWindow)
      <4>1. NULL \notin 0 .. MaxWindow - 1
        BY <1>1
      <4>2. IsRing(cq, 0 .. MaxWindow - 1) /\ Trails(cq, windex, MaxWindow)
        BY <1>1, <1>3, <3>1, <4>1
      <4>3. cq.size = opts.size
        BY <1>1, <1>3, <3>1
      <4> QED
        BY <1>1, <1>4, <1>6, <3>1, <4>2, <4>3 DEF Stored
    <3>3. cqueue_items(cq) = Kept(Lines, opts.size) /\ cq.size = opts.size
      BY <1>1, <1>3, <1>6, <3>1 DEF Kept
    <3> QED
      BY <1>1, <1>6, <2>1, <3>2, <3>3 DEF LinesQueued
  <2>2. CASE opts.mode \notin {"-n", "-A"}
    BY <1>6, <2>2 DEF LinesQueued, Init
  <2> QED
    BY <2>1, <2>2
<1>8. PacketsQueued
  <2>1. CASE opts.mode = "-l"
    <3>1. packet_cq = cqueue_create(opts.size) /\ opts.size > 1
      BY <1>1, <1>5, <2>1
    <3>2. Stored(packet_cq, packet_window, packet_windex, opts.size)
      <4>1. NULL \notin 0 .. opts.size - 1
        BY <1>1
      <4>2. /\ IsRing(packet_cq, 0 .. opts.size - 1)
            /\ Trails(packet_cq, packet_windex, opts.size)
        BY <1>1, <1>3, <3>1, <4>1
      <4> QED
        BY <1>1, <1>5, <1>6, <2>1, <3>1, <4>2 DEF Stored
    <3>3. cqueue_items(packet_cq) = Kept(packet_count, opts.size)
      BY <1>1, <1>3, <3>1 DEF Kept, Init
    <3> QED
      BY <1>5, <2>1, <3>2, <3>3 DEF PacketsQueued, Init
  <2>2. CASE opts.mode # "-l"
    BY <1>5, <1>6, <2>2 DEF PacketsQueued
  <2> QED
    BY <2>1, <2>2
<1>9. DOMAIN Queued = {}
  <2>1. cqueue_items(Queue) = 0
    <3>1. cq = cqueue_create(IF opts.mode \in {"-n", "-A"} THEN opts.size ELSE 0)
      BY DEF Init
    <3>2. (IF opts.mode \in {"-n", "-A"} THEN opts.size ELSE 0) \in Nat
      BY <1>1
    <3>3. (IF opts.mode = "-l" THEN opts.size ELSE 0) \in Nat
      BY <1>1
    <3>4. cqueue_items(cq) = 0
      BY <1>3, <3>1, <3>2
    <3>5. cqueue_items(packet_cq) = 0
      BY <1>3, <1>5, <3>3
    <3> QED
      BY <3>4, <3>5 DEF Queue
  <2> QED
    BY <2>1 DEF Queued
<1>10. EntriesQueued
  BY <1>9 DEF EntriesQueued
<1>11. /\ status = "reading" /\ voted = FALSE /\ handed = NotHanded
       /\ packet_count = 0 /\ prev_packet_count = 0 /\ window_packet_count = 0
       /\ most_freq_value = VALUE_INVALID
  BY DEF Init
<1>12. VotesHeld
  <2>1. ~ (line_count > opts.size) \/ opts.mode # "-n"
    BY <1>1, <1>6
  <2>2. ~ (packet_count >= opts.size) \/ opts.mode # "-l"
    BY <1>1, <1>11
  <2> QED
    BY <1>1, <1>11, <2>1, <2>2 DEF VotesHeld
<1>13. NoAssertionFails /\ SafeModeOutput
  BY <1>11 DEF NoAssertionFails, SafeModeOutput
<1>14. TypeOK
  <2>1. ItemsInArrays
    BY <1>7, <1>8, ItemsType
  <2>2. line_count \in 0 .. MaxLines + 1 /\ windex \in 0 .. MaxWindow - 1
    BY <1>1, <1>6, MaxLinesAssumption
  <2>3. /\ prev_packet_count \in 0 .. packet_count /\ packet_count \in 0 .. line_count
        /\ window_packet_count \in 0 .. line_count
    BY <1>6, <1>11
  <2>4. /\ status \in {"reading", "ended", "exited", "crashed", "aborted"}
        /\ most_freq_value \in Values \cup {VALUE_INVALID}
        /\ voted \in BOOLEAN
        /\ handed \in Values \cup {VALUE_INVALID, NotHanded}
    BY <1>11
  <2> QED
    BY <1>1, <1>4, <1>5, <2>1, <2>2, <2>3, <2>4 DEF TypeOK, ItemsInArrays
<1> QED
  BY <1>7, <1>8, <1>10, <1>12, <1>13, <1>14 DEF Inv

\* The lines of -A are counted where they were stored.
LEMMA EndVoteIsCountable ==
    ASSUME Inv, status = "reading", opts.mode = "-A"
    PROVE  /\ Countable(cq, window, windex, MaxWindow, line_count)
           /\ Queued = View(cq, window)
           /\ line_count < opts.size
<1>1. /\ opts \in Options /\ Lines = line_count /\ line_count \in Nat
      /\ LinesQueued /\ EntriesQueued
  BY MaxLinesAssumption DEF Inv, TypeOK, Lines
<1>2. opts.size = MaxWindow
  BY <1>1, OptionFacts
<1>3. /\ Stored(cq, window, windex, MaxWindow)
      /\ cqueue_items(cq) = Kept(line_count, MaxWindow)
      /\ line_count < MaxWindow /\ (line_count = 0 \/ cq.front = 0)
  BY <1>1, <1>2 DEF LinesQueued
<1>4. cqueue_items(cq) = line_count
  BY <1>3 DEF Kept
<1>5. Queued = View(cq, window)
  BY DEF Queued, Queue, Array, View
<1>6. \A k \in 1 .. line_count : View(cq, window)[k] \in Entry
  <2>1. DOMAIN Queued = 1 .. line_count
    BY <1>4 DEF Queued, Queue
  <2> QED
    BY <1>1, <1>5, <2>1 DEF EntriesQueued
<1> QED
  BY <1>2, <1>3, <1>4, <1>5, <1>6 DEF Countable

LEMMA EndKeepsInv ==
    ASSUME Inv, EndOfInput
    PROVE  Inv'
<1>1. /\ status = "reading" /\ handed = NotHanded
      /\ UNCHANGED <<opts, line_count, windex, window, cq, packet_count,
                     prev_packet_count, packet_window, packet_windex, packet_cq>>
      /\ line_count \in Nat /\ opts \in Options
  BY MaxLinesAssumption DEF Inv, TypeOK, VotesHeld, EndOfInput
<1>2. opts.mode \in {"-n", "-l", "-A", "none"} /\ opts.min_packet_count \in Nat
  BY <1>1, OptionFacts
<1>3. /\ Queued' = Queued /\ Queue' = Queue /\ Array' = Array
  BY <1>1 DEF Queued, Queue, Array
<1>4. CASE opts.mode = "-A"
  <2> DEFINE x == MostFrequent(cq, window, line_count)
             pc == Packets(cq, window, line_count)
             held == HoldBack(x, pc)
  <2>1. /\ SlotsFilled(cq, line_count)
        /\ x \in Values \cup {VALUE_INVALID}
        /\ x # VALUE_INVALID => \E k \in DOMAIN Queued : x \in Queued[k].match
        /\ pc = Cardinality({k \in DOMAIN Queued : Queued[k].is_packet})
        /\ pc \in 0 .. line_count
    <3>1. Countable(cq, window, windex, MaxWindow, line_count) /\ Queued = View(cq, window)
      BY <1>1, <1>4, EndVoteIsCountable
    <3>2. Elects(cq, window, line_count)
      BY <3>1, WinnerIsQueued
    <3> QED
      BY <3>1, <3>2 DEF Elects
  <2>2. /\ most_freq_value' = x /\ window_packet_count' = pc /\ voted' = TRUE
        /\ Output(x, HoldBack(x, pc), "ended")
    BY <1>4, <2>1 DEF EndOfInput
  <2>3. \/ handed' = x /\ status' = "crashed" /\ ~held
        \/ handed' = NotHanded /\ status' = "ended"
    BY <1>1, <2>2 DEF Output
  <2> HIDE DEF x, pc
  <2>4. /\ most_freq_value' \in Values \cup {VALUE_INVALID}
        /\ window_packet_count' \in 0 .. line_count'
        /\ handed' \in Values \cup {VALUE_INVALID, NotHanded}
        /\ status' \in {"ended", "crashed"}
    BY <1>1, <2>1, <2>2, <2>3
  <2>5. VoteTypes'
    BY <2>2, <2>4 DEF VoteTypes
  <2>6. NoAssertionFails'
    BY <2>4 DEF NoAssertionFails
  <2>7. SafeModeOutput'
    <3> SUFFICES ASSUME opts.safe_mode, handed' # NotHanded
                 PROVE  /\ \E k \in DOMAIN Queued : handed' \in Queued[k].match
                        /\ opts.min_packet_count <=
                              Cardinality({k \in DOMAIN Queued : Queued[k].is_packet})
      BY <1>1, <1>3 DEF SafeModeOutput
    <3>1. handed' = x /\ x # VALUE_INVALID /\ ~ (pc < opts.min_packet_count)
      BY <2>3 DEF HoldBack
    <3> QED
      BY <1>1, <1>2, <2>1, <3>1
  <2>8. VotesHeld'
    BY <1>1, <1>4, <2>3, <2>4 DEF VotesHeld
  <2>9. Lines' = Lines
    BY <1>1, <2>4 DEF Lines
  <2>10. LinesQueued' /\ PacketsQueued' /\ EntriesQueued'
    BY <1>1, <1>3, <2>4, <2>9 DEF Inv, LinesQueued, PacketsQueued, EntriesQueued
  <2>11. TypeOK'
    BY <1>1, <2>5 DEF Inv, TypeOK, VoteTypes
  <2> QED
    BY <2>6, <2>7, <2>8, <2>10, <2>11 DEF Inv
<1>5. CASE opts.mode # "-A"
  <2>1. /\ status' = "ended"
        /\ UNCHANGED <<most_freq_value, window_packet_count, voted, handed>>
    BY <1>5 DEF EndOfInput
  <2>2. Lines' = Lines
    BY <1>1, <2>1 DEF Lines
  <2>3. LinesQueued' /\ PacketsQueued' /\ EntriesQueued'
    BY <1>1, <1>3, <2>1, <2>2 DEF Inv, LinesQueued, PacketsQueued, EntriesQueued
  <2>4. TypeOK'
    BY <1>1, <2>1 DEF Inv, TypeOK
  <2>5. VotesHeld'
    BY <1>1, <1>2, <1>3, <1>5, <2>1 DEF Inv, VotesHeld
  <2>6. NoAssertionFails' /\ SafeModeOutput'
    BY <1>1, <2>1 DEF NoAssertionFails, SafeModeOutput
  <2> QED
    BY <2>3, <2>4, <2>5, <2>6 DEF Inv
<1> QED
  BY <1>4, <1>5

LEMMA TooManyKeepsInv ==
    ASSUME Inv, TooManyLines
    PROVE  Inv'
<1>1. /\ status = "reading" /\ status' = "exited" /\ opts.mode = "-A"
      /\ line_count' = line_count + 1 /\ line_count \in Nat
      /\ UNCHANGED <<opts, windex, window, cq, packet_count, prev_packet_count,
                     packet_window, packet_windex, packet_cq, most_freq_value,
                     window_packet_count, voted, handed>>
  BY MaxLinesAssumption DEF Inv, TypeOK, TooManyLines
<1>2. /\ Queued' = Queued /\ Queue' = Queue /\ Array' = Array
      /\ Lines' = Lines
  BY <1>1 DEF Queued, Queue, Array, Lines
<1>3. LinesQueued' /\ PacketsQueued' /\ EntriesQueued'
  BY <1>1, <1>2 DEF Inv, LinesQueued, PacketsQueued, EntriesQueued
<1>4. VotesHeld' /\ NoAssertionFails' /\ SafeModeOutput'
  <2>1. handed = NotHanded /\ voted = FALSE
    BY <1>1 DEF Inv, VotesHeld, TypeOK
  <2> QED
    BY <1>1, <2>1 DEF VotesHeld, NoAssertionFails, SafeModeOutput
<1>5. TypeOK'
  <2>1. line_count <= MaxLines
    BY <1>1 DEF Inv, LinesQueued, Lines
  <2> QED
    BY <1>1, <2>1, MaxLinesAssumption DEF Inv, TypeOK
<1> QED
  BY <1>3, <1>4, <1>5 DEF Inv

\* Every step keeps the invariant.
LEMMA NextInv == Inv /\ [Next]_vars => Inv'
<1> SUFFICES ASSUME Inv, [Next]_vars PROVE Inv'
  OBVIOUS
<1>1. CASE NotPacket \/ \E num \in Values : Packet(num)
  <2>1. PICK e : LineOf(e)
    BY <1>1, LineHasEntry DEF Inv
  <2> QED
    BY <2>1, LineKeepsInv
<1>2. CASE TooManyLines
  BY <1>2, TooManyKeepsInv
<1>3. CASE EndOfInput
  BY <1>3, EndKeepsInv
<1>4. CASE UNCHANGED vars
  BY <1>4 DEF vars, Inv, TypeOK, LinesQueued, PacketsQueued, EntriesQueued, VotesHeld,
     NoAssertionFails, SafeModeOutput, Lines, Queued, Queue, Array
<1> QED
  BY <1>1, <1>2, <1>3, <1>4 DEF Next

THEOREM InvHolds == Spec => []Inv
<1>1. Init => Inv
  BY InitInv
<1>2. Inv /\ [Next]_vars => Inv'
  BY NextInv
<1> QED
  BY <1>1, <1>2, PTL DEF Spec

\* The variables keep their types, and every pointer leads into its array.
THEOREM TypeCorrect == Spec => []TypeOK
<1>1. Inv => TypeOK
  BY DEF Inv
<1> QED
  BY <1>1, InvHolds, PTL

\* What is queued is what the latest lines, or packets, left, in their order:
\* for every window and queue an entry is overwritten only after it left the
\* queue.
THEOREM QueuedInOrder == Spec => []QueueInOrder
<1>1. Inv => QueueInOrder
  <2> SUFFICES ASSUME Inv, status # "exited" PROVE QueueInOrder
    BY DEF QueueInOrder
  <2>1. EntriesQueued /\ Lines = line_count
    BY DEF Inv, Lines
  <2> QED
    BY <2>1 DEF EntriesQueued, QueueInOrder
<1> QED
  BY <1>1, InvHolds, PTL

\* The voting loops meet no null pointer and no entry that is not a packet's.
THEOREM NoAssertionEverFails == Spec => []NoAssertionFails
<1>1. Inv => NoAssertionFails
  BY DEF Inv
<1> QED
  BY <1>1, InvHolds, PTL

\* In safe mode a value is written only on the word of entries queued.
THEOREM SafeModeHolds == Spec => []SafeModeOutput
<1>1. Inv => SafeModeOutput
  BY DEF Inv
<1> QED
  BY <1>1, InvHolds, PTL

-----------------------------------------------------------------------------
(* A repeated entry.                                                        *)

\* Only the flags of an entry count.
LEMMA SameFlagsSameCount ==
    ASSUME NEW m \in Entry, NEW k \in Entry, m.match = k.match, NEW x \in Tally
    PROVE  CountEntry(m, x) = CountEntry(k, x)
<1>1. CASE m.match = {}
  BY <1>1, CountEntryIs
<1>2. CASE m.match # {}
  <2>1. PICK v \in Values : m.match = {v}
    BY <1>2, EntryFacts
  <2>2. CountEntry(m, x) = Count(x, m, v)
    BY <2>1, CountEntryIs
  <2>3. CountEntry(k, x) = Count(x, k, v)
    BY <2>1, CountEntryIs
  <2> QED
    BY <2>2, <2>3 DEF Count
<1> QED
  BY <1>1, <1>2

\* So votes on entries with the same flags, slot by slot, have one winner.
LEMMA SameFlagsSameWinner ==
    ASSUME NEW q, NEW a, NEW r, NEW b, NEW n \in Nat,
           \A i \in 1 .. n : /\ Entries(q, a, n)[i] \in Entry
                             /\ Entries(r, b, n)[i] \in Entry
                             /\ Entries(r, b, n)[i].match = Entries(q, a, n)[i].match
    PROVE  MostFrequent(r, b, n) = MostFrequent(q, a, n)
<1> DEFINE E == Entries(q, a, n)
           F == Entries(r, b, n)
<1>1. PICK t \in [0 .. n -> Tally] :
         /\ t[0] = NoTally
         /\ \A k \in 1 .. n : t[k] = CountEntry(E[k], t[k - 1])
         /\ MostFrequent(q, a, n) = t[n].value
  BY MostFrequentSteps
<1>2. PICK u \in [0 .. n -> Tally] :
         /\ u[0] = NoTally
         /\ \A k \in 1 .. n : u[k] = CountEntry(F[k], u[k - 1])
         /\ MostFrequent(r, b, n) = u[n].value
  BY MostFrequentSteps
<1> DEFINE T == {k \in 0 .. n : u[k] = t[k]}
<1>3. 0 \in T
  BY <1>1, <1>2
<1>4. ASSUME NEW k \in 0 .. n - 1, k \in T PROVE k + 1 \in T
  <2>1. k + 1 \in 1 .. n /\ k + 1 \in 0 .. n /\ (k + 1) - 1 = k /\ k \in 0 .. n
    OBVIOUS
  <2>2. u[k + 1] = CountEntry(F[k + 1], u[k]) /\ t[k + 1] = CountEntry(E[k + 1], t[k])
    BY <1>1, <1>2, <2>1
  <2>3. E[k + 1] \in Entry /\ F[k + 1] \in Entry /\ F[k + 1].match = E[k + 1].match
    BY <2>1
  <2>4. u[k] = t[k] /\ t[k] \in Tally
    BY <1>1, <1>4, <2>1
  <2> HIDE DEF E, F
  <2>5. CountEntry(F[k + 1], t[k]) = CountEntry(E[k + 1], t[k])
    BY <2>3, <2>4, SameFlagsSameCount
  <2> QED
    BY <2>1, <2>2, <2>4, <2>5
<1>5. n \in T
  <2> HIDE DEF T
  <2>1. 0 .. n \subseteq T
    BY <1>3, <1>4, InductionTo
  <2> QED
    BY <2>1
<1> QED
  BY <1>1, <1>2, <1>5

\* The entry stored in a full queue takes the slot of the one that leaves.
LEMMA RepeatKeepsCount ==
    ASSUME NEW q, NEW a, NEW w, NEW M, NEW n, Countable(q, a, w, M, n), n = q.size,
           NEW e \in Entry, View(q, a)[1].match = e.match
    PROVE  MostFrequent(cqueue_add(q, After(w, M)),
                        [a EXCEPT ![After(w, M)] = e], n) = MostFrequent(q, a, n)
<1> DEFINE r == cqueue_add(q, After(w, M))
           b == [a EXCEPT ![After(w, M)] = e]
           x == After(w, M)
           E == Entries(q, a, n)
           F == Entries(r, b, n)
           Ptr == 0 .. M - 1
<1>1. /\ M \in Nat \ {0, 1} /\ w \in 0 .. M - 1 /\ IsRing(q, Ptr) /\ q.size <= M
      /\ Trails(q, w, M) /\ a \in [Ptr -> MatchInfo] /\ n = cqueue_items(q)
      /\ \A k \in 1 .. n : View(q, a)[k] \in Entry
      /\ NULL \notin Ptr
  BY NullAssumption DEF Countable, Stored
<1>2. /\ x \in Ptr
      /\ \A j \in 0 .. M - 2 : Behind(w, j, M) # x
  BY <1>1, BehindMoves
<1> HIDE DEF Ptr, x
<1>3. /\ n \in Nat /\ n > 1 /\ q.front \in 0 .. n - 1
      /\ r.items = [q.items EXCEPT ![q.front] = x]
      /\ q.items \in [0 .. n - 1 -> Ptr \cup {NULL}]
  <2>1. n \in Nat /\ n > 1 /\ q.front \in 0 .. n - 1
    <3>1. /\ q.size \in Nat /\ q.size > 1
          /\ cqueue_items(q) = 0 <=> q.front = INVALID
          /\ q.front # INVALID => q.front \in 0 .. q.size - 1
      BY <1>1, CountOfRing
    <3> QED
      BY <1>1, <3>1
  <2>2. cqueue_items(q) = q.size
    BY <1>1
  <2>3. r.items = [q.items EXCEPT ![q.front] = x]
    <3>1. cqueue_add(q, x) = [size  |-> q.size,
                              items |-> [q.items EXCEPT ![q.front] = x],
                              front |-> After(q.front, q.size),
                              rear  |-> q.front]
      BY <1>1, <1>2, <2>2, AddFieldsFull
    <3> QED
      BY <3>1 DEF x
  <2> QED
    BY <1>1, <2>1, <2>3 DEF IsRing
<1> HIDE DEF r
<1>4. PICK p \in Bijection(1 .. n, 1 .. n) :
         \A i \in 1 .. n : /\ q.items[i - 1] = Contents(q)[p[i]]
                           /\ E[i] = View(q, a)[p[i]]
                           /\ p[i] = 1 <=> i = q.front + 1
  <2>1. PICK p : Places(q, a, n, p)
    BY <1>1, SlotsAndPlaces
  <2> QED
    BY <2>1 DEF Places
<1>5. \A i \in 1 .. n : p[i] \in 1 .. n
  BY <1>4 DEF Bijection, Injection
<1>6. ASSUME NEW i \in 1 .. n
      PROVE  E[i] \in Entry /\ F[i] \in Entry /\ F[i].match = E[i].match
  <2>1. E[i] \in Entry
    BY <1>1, <1>4, <1>5
  <2>2. E[i] = a[q.items[i - 1]] /\ F[i] = b[r.items[i - 1]]
    BY DEF Entries
  <2>3. CASE i = q.front + 1
    <3>1. r.items[i - 1] = x
      BY <1>3, <2>3
    <3>2. F[i] = e
      BY <1>1, <1>2, <2>2, <3>1 DEF x
    <3>3. E[i] = View(q, a)[1]
      BY <1>4, <2>3
    <3> QED
      BY <2>1, <3>2, <3>3
  <2>4. CASE i # q.front + 1
    <3>1. r.items[i - 1] = q.items[i - 1]
      BY <1>3, <2>4
    <3>2. p[i] \in 2 .. n
      BY <1>3, <1>4, <1>5, <2>4
    <3>3. q.items[i - 1] = Behind(w, n - p[i], M)
      BY <1>1, <1>4, <3>2 DEF Trails
    <3>4. n - p[i] \in 0 .. M - 2
      BY <1>1, <1>3, <3>2
    <3>5. q.items[i - 1] # x /\ q.items[i - 1] \in Ptr
      <4>1. q.items[i - 1] # x
        BY <1>2, <3>3, <3>4
      <4>2. n - p[i] \in 0 .. M - 1
        BY <1>1, <3>4
      <4>3. Behind(w, n - p[i], M) \in 0 .. M - 1
        BY <1>1, <4>2, BehindMoves
      <4> QED
        BY <3>3, <4>1, <4>3 DEF Ptr
    <3>6. F[i] = E[i]
      BY <1>1, <2>2, <3>1, <3>5 DEF x
    <3> QED
      BY <2>1, <3>6
  <2> QED
    BY <2>3, <2>4
<1> HIDE DEF b
<1>7. MostFrequent(r, b, n) = MostFrequent(q, a, n)
  <2>1. n \in Nat
    BY <1>3
  <2>2. \A i \in 1 .. n : /\ Entries(q, a, n)[i] \in Entry
                           /\ Entries(r, b, n)[i] \in Entry
                           /\ Entries(r, b, n)[i].match = Entries(q, a, n)[i].match
    BY <1>6
  <2> QED
    BY <2>1, <2>2, SameFlagsSameWinner
<1> QED
  BY <1>7 DEF r, b

\* A vote after a vote is among a full queue.
LEMMA VotedIsFull ==
    ASSUME Inv, voted
    PROVE  /\ opts.mode = "-n" =>
                 /\ Countable(cq, window, windex, MaxWindow, opts.size)
                 /\ cq.size = opts.size /\ Queued = View(cq, window)
                 /\ most_freq_value = MostFrequent(cq, window, opts.size)
                 /\ line_count > opts.size
           /\ opts.mode = "-l" =>
                 /\ Countable(packet_cq, packet_window, packet_windex,
                              opts.size, opts.size)
                 /\ packet_cq.size = opts.size
                 /\ Queued = View(packet_cq, packet_window)
                 /\ most_freq_value =
                       MostFrequent(packet_cq, packet_window, opts.size)
                 /\ packet_count >= opts.size
<1>1. /\ opts \in Options /\ opts.size \in Nat
      /\ line_count \in Nat /\ packet_count \in Nat
      /\ LinesQueued /\ PacketsQueued /\ EntriesQueued /\ VotesHeld
  BY MaxLinesAssumption, OptionFacts DEF Inv, TypeOK
<1>2. CASE opts.mode = "-n"
  <2>1. line_count > opts.size /\ Lines = line_count
    <3>1. status # "exited" \/ Lines = line_count - 1
      BY DEF Lines
    <3>2. line_count > opts.size
      BY <1>1, <1>2 DEF VotesHeld
    <3>3. status # "exited"
      BY <1>1, <1>2 DEF LinesQueued
    <3> QED
      BY <3>2, <3>3 DEF Lines
  <2>2. /\ Stored(cq, window, windex, MaxWindow) /\ cq.size = opts.size
        /\ cqueue_items(cq) = opts.size
    BY <1>1, <1>2, <2>1 DEF LinesQueued, Kept
  <2>3. Queued = View(cq, window) /\ Queue = cq /\ Array = window
    BY <1>2 DEF Queued, Queue, Array, View
  <2>4. \A k \in 1 .. opts.size : View(cq, window)[k] \in Entry
    <3>1. DOMAIN Queued = 1 .. opts.size
      BY <2>2, <2>3 DEF Queued
    <3> QED
      BY <1>1, <1>2, <2>3, <3>1 DEF EntriesQueued
  <2>5. most_freq_value = MostFrequent(cq, window, opts.size)
    BY <1>1, <1>2, <2>3 DEF VotesHeld
  <2> QED
    BY <1>2, <2>1, <2>2, <2>3, <2>4, <2>5 DEF Countable
<1>3. CASE opts.mode = "-l"
  <2>1. packet_count >= opts.size
    BY <1>1, <1>3 DEF VotesHeld
  <2>2. /\ Stored(packet_cq, packet_window, packet_windex, opts.size)
        /\ packet_cq.size = opts.size
        /\ cqueue_items(packet_cq) = opts.size
    BY <1>1, <1>3, <2>1 DEF PacketsQueued, Kept
  <2>3. Queued = View(packet_cq, packet_window) /\ Queue = packet_cq /\ Array = packet_window
    BY <1>3 DEF Queued, Queue, Array, View
  <2>4. \A k \in 1 .. opts.size : View(packet_cq, packet_window)[k] \in Entry
    <3>1. DOMAIN Queued = 1 .. opts.size
      BY <2>2, <2>3 DEF Queued
    <3>2. \A k \in 1 .. opts.size : Queued[k] \in PacketEntry
      BY <1>1, <1>3, <3>1 DEF EntriesQueued
    <3> QED
      BY <2>3, <3>2 DEF Entry
  <2>5. most_freq_value = MostFrequent(packet_cq, packet_window, opts.size)
    BY <1>1, <1>3, <2>3 DEF VotesHeld
  <2> QED
    BY <1>3, <2>1, <2>2, <2>3, <2>4, <2>5 DEF Countable
<1> QED
  BY <1>2, <1>3

\* What the slots and counts of a vote with -n or -l come to after a line.
LEMMA LineVotesAgain ==
    ASSUME Inv, NEW e, LineOf(e)
    PROVE  /\ opts.mode = "-n" =>
                 /\ voted' <=> line_count' > opts.size
                 /\ voted' => most_freq_value' = MostFrequent(cq', window', opts.size)
           /\ opts.mode = "-l" =>
                 /\ voted' <=> packet_count' >= opts.size
                 /\ voted' => most_freq_value' =
                                 MostFrequent(packet_cq', packet_window', opts.size)
           /\ opts.mode \in {"-A", "none"} => ~ voted /\ ~ voted'
           /\ opts.mode = "-l" /\ e.match = {} => UNCHANGED <<most_freq_value, voted>>
<1>1. VotesHeld' /\ VotesHeld /\ opts' = opts /\ status = "reading"
  BY LineVotes DEF Inv, LineOf, StartOfLine
<1>2. opts.mode \in {"-A", "none"} => ~ voted /\ voted' = voted
  BY <1>1 DEF VotesHeld, LineOf, EndOfLine
<1>3. ASSUME opts.mode = "-l", e.match = {} PROVE UNCHANGED <<most_freq_value, voted>>
  <2>1. packet_count' = prev_packet_count
    BY <1>3 DEF LineOf, Inv, PacketsQueued
  <2> QED
    BY <1>3, <2>1 DEF LineOf, EndOfLine
<1> QED
  BY <1>1, <1>2, <1>3 DEF VotesHeld, Queue, Array

\* A repeated entry never changes the winner, for any window, any number of
\* values and any tie among them.
THEOREM RepeatKeeps == Spec => RepeatKeepsWinner
<1> DEFINE Step == LET n == opts.size
                   IN  /\ opts.mode \in {"-n", "-l"} /\ voted /\ voted'
                       /\ (Queued')[n].match = Queued[1].match
                       => most_freq_value' = most_freq_value
<1>1. Inv /\ [Next]_vars => [Step]_vars
  <2> SUFFICES ASSUME Inv, Next, opts.mode \in {"-n", "-l"}, voted, voted',
                      (Queued')[opts.size].match = Queued[1].match
               PROVE  most_freq_value' = most_freq_value
    OBVIOUS
  <2>1. ASSUME NEW e, LineOf(e) PROVE most_freq_value' = most_freq_value
    <3>1. /\ status = "reading" /\ opts' = opts /\ opts \in Options
          /\ windex' = (line_count + 1) % MaxWindow
          /\ windex = line_count % MaxWindow /\ line_count \in Nat
          /\ e \in Entry /\ MaxWindow \in Nat \ {0}
          /\ window' = [window EXCEPT ![windex'] = e]
      BY <2>1, MaxLinesAssumption, MaxWindowAssumption
         DEF Inv, TypeOK, LinesQueued, Lines, LineOf, StartOfLine, NextIndex
    <3>2. opts.size \in Nat
      BY <3>1, OptionFacts
    <3>3. CASE opts.mode = "-n"
      <4>1. windex' = After(windex, MaxWindow)
        BY <3>1, CountAround
      <4>2. /\ Countable(cq, window, windex, MaxWindow, opts.size)
            /\ cq.size = opts.size /\ Queued = View(cq, window)
            /\ most_freq_value = MostFrequent(cq, window, opts.size)
        BY <3>3, VotedIsFull
      <4>3. /\ cq' = cqueue_add(cq, After(windex, MaxWindow))
            /\ window' = [window EXCEPT ![After(windex, MaxWindow)] = e]
        BY <2>1, <3>1, <3>3, <4>1 DEF LineOf, EndOfLine
      <4>4. most_freq_value' = MostFrequent(cq', window', opts.size)
        BY <2>1, <3>3, LineVotesAgain
      <4>5. (Queued')[opts.size] = e
        <5>1. Stored(cq, window, windex, MaxWindow) /\ cqueue_items(cq) = opts.size
          BY <4>2 DEF Countable
        <5>2. /\ Len(Queued) = opts.size
              /\ Len(Queued') = Len(Queued)
              /\ opts.size > 1
          <6>1. /\ Len(Queued') = IF Len(Queued) = opts.size THEN Len(Queued)
                                  ELSE Len(Queued) + 1
                /\ DOMAIN Queued = 1 .. Len(Queued) /\ Len(Queued) \in 0 .. opts.size
            BY <2>1, <3>3, LineQueues
          <6>2. Len(Queued) = opts.size
            BY <3>2, <4>2, <5>1 DEF View
          <6>3. opts.size > 1
            BY <4>2, <5>1, CountOfRing DEF Stored
          <6> QED
            BY <3>2, <6>1, <6>2, <6>3
        <5> QED
          BY <2>1, <3>3, <5>2, LineQueues
      <4>6. View(cq, window)[1].match = e.match
        BY <4>2, <4>5
      <4>7. MostFrequent(cq', window', opts.size) = MostFrequent(cq, window, opts.size)
        <5>1. MostFrequent(cqueue_add(cq, After(windex, MaxWindow)),
                           [window EXCEPT ![After(windex, MaxWindow)] = e],
                           opts.size) = MostFrequent(cq, window, opts.size)
          <6>1. e \in Entry /\ opts.size = cq.size
            BY <3>1, <4>2
          <6>2. Countable(cq, window, windex, MaxWindow, opts.size)
            BY <4>2
          <6> QED
            BY <4>6, <6>1, <6>2, RepeatKeepsCount
        <5> QED
          BY <4>3, <5>1
      <4> QED
        BY <4>2, <4>4, <4>7
    <3>4. CASE opts.mode = "-l" /\ e.match # {}
      <4>1. /\ Countable(packet_cq, packet_window, packet_windex, opts.size, opts.size)
            /\ packet_cq.size = opts.size /\ Queued = View(packet_cq, packet_window)
            /\ most_freq_value = MostFrequent(packet_cq, packet_window, opts.size)
        BY <3>4, VotedIsFull
      <4>2. packet_windex' = After(packet_windex, opts.size)
        <5>1. packet_windex \in 0 .. opts.size - 1 /\ opts.size \in Nat \ {0}
          BY <4>1 DEF Countable, Stored
        <5>2. packet_windex' = (packet_windex + 1) % opts.size
          BY <2>1, <3>4 DEF LineOf, NextPacketIndex
        <5> QED
          BY <5>1, <5>2, StepAround
      <4>3. /\ packet_cq' = cqueue_add(packet_cq, After(packet_windex, opts.size))
            /\ packet_window' = [packet_window EXCEPT ![After(packet_windex, opts.size)] = e]
        BY <2>1, <3>4, <4>2 DEF LineOf
      <4>4. most_freq_value' = MostFrequent(packet_cq', packet_window', opts.size)
        BY <2>1, <3>4, LineVotesAgain
      <4>5. (Queued')[opts.size] = e
        <5>1. /\ Stored(packet_cq, packet_window, packet_windex, opts.size)
              /\ cqueue_items(packet_cq) = opts.size
          BY <4>1 DEF Countable
        <5>2. /\ Len(Queued) = opts.size
              /\ Len(Queued') = Len(Queued)
              /\ opts.size > 1
          <6>1. /\ Len(Queued') = IF Len(Queued) = opts.size THEN Len(Queued)
                                  ELSE Len(Queued) + 1
                /\ DOMAIN Queued = 1 .. Len(Queued) /\ Len(Queued) \in 0 .. opts.size
            BY <2>1, <3>4, LineQueues
          <6>2. Len(Queued) = opts.size
            BY <3>2, <4>1, <5>1 DEF View
          <6>3. opts.size > 1
            BY <4>1, <5>1, CountOfRing DEF Stored
          <6> QED
            BY <3>2, <6>1, <6>2, <6>3
        <5> QED
          BY <2>1, <3>4, <5>2, LineQueues
      <4>6. View(packet_cq, packet_window)[1].match = e.match
        BY <4>1, <4>5
      <4>7. MostFrequent(packet_cq', packet_window', opts.size)
               = MostFrequent(packet_cq, packet_window, opts.size)
        <5>1. MostFrequent(cqueue_add(packet_cq, After(packet_windex, opts.size)),
                           [packet_window EXCEPT ![After(packet_windex, opts.size)] = e],
                           opts.size) = MostFrequent(packet_cq, packet_window, opts.size)
          BY <3>1, <4>1, <4>6, RepeatKeepsCount
        <5> QED
          BY <4>3, <5>1
      <4> QED
        BY <4>1, <4>4, <4>7
    <3>5. CASE opts.mode = "-l" /\ e.match = {}
      BY <2>1, <3>5, LineVotesAgain
    <3> QED
      BY <3>3, <3>4, <3>5
  <2>2. CASE NotPacket \/ \E num \in Values : Packet(num)
    <3>1. PICK e : LineOf(e)
      BY <2>2, LineHasEntry DEF Inv
    <3> QED
      BY <2>1, <3>1
  <2>3. CASE TooManyLines
    BY <2>3 DEF TooManyLines
  <2>4. CASE EndOfInput
    BY <2>4 DEF EndOfInput
  <2> QED
    BY <2>2, <2>3, <2>4 DEF Next
<1> QED
  BY <1>1, InvHolds, PTL DEF Spec, RepeatKeepsWinner

-----------------------------------------------------------------------------
(* The loop implements SlidingVote.                                         *)

\* The refinement mapping: the ballots that entries stand for, and the winner.
BallotOf(m) == IF m.match = {} THEN NULL ELSE CHOOSE v \in Values : v \in m.match
Ballots(s) == [k \in DOMAIN s |-> BallotOf(s[k])]
Winner == IF voted THEN most_freq_value ELSE NotHanded

LEMMA BallotFacts ==
    ASSUME NEW m \in Entry
    PROVE  /\ BallotOf(m) \in Values \cup {NULL}
           /\ BallotOf(m) = NULL <=> m.match = {}
           /\ \A v \in Values : BallotOf(m) = v <=> m.match = {v}
<1>1. NULL \notin Values
  BY NullAssumption, NumValuesAssumption DEF Values
<1>2. CASE m.match = {}
  BY <1>1, <1>2 DEF BallotOf
<1>3. CASE m.match # {}
  <2>1. PICK v \in Values : m.match = {v}
    BY <1>3, EntryFacts
  <2>2. (CHOOSE u \in Values : u \in m.match) = v
    BY <2>1
  <2> QED
    BY <1>1, <1>3, <2>1, <2>2 DEF BallotOf
<1> QED
  BY <1>2, <1>3

\* A vote elects what SlidingVote allows to be elected.
LEMMA WinnerIsElected ==
    ASSUME NEW q, NEW a, NEW w, NEW M, NEW n, Countable(q, a, w, M, n)
    PROVE  /\ MostFrequent(q, a, n) \in ImplementedVote!Elected(Ballots(View(q, a)))
           /\ MostFrequent(q, a, n) \in Values \cup {VALUE_INVALID}
           /\ Len(Ballots(View(q, a))) = n
<1> DEFINE x == MostFrequent(q, a, n)
           u == View(q, a)
           b == Ballots(u)
           V(v) == {k \in 1 .. n : u[k].match = {v}}
<1>1. /\ (\A k \in 1 .. n : u[k].match = {}) => x = VALUE_INVALID
      /\ (\E k \in 1 .. n : u[k].match # {}) =>
            /\ x \in Values
            /\ \A v \in Values : Cardinality(V(v)) <= Cardinality(V(x))
      /\ n \in Nat
  <2>1. Counted(q, a, n)
    BY VoteOnQueue
  <2> QED
    BY <2>1 DEF Counted
<1>2. DOMAIN u = 1 .. n /\ \A k \in 1 .. n : u[k] \in Entry
  BY DEF Countable, View
<1> HIDE DEF x, u
<1>3. b = [k \in 1 .. n |-> BallotOf(u[k])]
  BY <1>2 DEF Ballots
<1>4. Len(b) = n
  BY <1>1, <1>3
<1>5. \A k \in 1 .. n : b[k] = NULL <=> u[k].match = {}
  BY <1>2, <1>3, BallotFacts
<1>6. ASSUME NEW v \in Values
      PROVE  ImplementedVote!Votes(b, v) = Cardinality(V(v))
  <2>1. {k \in 1 .. n : b[k] = v} = V(v)
    BY <1>2, <1>3, BallotFacts
  <2> HIDE DEF b
  <2>2. ImplementedVote!Votes(b, v) = Cardinality({k \in 1 .. Len(b) : b[k] = v})
    BY DEF ImplementedVote!Votes, ImplementedVote!Cardinality, Cardinality
  <2> QED
    BY <1>4, <2>1, <2>2
<1> HIDE DEF b
<1>7. CASE \A k \in 1 .. n : u[k].match = {}
  <2>1. ImplementedVote!Elected(b) = {VALUE_INVALID}
    BY <1>4, <1>5, <1>7 DEF ImplementedVote!Elected
  <2> QED
    BY <1>1, <1>4, <1>7, <2>1 DEF b, u, x
<1>8. CASE \E k \in 1 .. n : u[k].match # {}
  <2>1. x \in Values /\ \A v \in Values : Cardinality(V(v)) <= Cardinality(V(x))
    BY <1>1, <1>8
  <2>2. \A v \in Values : ImplementedVote!Votes(b, v) <= ImplementedVote!Votes(b, x)
    <3> HIDE DEF V
    <3> QED
      BY <1>6, <2>1
  <2>3. ~ \A k \in 1 .. Len(b) : b[k] = NULL
    BY <1>4, <1>5, <1>8
  <2>4. x \in ImplementedVote!Elected(b)
    BY <2>1, <2>2, <2>3 DEF ImplementedVote!Elected
  <2> QED
    BY <1>4, <2>1, <2>4 DEF b, u, x
<1> QED
  BY <1>7, <1>8

\* An entry appended is a ballot appended.
LEMMA BallotsAppend ==
    ASSUME Inv, NEW e, LineOf(e),
           opts.mode \in {"-n", "-A"} \/ (opts.mode = "-l" /\ e.match # {})
    PROVE  /\ Ballots(Queued') =
                Append(IF Len(Ballots(Queued)) = opts.size THEN Tail(Ballots(Queued))
                       ELSE Ballots(Queued), BallotOf(e))
           /\ BallotOf(e) \in Values \cup {NULL}
<1> DEFINE s == Queued
           t == Queued'
           n == Len(s)
           m == Len(t)
           B == Values \cup {NULL}
           x == Ballots(s)
           y == Ballots(t)
           z == IF n = opts.size THEN Tail(x) ELSE x
<1>1. /\ n \in 0 .. opts.size
      /\ m = IF n = opts.size THEN n ELSE n + 1
      /\ DOMAIN s = 1 .. n
      /\ DOMAIN t = 1 .. m
      /\ \A k \in 1 .. m :
            t[k] = IF k = m THEN e ELSE s[IF n = opts.size THEN k + 1 ELSE k]
  BY LineQueues
<1>2. /\ EntriesQueued /\ e \in Entry /\ opts \in Options
      /\ opts.size \in Nat /\ opts.size > 1
  <2>1. opts \in Options
    BY DEF Inv, TypeOK
  <2> QED
    BY <2>1, OptionFacts DEF Inv, LineOf
<1>3. \A k \in 1 .. n : s[k] \in Entry
  BY <1>1, <1>2 DEF EntriesQueued, Entry
<1> HIDE DEF s, t, n, m
<1>4. BallotOf(e) \in B /\ \A k \in 1 .. n : BallotOf(s[k]) \in B
  BY <1>2, <1>3, BallotFacts
<1> HIDE DEF B
<1>5. n \in Nat /\ m \in Nat /\ m > 0
  BY <1>1, <1>2
<1>6. x = [k \in 1 .. n |-> BallotOf(s[k])] /\ y = [k \in 1 .. m |-> BallotOf(t[k])]
  BY <1>1 DEF Ballots
<1>7. x \in Seq(B) /\ Len(x) = n
  BY <1>4, <1>5, <1>6
<1>8. /\ z \in Seq(B) /\ Len(z) = m - 1
      /\ \A k \in 1 .. m - 1 : z[k] = BallotOf(s[IF n = opts.size THEN k + 1 ELSE k])
  <2>1. CASE n = opts.size
    <3>1. x # << >> /\ n = m /\ z = Tail(x)
      BY <1>1, <1>2, <1>7, <2>1
    <3>2. /\ Tail(x) \in Seq(B) /\ Len(Tail(x)) = n - 1
          /\ \A k \in 1 .. n - 1 : Tail(x)[k] = x[k + 1]
      <4> HIDE DEF x
      <4> QED
        BY <1>7, <3>1, HeadTailProperties
    <3> QED
      BY <1>5, <1>6, <2>1, <3>1, <3>2
  <2>2. CASE n # opts.size
    BY <1>1, <1>5, <1>6, <1>7, <2>2
  <2> QED
    BY <2>1, <2>2
<1> HIDE DEF x, z
<1>9. /\ Append(z, BallotOf(e)) \in Seq(B) /\ Len(Append(z, BallotOf(e))) = m
      /\ \A k \in 1 .. m - 1 : Append(z, BallotOf(e))[k] = z[k]
      /\ Append(z, BallotOf(e))[m] = BallotOf(e)
  BY <1>4, <1>5, <1>8, AppendProperties
<1>10. ASSUME NEW k \in 1 .. m PROVE y[k] = Append(z, BallotOf(e))[k] /\ y[k] \in B
  <2>1. CASE k = m
    BY <1>1, <1>4, <1>6, <1>9, <2>1
  <2>2. CASE k # m
    <3>1. k \in 1 .. m - 1
      BY <1>5, <2>2
    <3>2. (IF n = opts.size THEN k + 1 ELSE k) \in 1 .. n
      BY <1>1, <1>2, <1>5, <3>1
    <3>3. y[k] = BallotOf(s[IF n = opts.size THEN k + 1 ELSE k])
      BY <1>1, <1>6, <2>2
    <3> QED
      BY <1>4, <1>8, <1>9, <3>1, <3>2, <3>3
  <2> QED
    BY <2>1, <2>2
<1>11. y \in Seq(B) /\ Len(y) = m
  BY <1>5, <1>6, <1>10
<1> HIDE DEF y
<1>12. y = Append(z, BallotOf(e))
  BY <1>9, <1>10, <1>11, SeqEqual
<1> QED
  BY <1>4, <1>7, <1>12 DEF x, y, z, s, t, n, B

\* Steps of the loop that are steps of SlidingVote.
LEMMA CastsBallot ==
    ASSUME NEW b \in Values \cup {NULL}, opts.size > 0, opts' = opts,
           Ballots(Queued') = Append(IF Len(Ballots(Queued)) = opts.size
                                     THEN Tail(Ballots(Queued))
                                     ELSE Ballots(Queued), b),
           Winner' \in ImplementedVote!Elected(Ballots(Queued')) \cup {NotHanded},
           Winner' # NotHanded => Len(Ballots(Queued')) = opts.size,
           Winner # NotHanded => Winner' # NotHanded
    PROVE  ImplementedVote!Next
BY DEF ImplementedVote!Next, ImplementedVote!Cast, Ballots, BallotOf, Winner

LEMMA ClosesVote ==
    ASSUME Len(Ballots(Queued)) < opts.size, Winner = NotHanded,
           Winner' \in ImplementedVote!Elected(Ballots(Queued)),
           opts' = opts, Queued' = Queued
    PROVE  ImplementedVote!Next
BY DEF ImplementedVote!Next, ImplementedVote!Close, Ballots, BallotOf, Winner

LEMMA Stutters ==
    ASSUME opts' = opts, Queued' = Queued, Winner' = Winner
    PROVE  UNCHANGED ImplementedVote!voteVars
BY DEF ImplementedVote!voteVars, Winner

\* A line casts a ballot, unless it is not queued.
LEMMA LineCasts ==
    ASSUME Inv, NEW e, LineOf(e)
    PROVE  ImplementedVote!Next \/ UNCHANGED ImplementedVote!voteVars
<1>1. /\ opts' = opts /\ opts \in Options /\ line_count \in Nat
      /\ line_count' = line_count + 1 /\ packet_count \in Nat
      /\ packet_count' = IF e.match = {} THEN packet_count ELSE packet_count + 1
      /\ voted \in BOOLEAN
  BY MaxLinesAssumption DEF Inv, TypeOK, LineOf, StartOfLine, LinesQueued, Lines
<1>2. /\ opts.mode \in {"-n", "-l", "-A", "none"} /\ opts.size \in Nat
      /\ opts.mode = "-n" => opts.size >= 2
      /\ opts.mode = "-l" => opts.size >= 2
      /\ opts.mode = "-A" => opts.size >= 2
  BY <1>1, OptionFacts
<1>3. NotHanded \notin Values \cup {VALUE_INVALID}
  BY HandedAssumption, NumValuesAssumption DEF Values, VALUE_INVALID
<1>4. CASE opts.mode = "-n"
  <2>1. voted' <=> line_count' > opts.size
    BY <1>4, LineVotesAgain
  <2>2. voted' => /\ Winner' \in ImplementedVote!Elected(Ballots(Queued'))
                  /\ Winner' \in Values \cup {VALUE_INVALID}
                  /\ Len(Ballots(Queued')) = opts.size
    <3> SUFFICES ASSUME voted'
                 PROVE  /\ Winner' \in ImplementedVote!Elected(Ballots(Queued'))
                        /\ Winner' \in Values \cup {VALUE_INVALID}
                        /\ Len(Ballots(Queued')) = opts.size
      OBVIOUS
    <3>1. /\ Countable(cq', window', windex', MaxWindow, opts.size)
          /\ Queued' = View(cq', window')
      BY <1>4, <2>1, LineVoteIsCountable
    <3>2. Winner' = MostFrequent(cq', window', opts.size)
      BY <1>4, LineVotesAgain DEF Winner
    <3>3. /\ MostFrequent(cq', window', opts.size)
                \in ImplementedVote!Elected(Ballots(View(cq', window')))
          /\ MostFrequent(cq', window', opts.size) \in Values \cup {VALUE_INVALID}
          /\ Len(Ballots(View(cq', window'))) = opts.size
      BY <3>1, WinnerIsElected
    <3> QED
      BY <3>1, <3>2, <3>3
  <2>3. voted => voted'
    BY <1>1, <1>2, <1>4, <2>1, VotedIsFull
  <2>4. (~ voted' => Winner' = NotHanded) /\ (Winner # NotHanded => voted)
    BY DEF Winner
  <2>5. /\ Ballots(Queued') = Append(IF Len(Ballots(Queued)) = opts.size
                                     THEN Tail(Ballots(Queued))
                                     ELSE Ballots(Queued), BallotOf(e))
        /\ BallotOf(e) \in Values \cup {NULL}
    BY <1>4, BallotsAppend
  <2> QED
    BY <1>1, <1>2, <1>3, <1>4, <2>2, <2>3, <2>4, <2>5, CastsBallot
<1>5. CASE opts.mode = "-l" /\ e.match # {}
  <2>1. voted' <=> packet_count' >= opts.size
    BY <1>5, LineVotesAgain
  <2>2. voted' => /\ Winner' \in ImplementedVote!Elected(Ballots(Queued'))
                  /\ Winner' \in Values \cup {VALUE_INVALID}
                  /\ Len(Ballots(Queued')) = opts.size
    <3> SUFFICES ASSUME voted'
                 PROVE  /\ Winner' \in ImplementedVote!Elected(Ballots(Queued'))
                        /\ Winner' \in Values \cup {VALUE_INVALID}
                        /\ Len(Ballots(Queued')) = opts.size
      OBVIOUS
    <3>1. /\ Countable(packet_cq', packet_window', packet_windex', opts.size,
                       opts.size)
          /\ Queued' = View(packet_cq', packet_window')
      BY <1>5, <2>1, LineVoteIsCountable
    <3>2. Winner' = MostFrequent(packet_cq', packet_window', opts.size)
      BY <1>5, LineVotesAgain DEF Winner
    <3>3. /\ MostFrequent(packet_cq', packet_window', opts.size)
                \in ImplementedVote!Elected(Ballots(View(packet_cq', packet_window')))
          /\ MostFrequent(packet_cq', packet_window', opts.size)
                \in Values \cup {VALUE_INVALID}
          /\ Len(Ballots(View(packet_cq', packet_window'))) = opts.size
      BY <3>1, WinnerIsElected
    <3> QED
      BY <3>1, <3>2, <3>3
  <2>3. voted => voted'
    BY <1>1, <1>2, <1>5, <2>1, VotedIsFull
  <2>4. (~ voted' => Winner' = NotHanded) /\ (Winner # NotHanded => voted)
    BY DEF Winner
  <2>5. /\ Ballots(Queued') = Append(IF Len(Ballots(Queued)) = opts.size
                                     THEN Tail(Ballots(Queued))
                                     ELSE Ballots(Queued), BallotOf(e))
        /\ BallotOf(e) \in Values \cup {NULL}
    BY <1>5, BallotsAppend
  <2> QED
    BY <1>1, <1>2, <1>3, <1>5, <2>2, <2>3, <2>4, <2>5, CastsBallot
<1>6. CASE opts.mode = "-A"
  <2>1. Winner = NotHanded /\ Winner' = NotHanded
    BY <1>6, LineVotesAgain DEF Winner
  <2>2. /\ Ballots(Queued') = Append(IF Len(Ballots(Queued)) = opts.size
                                     THEN Tail(Ballots(Queued))
                                     ELSE Ballots(Queued), BallotOf(e))
        /\ BallotOf(e) \in Values \cup {NULL}
    BY <1>6, BallotsAppend
  <2> QED
    BY <1>1, <1>2, <1>6, <2>1, <2>2, CastsBallot
<1>7. CASE opts.mode = "none" \/ (opts.mode = "-l" /\ e.match = {})
  <2>1. Queued' = Queued
    BY <1>7, LineQueues
  <2>2. Winner' = Winner
    BY <1>7, LineVotesAgain DEF Winner
  <2> QED
    BY <1>1, <2>1, <2>2, Stutters
<1> QED
  BY <1>2, <1>4, <1>5, <1>6, <1>7

\* The queue of the votes depends on the options and the queues alone.
LEMMA QueuedStays ==
    ASSUME UNCHANGED <<opts, window, cq, packet_window, packet_cq>>
    PROVE  Queued' = Queued
BY DEF Queued, Queue, Array

\* The end of the input closes the vote of -A and is nothing to the others.
LEMMA EndCloses ==
    ASSUME Inv, EndOfInput
    PROVE  ImplementedVote!Next \/ UNCHANGED ImplementedVote!voteVars
<1>1. opts' = opts /\ Queued' = Queued
  BY QueuedStays DEF EndOfInput
<1>2. CASE opts.mode # "-A"
  <2>1. Winner' = Winner
    BY <1>2 DEF EndOfInput, Winner
  <2> QED
    BY <1>1, <2>1, Stutters
<1>3. CASE opts.mode = "-A"
  <2>1. /\ Countable(cq, window, windex, MaxWindow, line_count)
        /\ Queued = View(cq, window)
        /\ line_count < opts.size
    BY <1>3, EndVoteIsCountable DEF EndOfInput
  <2>2. Counted(cq, window, line_count)
    BY <2>1, VoteOnQueue
  <2>3. voted' /\ most_freq_value' = MostFrequent(cq, window, line_count)
    BY <1>3, <2>2 DEF EndOfInput, Counted
  <2>4. /\ MostFrequent(cq, window, line_count)
              \in ImplementedVote!Elected(Ballots(View(cq, window)))
        /\ Len(Ballots(View(cq, window))) = line_count
    BY <2>1, WinnerIsElected
  <2>5. Winner = NotHanded
    BY <1>3 DEF Inv, VotesHeld, EndOfInput, Winner
  <2>6. Winner' \in ImplementedVote!Elected(Ballots(Queued))
    BY <2>1, <2>3, <2>4 DEF Winner
  <2> QED
    BY <1>1, <2>1, <2>4, <2>5, <2>6, ClosesVote
<1> QED
  BY <1>2, <1>3

\* The loop holds the votes SlidingVote describes, in each of the modes -n, -l
\* and -A: a ballot for each line or packet, only the latest size of them
\* kept, and a winner that no other value outnumbers.  Whatever the size, the
\* number of values and the length of the window.
THEOREM LoopImplementsVote == Spec => ImplementsVote
<1>1. Init => ImplementedVote!Init
  <2> SUFFICES ASSUME Init PROVE ImplementedVote!Init
    OBVIOUS
  <2>1. opts.size \in Nat
    BY OptionFacts DEF Init
  <2>2. Winner = NotHanded
    BY DEF Init, Winner
  <2>3. Len(Queued) = 0 /\ DOMAIN Queued = {}
    <3>1. cqueue_items(Queue) = 0
      BY DEF Init, Queue, cqueue_create, cqueue_items
    <3> QED
      BY <3>1 DEF Queued
  <2>4. Ballots(Queued) = << >>
    BY <2>3 DEF Ballots
  <2> QED
    BY <2>1, <2>2, <2>4 DEF ImplementedVote!Init, Ballots, BallotOf, Winner
<1>2. ASSUME Inv, [Next]_vars
      PROVE  ImplementedVote!Next \/ UNCHANGED ImplementedVote!voteVars
  <2>1. CASE NotPacket \/ \E num \in Values : Packet(num)
    <3>1. PICK e : LineOf(e)
      BY <1>2, <2>1, LineHasEntry DEF Inv
    <3> QED
      BY <1>2, <3>1, LineCasts
  <2>2. CASE TooManyLines
    <3>1. opts' = opts /\ Queued' = Queued /\ Winner' = Winner
      BY <2>2, QueuedStays DEF TooManyLines, Winner
    <3> QED
      BY <3>1, Stutters
  <2>3. CASE EndOfInput
    BY <1>2, <2>3, EndCloses
  <2>4. CASE UNCHANGED vars
    <3>1. opts' = opts /\ Queued' = Queued /\ Winner' = Winner
      BY <2>4, QueuedStays DEF vars, Winner
    <3> QED
      BY <3>1, Stutters
  <2> QED
    BY <1>2, <2>1, <2>2, <2>3, <2>4 DEF Next
<1> QED
  BY <1>1, <1>2, InvHolds, PTL DEF Spec, ImplementsVote, ImplementedVote!Spec
=============================================================================
