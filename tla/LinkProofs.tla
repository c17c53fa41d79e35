------------------------------ MODULE LinkProofs ------------------------------
(***************************************************************************)
(* What detect_with_lev decides, for every packet and every legal size of  *)
(* the messages, and that both functions of levenshtein-new.c compute the  *)
(* edit distance of any two strings; that one error in a packet is         *)
(* corrected; and what an A-MPDU that begins anywhere sees of the tag's    *)
(* messages, and what is then decoded.                                     *)
(***************************************************************************)
EXTENDS Link, Levenshtein, Lemmas

-----------------------------------------------------------------------------

(* The table of the edit distance.                                          *)

LEMMA PrefixFacts ==
    ASSUME NEW s \in Strings, NEW n \in 0 .. Len(s)
    PROVE  /\ s \in Seq(Bit)
           /\ Prefix(s, n) \in Strings
           /\ Len(Prefix(s, n)) = n
           /\ n = 0 => Prefix(s, n) = << >>
           /\ n > 0 => /\ Prefix(s, n) # << >>
                       /\ Prefix(s, n)[n] = s[n]
                       /\ Prefix(Prefix(s, n), n - 1) = Prefix(s, n - 1)
<1>1. s \in Seq(Bit) /\ Prefix(s, n) \in Strings
  BY StringsAssumption
<1>2. Prefix(s, n) = [k \in 1 .. n |-> s[k]] /\ Len(Prefix(s, n)) = n
  BY <1>1 DEF Prefix
<1>3. Prefix(s, n) \in Seq(Bit)
  BY <1>1, StringsAssumption
<1>4. n = 0 => Prefix(s, n) = << >>
  BY <1>2, <1>3, EmptySeq
<1>5. ASSUME n > 0
      PROVE  /\ Prefix(s, n) # << >>
             /\ Prefix(s, n)[n] = s[n]
             /\ Prefix(Prefix(s, n), n - 1) = Prefix(s, n - 1)
  <2>1. Prefix(Prefix(s, n), n - 1) = [k \in 1 .. n - 1 |-> Prefix(s, n)[k]]
    BY <1>2, <1>3, <1>5 DEF Prefix
  <2>2. Prefix(s, n - 1) = [k \in 1 .. n - 1 |-> s[k]]
    BY <1>1, <1>5 DEF Prefix
  <2>3. \A k \in 1 .. n - 1 : Prefix(s, n)[k] = s[k]
    BY <1>2, <1>5
  <2>4. Prefix(s, n)[n] = s[n] /\ Prefix(s, n) # << >>
    BY <1>2, <1>5
  <2>5. QED
    BY <2>1, <2>2, <2>3, <2>4
<1>6. QED
  BY <1>1, <1>2, <1>4, <1>5

\* The cell of the table for n characters of s and m of t.
At(s, t, n, m) == Distance(Prefix(s, n), Prefix(t, m))

\* The recurrence, for two prefixes.
LEMMA Recurrence ==
    ASSUME NEW s \in Strings, NEW t \in Strings,
           NEW n \in 1 .. Len(s), NEW m \in 1 .. Len(t)
    PROVE  At(s, t, n, m) =
               Min3(At(s, t, n, m - 1) + 1, At(s, t, n - 1, m) + 1,
                    At(s, t, n - 1, m - 1) + (IF s[n] = t[m] THEN 0 ELSE 1))
<1> DEFINE u == Prefix(s, n)
           v == Prefix(t, m)
<1>1. /\ u \in Strings /\ u # << >> /\ Len(u) = n /\ u[n] = s[n]
      /\ Prefix(u, n - 1) = Prefix(s, n - 1)
  BY PrefixFacts, n \in 0 .. Len(s), n > 0
<1>2. /\ v \in Strings /\ v # << >> /\ Len(v) = m /\ v[m] = t[m]
      /\ Prefix(v, m - 1) = Prefix(t, m - 1)
  BY PrefixFacts, m \in 0 .. Len(t), m > 0
<1> HIDE DEF u, v
<1>3. Distance(u, v) =
          Min3(Distance(u, Prefix(v, Len(v) - 1)) + 1,
               Distance(Prefix(u, Len(u) - 1), v) + 1,
               Distance(Prefix(u, Len(u) - 1), Prefix(v, Len(v) - 1))
                   + (IF u[Len(u)] = v[Len(v)] THEN 0 ELSE 1))
  BY <1>1, <1>2, DistanceAssumption
<1>4. QED
  BY <1>1, <1>2, <1>3 DEF u, v, At

\* The distances from and to the empty string, and their type.
LEMMA DistanceFacts ==
    ASSUME NEW s \in Strings, NEW t \in Strings,
           NEW n \in 0 .. Len(s), NEW m \in 0 .. Len(t)
    PROVE  /\ At(s, t, n, m) \in Nat
           /\ n = 0 => At(s, t, n, m) = m
           /\ m = 0 => At(s, t, n, m) = n
<1> DEFINE u == Prefix(s, n)
           v == Prefix(t, m)
<1>1. u \in Strings /\ Len(u) = n /\ (n = 0 => u = << >>)
  BY PrefixFacts
<1>2. v \in Strings /\ Len(v) = m /\ (m = 0 => v = << >>)
  BY PrefixFacts
<1> HIDE DEF u, v
<1>3. /\ Distance(u, v) \in Nat
      /\ u = << >> => Distance(u, v) = Len(v)
      /\ v = << >> => Distance(u, v) = Len(u)
  BY <1>1, <1>2, DistanceAssumption
<1>4. QED
  BY <1>1, <1>2, <1>3 DEF u, v, At

\* A neighbouring cell is larger by 1 at most,
LEMMA GrowsByOne ==
    ASSUME NEW s \in Strings, NEW t \in Strings,
           NEW n \in 0 .. Len(s), NEW m \in 0 .. Len(t)
    PROVE  /\ n > 0 => At(s, t, n, m) <= At(s, t, n - 1, m) + 1
           /\ m > 0 => At(s, t, n, m) <= At(s, t, n, m - 1) + 1
<1>1. Len(s) \in Nat /\ Len(t) \in Nat
  BY StringsAssumption
<1>2. ASSUME n > 0, m > 0
      PROVE  /\ At(s, t, n, m) <= At(s, t, n - 1, m) + 1
             /\ At(s, t, n, m) <= At(s, t, n, m - 1) + 1
  <2> DEFINE paid == IF s[n] = t[m] THEN 0 ELSE 1
  <2>1. At(s, t, n, m) =
            Min3(At(s, t, n, m - 1) + 1, At(s, t, n - 1, m) + 1,
                 At(s, t, n - 1, m - 1) + paid)
    BY <1>1, <1>2, Recurrence
  <2>2. paid \in Nat
    OBVIOUS
  <2> HIDE DEF paid
  <2>3. n - 1 \in 0 .. Len(s) /\ m - 1 \in 0 .. Len(t)
    BY <1>1, <1>2
  <2>4. /\ At(s, t, n, m - 1) \in Nat /\ At(s, t, n - 1, m) \in Nat
        /\ At(s, t, n - 1, m - 1) \in Nat
    BY <2>3, DistanceFacts
  <2> QED
    BY <2>1, <2>2, <2>4 DEF Min3
<1>3. ASSUME n > 0, m = 0
      PROVE  At(s, t, n, m) <= At(s, t, n - 1, m) + 1
  <2>1. At(s, t, n, m) = n /\ At(s, t, n - 1, m) = n - 1
    BY <1>1, <1>3, DistanceFacts
  <2> QED
    BY <2>1
<1>4. ASSUME n = 0, m > 0
      PROVE  At(s, t, n, m) <= At(s, t, n, m - 1) + 1
  <2>1. At(s, t, n, m) = m /\ At(s, t, n, m - 1) = m - 1
    BY <1>1, <1>4, DistanceFacts
  <2> QED
    BY <2>1
<1> QED
  BY <1>1, <1>2, <1>3, <1>4

\* and smaller by 1 at most: along t,
LEMMA ShrinksAlong ==
    ASSUME NEW s \in Strings, NEW t \in Strings,
           NEW n \in 1 .. Len(s), NEW m \in 0 .. Len(t)
    PROVE  At(s, t, n - 1, m) <= At(s, t, n, m) + 1
<1> DEFINE T == {k \in 0 .. Len(t) : At(s, t, n - 1, k) <= At(s, t, n, k) + 1}
<1>1. Len(s) \in Nat /\ Len(t) \in Nat /\ n - 1 \in 0 .. Len(s) /\ n \in 0 .. Len(s)
  BY StringsAssumption
<1>2. 0 \in T
  <2>1. 0 \in 0 .. Len(t)
    BY <1>1
  <2>2. \A k \in 0 .. Len(s) : At(s, t, k, 0) = k
    BY <2>1, DistanceFacts
  <2> QED
    BY <1>1, <2>1, <2>2
<1>3. ASSUME NEW k \in 0 .. Len(t) - 1, k \in T
      PROVE  k + 1 \in T
  <2> DEFINE paid == IF s[n] = t[k + 1] THEN 0 ELSE 1
  <2>1. k + 1 \in 1 .. Len(t) /\ (k + 1) - 1 = k /\ k \in 0 .. Len(t)
        /\ k + 1 \in 0 .. Len(t)
    BY <1>1
  <2>2. At(s, t, n, k + 1) =
            Min3(At(s, t, n, k) + 1, At(s, t, n - 1, k + 1) + 1,
                 At(s, t, n - 1, k) + paid)
    BY <2>1, Recurrence
  <2>3. At(s, t, n - 1, k + 1) <= At(s, t, n - 1, k) + 1
    BY <1>1, <2>1, GrowsByOne
  <2>4. At(s, t, n - 1, k) <= At(s, t, n, k) + 1
    BY <1>3
  <2>5. /\ At(s, t, n, k) \in Nat /\ At(s, t, n - 1, k + 1) \in Nat
        /\ At(s, t, n - 1, k) \in Nat /\ paid \in Nat
    BY <1>1, <2>1, DistanceFacts
  <2> HIDE DEF paid
  <2>6. At(s, t, n - 1, k + 1) <= At(s, t, n, k + 1) + 1
    BY <2>2, <2>3, <2>4, <2>5 DEF Min3
  <2> QED
    BY <2>1, <2>6
<1>4. 0 .. Len(t) \subseteq T
  <2> HIDE DEF T
  <2> QED
    BY <1>1, <1>2, <1>3, InductionTo
<1> QED
  BY <1>4

\* and along s.
LEMMA ShrinksDown ==
    ASSUME NEW s \in Strings, NEW t \in Strings,
           NEW n \in 0 .. Len(s), NEW m \in 1 .. Len(t)
    PROVE  At(s, t, n, m - 1) <= At(s, t, n, m) + 1
<1> DEFINE T == {k \in 0 .. Len(s) : At(s, t, k, m - 1) <= At(s, t, k, m) + 1}
<1>1. Len(s) \in Nat /\ Len(t) \in Nat /\ m - 1 \in 0 .. Len(t) /\ m \in 0 .. Len(t)
  BY StringsAssumption
<1>2. 0 \in T
  <2>1. 0 \in 0 .. Len(s)
    BY <1>1
  <2>2. At(s, t, 0, m - 1) = m - 1 /\ At(s, t, 0, m) = m
    BY <1>1, <2>1, DistanceFacts
  <2> QED
    BY <1>1, <2>1, <2>2
<1>3. ASSUME NEW k \in 0 .. Len(s) - 1, k \in T
      PROVE  k + 1 \in T
  <2> DEFINE paid == IF s[k + 1] = t[m] THEN 0 ELSE 1
  <2>1. k + 1 \in 1 .. Len(s) /\ (k + 1) - 1 = k /\ k \in 0 .. Len(s)
        /\ k + 1 \in 0 .. Len(s)
    BY <1>1
  <2>2. At(s, t, k + 1, m) =
            Min3(At(s, t, k + 1, m - 1) + 1, At(s, t, k, m) + 1,
                 At(s, t, k, m - 1) + paid)
    BY <2>1, Recurrence
  <2>3. At(s, t, k + 1, m - 1) <= At(s, t, k, m - 1) + 1
    BY <1>1, <2>1, GrowsByOne
  <2>4. At(s, t, k, m - 1) <= At(s, t, k, m) + 1
    BY <1>3
  <2>5. /\ At(s, t, k + 1, m - 1) \in Nat /\ At(s, t, k, m) \in Nat
        /\ At(s, t, k, m - 1) \in Nat /\ paid \in Nat
    BY <1>1, <2>1, DistanceFacts
  <2> HIDE DEF paid
  <2>6. At(s, t, k + 1, m - 1) <= At(s, t, k + 1, m) + 1
    BY <2>2, <2>3, <2>4, <2>5 DEF Min3
  <2> QED
    BY <2>1, <2>6
<1>4. 0 .. Len(s) \subseteq T
  <2> HIDE DEF T
  <2> QED
    BY <1>1, <1>2, <1>3, InductionTo
<1> QED
  BY <1>4

\* The short cut of levenshtein_new: equal characters cost nothing.
LEMMA EqualCharacters ==
    ASSUME NEW s \in Strings, NEW t \in Strings,
           NEW n \in 1 .. Len(s), NEW m \in 1 .. Len(t), s[n] = t[m]
    PROVE  At(s, t, n, m) = At(s, t, n - 1, m - 1)
<1>1. /\ Len(s) \in Nat /\ Len(t) \in Nat
      /\ n - 1 \in 0 .. Len(s) /\ n \in 0 .. Len(s)
      /\ m - 1 \in 0 .. Len(t) /\ m \in 0 .. Len(t)
  BY StringsAssumption
<1>2. At(s, t, n, m) = Min3(At(s, t, n, m - 1) + 1, At(s, t, n - 1, m) + 1,
                            At(s, t, n - 1, m - 1) + 0)
  BY Recurrence
<1>3. At(s, t, n - 1, m - 1) <= At(s, t, n, m - 1) + 1
  BY <1>1, ShrinksAlong
<1>4. At(s, t, n - 1, m - 1) <= At(s, t, n - 1, m) + 1
  BY <1>1, ShrinksDown
<1>5. /\ At(s, t, n, m - 1) \in Nat /\ At(s, t, n - 1, m) \in Nat
      /\ At(s, t, n - 1, m - 1) \in Nat
  BY <1>1, DistanceFacts
<1> QED
  BY <1>2, <1>3, <1>4, <1>5 DEF Min3

\* The last cell is the distance of the strings.
LEMMA LastCell ==
    ASSUME NEW s \in Strings, NEW t \in Strings
    PROVE  At(s, t, Len(s), Len(t)) = Distance(s, t)
<1>1. s \in Seq(Bit) /\ t \in Seq(Bit)
  BY StringsAssumption
<1>2. Prefix(s, Len(s)) = s /\ Prefix(t, Len(t)) = t
  BY <1>1 DEF Prefix
<1> QED
  BY <1>2 DEF At

-----------------------------------------------------------------------------
(* levenshtein_new: the table itself.                                       *)

Cells(s, t, n) == [m \in 0 .. Len(t) |-> At(s, t, n, m)]

LEMMA RowIsCells ==
    ASSUME NEW s \in Strings, NEW t \in Strings, NEW n \in 1 .. Len(s)
    PROVE  Row(s, t, n, Cells(s, t, n - 1)) = Cells(s, t, n)
<1> DEFINE above == Cells(s, t, n - 1)
           N == Len(t)
           Defines(r) == r = [j \in 0 .. N |->
                          IF j = 0 THEN n
                          ELSE IF s[n] = t[j] THEN above[j - 1]
                          ELSE 1 + find_min(r[j - 1], above[j], above[j - 1])]
           cells == Cells(s, t, n)
           u == CHOOSE r : Defines(r)
<1>1. /\ Len(s) \in Nat /\ N \in Nat
      /\ n \in Nat /\ n \in 0 .. Len(s) /\ n - 1 \in 0 .. Len(s)
  BY StringsAssumption
<1>2. Row(s, t, n, above) = u
  BY DEF Row
<1>3. ASSUME NEW j \in 1 .. N
      PROVE  At(s, t, n, j) =
                 IF s[n] = t[j] THEN At(s, t, n - 1, j - 1)
                 ELSE 1 + find_min(At(s, t, n, j - 1), At(s, t, n - 1, j),
                                   At(s, t, n - 1, j - 1))
  <2>1. CASE s[n] = t[j]
    BY <2>1, EqualCharacters
  <2>2. CASE s[n] # t[j]
    <3>1. At(s, t, n, j) =
              Min3(At(s, t, n, j - 1) + 1, At(s, t, n - 1, j) + 1,
                   At(s, t, n - 1, j - 1) + 1)
      BY <2>2, Recurrence
    <3>2. j \in 0 .. N /\ j - 1 \in 0 .. N
      BY <1>1
    <3>3. /\ At(s, t, n, j - 1) \in Nat /\ At(s, t, n - 1, j) \in Nat
          /\ At(s, t, n - 1, j - 1) \in Nat
      BY <1>1, <3>2, DistanceFacts
    <3> QED
      BY <2>2, <3>1, <3>3 DEF Min3, find_min
  <2> QED
    BY <2>1, <2>2
<1>4. /\ At(s, t, n, 0) = n
      /\ \A j \in 0 .. N : above[j] = At(s, t, n - 1, j)
      /\ \A j \in 0 .. N : cells[j] = At(s, t, n, j)
  <2>1. 0 \in 0 .. N
    BY <1>1
  <2>2. At(s, t, n, 0) = n
    BY <1>1, <2>1, DistanceFacts
  <2> QED
    BY <2>2 DEF Cells
<1> HIDE DEF above, u
<1>5. Defines(cells)
  <2>1. ASSUME NEW j \in 0 .. N
        PROVE  cells[j] = IF j = 0 THEN n
                          ELSE IF s[n] = t[j] THEN above[j - 1]
                          ELSE 1 + find_min(cells[j - 1], above[j], above[j - 1])
    <3>1. CASE j = 0
      BY <1>4, <3>1
    <3>2. CASE j # 0
      <4>1. j \in 1 .. N /\ j - 1 \in 0 .. N
        BY <1>1, <3>2
      <4> QED
        BY <1>3, <1>4, <3>2, <4>1
    <3> QED
      BY <3>1, <3>2
  <2>2. cells = [j \in 0 .. N |-> cells[j]]
    BY DEF Cells
  <2> HIDE DEF cells
  <2> QED
    BY <2>1, <2>2
<1> HIDE DEF cells
<1>6. Defines(u)
  BY <1>5 DEF u
<1> DEFINE T == {j \in 0 .. N : u[j] = cells[j]}
<1>7. 0 \in T
  BY <1>1, <1>4, <1>6
<1>8. ASSUME NEW j \in 0 .. N - 1, j \in T PROVE j + 1 \in T
  <2>1. j + 1 \in 0 .. N /\ j + 1 # 0 /\ (j + 1) - 1 = j
    BY <1>1
  <2>2. /\ u[j + 1] = IF s[n] = t[j + 1] THEN above[j]
                      ELSE 1 + find_min(u[j], above[j + 1], above[j])
        /\ cells[j + 1] = IF s[n] = t[j + 1] THEN above[j]
                          ELSE 1 + find_min(cells[j], above[j + 1], above[j])
    BY <1>5, <1>6, <2>1
  <2> QED
    BY <1>8, <2>1, <2>2
<1>9. 0 .. N \subseteq T
  <2> HIDE DEF T
  <2> QED
    BY <1>1, <1>7, <1>8, InductionTo
<1>10. u = cells
  BY <1>5, <1>6, <1>9
<1> QED
  BY <1>2, <1>10 DEF above, cells

\* levenshtein_new returns the edit distance.
LEMMA NewIsDistance ==
    ASSUME NEW s \in Strings, NEW t \in Strings
    PROVE  levenshtein_new(s, t) = Distance(s, t)
<1> DEFINE N == Len(s)
           Defines(d) == d = [i \in 0 .. N |->
                          IF i = 0 THEN [j \in 0 .. Len(t) |-> j]
                          ELSE Row(s, t, i, d[i - 1])]
           table == [i \in 0 .. N |-> Cells(s, t, i)]
           u == CHOOSE d : Defines(d)
<1>1. N \in Nat /\ Len(t) \in Nat
  BY StringsAssumption
<1>2. levenshtein_new(s, t) = u[N][Len(t)]
  BY DEF levenshtein_new
<1>3. Cells(s, t, 0) = [j \in 0 .. Len(t) |-> j]
  <2>1. 0 \in 0 .. N
    BY <1>1
  <2>2. \A j \in 0 .. Len(t) : At(s, t, 0, j) = j
    BY <2>1, DistanceFacts
  <2> QED
    BY <2>2 DEF Cells
<1> HIDE DEF u
<1>4. Defines(table)
  <2>1. ASSUME NEW i \in 0 .. N
        PROVE  Cells(s, t, i) = IF i = 0 THEN [j \in 0 .. Len(t) |-> j]
                                ELSE Row(s, t, i, table[i - 1])
    <3>1. CASE i = 0
      BY <1>3, <3>1
    <3>2. CASE i # 0
      <4>1. i \in 1 .. N /\ i - 1 \in 0 .. N
        BY <1>1, <3>2
      <4>2. table[i - 1] = Cells(s, t, i - 1)
        BY <4>1
      <4> QED
        BY <3>2, <4>1, <4>2, RowIsCells
    <3> QED
      BY <3>1, <3>2
  <2>2. table = [i \in 0 .. N |-> Cells(s, t, i)]
    OBVIOUS
  <2> HIDE DEF table
  <2> QED
    BY <2>1, <2>2
<1>5. Defines(u)
  <2> HIDE DEF table
  <2> QED
    BY <1>4 DEF u
<1> DEFINE T == {i \in 0 .. N : u[i] = Cells(s, t, i)}
<1>6. 0 \in T
  BY <1>1, <1>3, <1>5
<1>7. ASSUME NEW i \in 0 .. N - 1, i \in T PROVE i + 1 \in T
  <2>1. i + 1 \in 1 .. N /\ i + 1 \in 0 .. N /\ i + 1 # 0 /\ (i + 1) - 1 = i
    BY <1>1
  <2>2. u[i + 1] = Row(s, t, i + 1, u[i])
    BY <1>5, <2>1
  <2>3. Row(s, t, i + 1, Cells(s, t, i)) = Cells(s, t, i + 1)
    BY <2>1, RowIsCells
  <2> QED
    BY <1>7, <2>1, <2>2, <2>3
<1>8. 0 .. N \subseteq T
  <2> HIDE DEF T
  <2> QED
    BY <1>1, <1>6, <1>7, InductionTo
<1>9. u[N] = Cells(s, t, N)
  BY <1>1, <1>8
<1>10. Cells(s, t, N)[Len(t)] = At(s, t, N, Len(t))
  BY <1>1 DEF Cells
<1> QED
  BY <1>2, <1>9, <1>10, LastCell

-----------------------------------------------------------------------------
(* levenshtein_orig: the frames of its loops.                               *)

Frames(s, t) == [x : 0 .. Len(t), y : 1 .. Len(s) + 1, lastdiag : Nat,
                 column : [0 .. Len(s) -> Nat]]

\* The column of a frame stands for two of the table (ColumnIsTable).
Good(s, t, f) ==
    /\ f \in Frames(s, t)
    /\ f.x = 0 => f = Begin(s)
    /\ f.x > 0 =>
          /\ \A k \in 0 .. Len(s) :
                f.column[k] = At(s, t, k, IF k < f.y THEN f.x ELSE f.x - 1)
          /\ f.y <= Len(s) => f.lastdiag = At(s, t, f.y - 1, f.x - 1)

LEMMA BeginIsGood ==
    ASSUME NEW s \in Strings, NEW t \in Strings
    PROVE  Good(s, t, Begin(s))
<1>1. Len(s) \in Nat /\ Len(t) \in Nat
  BY StringsAssumption
<1> QED
  BY <1>1 DEF Begin, Good, Frames

\* The turn to the next column: what was the column becomes the one before.
LEMMA NextColumnIsGood ==
    ASSUME NEW s \in Strings, NEW t \in Strings, NEW f, Good(s, t, f),
           f.y > Len(s), f.x # Len(t)
    PROVE  Good(s, t, NextColumn(f))
<1> DEFINE g == NextColumn(f)
<1>1. /\ Len(s) \in Nat /\ Len(t) \in Nat
      /\ f.x \in 0 .. Len(t) - 1 /\ f.x + 1 \in 0 .. Len(t) /\ f.x \in 0 .. Len(t)
      /\ f.y = Len(s) + 1 /\ f.column \in [0 .. Len(s) -> Nat] /\ f.x \in Nat
  BY StringsAssumption DEF Good, Frames
<1>2. /\ g.x = f.x + 1 /\ g.y = 1 /\ g.lastdiag = f.x
      /\ g.column = [f.column EXCEPT ![0] = f.x + 1]
      /\ g \in Frames(s, t)
  BY <1>1 DEF NextColumn, Frames
<1> HIDE DEF g
<1>3. \A k \in 0 .. Len(s) : f.column[k] = At(s, t, k, f.x)
  <2> SUFFICES ASSUME NEW k \in 0 .. Len(s)
               PROVE  f.column[k] = At(s, t, k, f.x)
    OBVIOUS
  <2>1. CASE f.x = 0
    <3>1. f.column[k] = k
      BY <2>1 DEF Good, Begin
    <3>2. At(s, t, k, 0) = k
      BY <1>1, <2>1, DistanceFacts
    <3> QED
      BY <2>1, <3>1, <3>2
  <2>2. CASE f.x > 0
    BY <1>1, <2>2 DEF Good
  <2> QED
    BY <1>1, <2>1, <2>2
<1>4. \A k \in 0 .. Len(s) :
          g.column[k] = At(s, t, k, IF k < 1 THEN f.x + 1 ELSE f.x)
  <2>1. At(s, t, 0, f.x + 1) = f.x + 1
    <3>1. 0 \in 0 .. Len(s)
      BY <1>1
    <3> QED
      BY <1>1, <3>1, DistanceFacts
  <2> QED
    BY <1>1, <1>2, <1>3, <2>1
<1>5. g.lastdiag = At(s, t, 0, f.x)
  <2>1. 0 \in 0 .. Len(s)
    BY <1>1
  <2> QED
    BY <1>1, <1>2, <2>1, DistanceFacts
<1>6. g.x # 0 /\ g.x - 1 = f.x /\ g.y - 1 = 0
  BY <1>1, <1>2
<1> QED
  BY <1>2, <1>4, <1>5, <1>6 DEF Good, g

\* One cell: the three cells it needs are still at hand.
LEMMA CellIsGood ==
    ASSUME NEW s \in Strings, NEW t \in Strings, NEW f, Good(s, t, f),
           ~ (f.y > Len(s))
    PROVE  Good(s, t, Cell(s, t, f))
<1> DEFINE x == f.x
           y == f.y
           paid == IF s[y] = t[x] THEN 0 ELSE 1
           new == Min3(f.column[y] + 1, f.column[y - 1] + 1, f.lastdiag + paid)
           g == Cell(s, t, f)
<1>1. /\ Len(s) \in Nat /\ Len(t) \in Nat /\ f \in Frames(s, t)
      /\ x \in 0 .. Len(t) /\ y \in 1 .. Len(s) /\ y - 1 \in 0 .. Len(s)
      /\ f.lastdiag \in Nat /\ f.column \in [0 .. Len(s) -> Nat]
  BY StringsAssumption DEF Good, Frames
<1>2. x \in 1 .. Len(t)
  <2>1. x # 0
    BY <1>1 DEF Good, Begin
  <2> QED
    BY <1>1, <2>1
<1>3. g = [x |-> x, y |-> y + 1, lastdiag |-> f.column[y],
           column |-> [f.column EXCEPT ![y] = new]]
  BY DEF Cell
<1>4. paid \in Nat
  OBVIOUS
<1>5. /\ \A k \in 0 .. Len(s) :
            f.column[k] = At(s, t, k, IF k < y THEN x ELSE x - 1)
      /\ f.lastdiag = At(s, t, y - 1, x - 1)
  BY <1>1, <1>2 DEF Good
<1>6. /\ f.column[y] = At(s, t, y, x - 1) /\ f.column[y - 1] = At(s, t, y - 1, x)
      /\ f.column[y] \in Nat /\ f.column[y - 1] \in Nat
  BY <1>1, <1>5
<1>7. new = At(s, t, y, x)
  <2>1. At(s, t, y, x) = Min3(At(s, t, y, x - 1) + 1, At(s, t, y - 1, x) + 1,
                              At(s, t, y - 1, x - 1) + paid)
    BY <1>1, <1>2, Recurrence
  <2> HIDE DEF paid
  <2> QED
    BY <2>1, <1>5, <1>6
<1>8. new \in Nat
  <2> HIDE DEF paid
  <2>1. /\ f.column[y] + 1 \in Nat /\ f.column[y - 1] + 1 \in Nat
        /\ f.lastdiag + paid \in Nat
    BY <1>1, <1>4, <1>6
  <2>2. \A a, b, c \in Nat : Min3(a, b, c) \in Nat
    BY DEF Min3
  <2> QED
    BY <2>1, <2>2
<1> HIDE DEF new, g
<1>9. /\ g.x = x /\ g.y = y + 1 /\ g.lastdiag = f.column[y]
      /\ g.column = [f.column EXCEPT ![y] = new]
  BY <1>3
<1>10. g \in Frames(s, t)
  <2>1. [f.column EXCEPT ![y] = new] \in [0 .. Len(s) -> Nat]
        /\ y + 1 \in 1 .. Len(s) + 1
    BY <1>1, <1>8
  <2> QED
    BY <1>1, <1>3, <1>6, <2>1 DEF Frames
<1>11. \A k \in 0 .. Len(s) :
          g.column[k] = At(s, t, k, IF k < y + 1 THEN x ELSE x - 1)
  <2> SUFFICES ASSUME NEW k \in 0 .. Len(s)
               PROVE  g.column[k] = At(s, t, k, IF k < y + 1 THEN x ELSE x - 1)
    OBVIOUS
  <2>1. CASE k = y
    BY <1>1, <1>7, <1>9, <2>1
  <2>2. CASE k # y
    <3>1. g.column[k] = f.column[k] /\ (k < y) = (k < y + 1)
      BY <1>1, <1>9, <2>2
    <3> QED
      BY <1>5, <3>1
  <2> QED
    BY <2>1, <2>2
<1>12. g.lastdiag = At(s, t, y, x - 1) /\ g.x # 0 /\ g.y - 1 = y
  BY <1>1, <1>2, <1>6, <1>9
<1> QED
  BY <1>9, <1>10, <1>11, <1>12 DEF Good, g

LEMMA AdvanceIsGood ==
    ASSUME NEW s \in Strings, NEW t \in Strings, NEW f, Good(s, t, f),
           ~ Finished(s, t, f)
    PROVE  Good(s, t, Advance(s, t, f))
BY NextColumnIsGood, CellIsGood DEF Advance, Finished

\* J is a set of frames the loops do not leave.
Kept(s, t, J) ==
    /\ J \subseteq Frames(s, t)
    /\ \A f \in J : ~ Finished(s, t, f) => Advance(s, t, f) \in J

\* The inner loop is one turn to the next column and one cell after the other.
LEMMA PassKeeps ==
    ASSUME NEW s \in Seq(Bit), NEW t \in Seq(Bit), NEW J, Kept(s, t, J),
           NEW f \in J, f.y = Len(s) + 1, f.x < Len(t)
    PROVE  LET g == Pass(s, t, f)
           IN  g \in J /\ g.x = f.x + 1 /\ g.y = Len(s) + 1
<1> DEFINE N == Len(s)
           base == NextColumn(f)
           Defines(v) == v = [y \in 0 .. N |-> IF y = 0 THEN base
                                         ELSE Cell(s, t, v[y - 1])]
           u == CHOOSE v : Defines(v)
           step == [k \in 1 .. N |->
                       [g \in J |-> IF g.y = k THEN Cell(s, t, g) ELSE g]]
           R(v) == {k \in 0 .. N : v[k] \in J /\ v[k].x = f.x + 1
                                  /\ v[k].y = k + 1}
<1>1. N \in Nat /\ Len(t) \in Nat
  OBVIOUS
<1>2. f.x \in Nat /\ \A g \in J : g.x \in 0 .. Len(t) /\ g.y \in 1 .. N + 1
  BY <1>1 DEF Kept, Frames
<1>3. base \in J /\ base.x = f.x + 1 /\ base.y = 1
  <2>1. ~ Finished(s, t, f) /\ Advance(s, t, f) = base
    BY <1>1, <1>2 DEF Finished, Advance
  <2>2. base.x = f.x + 1 /\ base.y = 1
    BY DEF NextColumn
  <2> QED
    BY <2>1, <2>2 DEF Kept
<1>4. ASSUME NEW g \in J, g.y <= N
      PROVE  Cell(s, t, g) \in J /\ Cell(s, t, g).x = g.x
             /\ Cell(s, t, g).y = g.y + 1
  <2>1. ~ Finished(s, t, g) /\ Advance(s, t, g) = Cell(s, t, g)
    BY <1>1, <1>2, <1>4 DEF Finished, Advance
  <2>2. Cell(s, t, g).x = g.x /\ Cell(s, t, g).y = g.y + 1
    BY DEF Cell
  <2> QED
    BY <2>1, <2>2 DEF Kept
<1>5. Pass(s, t, f) = u[N]
  BY DEF Pass
<1> HIDE DEF u, base
<1>6. \E v : Defines(v)
  <2>1. step \in [1 .. N -> [J -> J]]
    BY <1>1, <1>2, <1>4
  <2>2. PICK v : Recurs(v, J, base, step, N)
    <3> HIDE DEF step
    <3> QED
      BY <1>1, <1>3, <2>1, Recursion
  <2>3. v \in [0 .. N -> J] /\ v[0] = base
    BY <2>2 DEF Recurs
  <2>4. ASSUME NEW k \in 1 .. N
        PROVE  v[k] = IF v[k - 1].y = k THEN Cell(s, t, v[k - 1]) ELSE v[k - 1]
    <3>1. v[k - 1] \in J
      BY <1>1, <2>3
    <3>2. v[k] = step[k][v[k - 1]]
      BY <2>2 DEF Recurs
    <3> QED
      BY <3>1, <3>2
  <2>5. 0 \in R(v)
    BY <1>1, <1>3, <2>3
  <2>6. ASSUME NEW k \in 0 .. N - 1, k \in R(v) PROVE k + 1 \in R(v)
    <3>1. k + 1 \in 1 .. N /\ k + 1 \in 0 .. N /\ (k + 1) - 1 = k
      BY <1>1
    <3>2. v[k + 1] = Cell(s, t, v[k])
      BY <2>4, <2>6, <3>1
    <3> QED
      BY <1>1, <1>4, <2>6, <3>1, <3>2
  <2>7. 0 .. N \subseteq R(v)
    <3> HIDE DEF R
    <3> QED
      BY <1>1, <2>5, <2>6, InductionTo
  <2>8. ASSUME NEW k \in 1 .. N PROVE v[k] = Cell(s, t, v[k - 1])
    <3>1. k - 1 \in R(v)
      BY <1>1, <2>7
    <3> QED
      BY <1>1, <2>4, <3>1
  <2> QED
    BY <1>1, <2>3, <2>8
<1>7. Defines(u)
  BY <1>6 DEF u
<1>8. 0 \in R(u)
  BY <1>1, <1>3, <1>7
<1>9. ASSUME NEW k \in 0 .. N - 1, k \in R(u) PROVE k + 1 \in R(u)
  <2>1. k + 1 \in 0 .. N /\ k + 1 # 0 /\ (k + 1) - 1 = k /\ k + 1 <= N
    BY <1>1
  <2>2. u[k + 1] = Cell(s, t, u[k])
    BY <1>7, <2>1
  <2> QED
    BY <1>1, <1>4, <1>9, <2>1, <2>2
<1>10. 0 .. N \subseteq R(u)
  <2> HIDE DEF R
  <2> QED
    BY <1>1, <1>8, <1>9, InductionTo
<1> QED
  BY <1>1, <1>5, <1>10

\* levenshtein runs Advance until the frame is finished.
LEMMA LoopRuns ==
    ASSUME NEW s \in Seq(Bit), NEW t \in Seq(Bit), NEW J, Kept(s, t, J),
           Begin(s) \in J
    PROVE  \E g \in J : /\ g.x = Len(t) /\ g.y = Len(s) + 1
                        /\ levenshtein(s, t) = g.column[Len(s)]
<1> DEFINE L == Len(t)
           base == Begin(s)
           Defines(v) == v = [x \in 0 .. L |->
                          IF x = 0 THEN base
                          ELSE LET f == v[x - 1]
                               IN  IF Finished(s, t, f) THEN f ELSE Pass(s, t, f)]
           u == CHOOSE v : Defines(v)
           step == [k \in 1 .. L |->
                       [g \in J |-> IF g.y = Len(s) + 1 /\ g.x = k - 1
                                    THEN Pass(s, t, g) ELSE g]]
           R(v) == {k \in 0 .. L : v[k] \in J /\ v[k].x = k
                                  /\ v[k].y = Len(s) + 1}
<1>1. Len(s) \in Nat /\ L \in Nat
  OBVIOUS
<1>2. base \in J /\ base.x = 0 /\ base.y = Len(s) + 1
  BY DEF Begin
<1>3. ASSUME NEW g \in J, g.y = Len(s) + 1, g.x < L, g.x \in Nat
      PROVE  /\ ~ Finished(s, t, g)
             /\ Pass(s, t, g) \in J /\ Pass(s, t, g).x = g.x + 1
             /\ Pass(s, t, g).y = Len(s) + 1
  BY <1>1, <1>3, PassKeeps DEF Finished
<1>4. levenshtein(s, t) = u[L].column[Len(s)]
  BY DEF levenshtein
<1> HIDE DEF u, base
<1>5. \E v : Defines(v)
  <2>1. step \in [1 .. L -> [J -> J]]
    BY <1>1, <1>3
  <2>2. PICK v : Recurs(v, J, base, step, L)
    <3> HIDE DEF step
    <3> QED
      BY <1>1, <1>2, <2>1, Recursion
  <2>3. v \in [0 .. L -> J] /\ v[0] = base
    BY <2>2 DEF Recurs
  <2>4. ASSUME NEW k \in 1 .. L
        PROVE  v[k] = IF v[k - 1].y = Len(s) + 1 /\ v[k - 1].x = k - 1
                      THEN Pass(s, t, v[k - 1]) ELSE v[k - 1]
    <3>1. v[k - 1] \in J
      BY <1>1, <2>3
    <3>2. v[k] = step[k][v[k - 1]]
      BY <2>2 DEF Recurs
    <3> QED
      BY <3>1, <3>2
  <2>5. 0 \in R(v)
    BY <1>1, <1>2, <2>3
  <2>6. ASSUME NEW k \in 0 .. L - 1, k \in R(v) PROVE k + 1 \in R(v)
    <3>1. k + 1 \in 1 .. L /\ k + 1 \in 0 .. L /\ (k + 1) - 1 = k
      BY <1>1
    <3>2. v[k + 1] = Pass(s, t, v[k])
      BY <2>4, <2>6, <3>1
    <3> QED
      BY <1>1, <1>3, <2>6, <3>1, <3>2
  <2>7. 0 .. L \subseteq R(v)
    <3> HIDE DEF R
    <3> QED
      BY <1>1, <2>5, <2>6, InductionTo
  <2>8. ASSUME NEW k \in 1 .. L
        PROVE  v[k] = LET f == v[k - 1]
                      IN  IF Finished(s, t, f) THEN f ELSE Pass(s, t, f)
    <3>1. k - 1 \in R(v) /\ k - 1 \in Nat /\ k - 1 < L
      BY <1>1, <2>7
    <3>2. ~ Finished(s, t, v[k - 1]) /\ v[k] = Pass(s, t, v[k - 1])
      BY <1>3, <2>4, <3>1
    <3> QED
      BY <3>2
  <2> QED
    BY <1>1, <2>3, <2>8
<1>6. Defines(u)
  BY <1>5 DEF u
<1>7. 0 \in R(u)
  BY <1>1, <1>2, <1>6
<1>8. ASSUME NEW k \in 0 .. L - 1, k \in R(u) PROVE k + 1 \in R(u)
  <2>1. k + 1 \in 0 .. L /\ k + 1 # 0 /\ (k + 1) - 1 = k /\ k < L /\ k \in Nat
    BY <1>1
  <2>2. u[k + 1] = IF Finished(s, t, u[k]) THEN u[k] ELSE Pass(s, t, u[k])
    BY <1>6, <2>1
  <2> QED
    BY <1>1, <1>3, <1>8, <2>1, <2>2
<1>9. 0 .. L \subseteq R(u)
  <2> HIDE DEF R
  <2> QED
    BY <1>1, <1>7, <1>8, InductionTo
<1> QED
  BY <1>1, <1>4, <1>9

\* levenshtein_orig returns the edit distance (levenshtein-new.c:280).
LEMMA OrigIsDistance ==
    ASSUME NEW s \in Strings, NEW t \in Strings
    PROVE  levenshtein(s, t) = Distance(s, t)
<1> DEFINE J == {f \in Frames(s, t) : Good(s, t, f)}
<1>1. /\ s \in Seq(Bit) /\ t \in Seq(Bit) /\ Len(s) \in Nat /\ Len(t) \in Nat
      /\ Len(s) \in 0 .. Len(s)
  BY StringsAssumption
<1>2. Kept(s, t, J)
  <2>1. ASSUME NEW f \in J, ~ Finished(s, t, f) PROVE Advance(s, t, f) \in J
    <3>1. Good(s, t, Advance(s, t, f))
      BY <2>1, AdvanceIsGood
    <3> QED
      BY <3>1 DEF Good
  <2> QED
    BY <2>1 DEF Kept
<1>3. Begin(s) \in J
  BY BeginIsGood DEF Good
<1> HIDE DEF J
<1>4. PICK g \in J : /\ g.x = Len(t) /\ g.y = Len(s) + 1
                     /\ levenshtein(s, t) = g.column[Len(s)]
  BY <1>1, <1>2, <1>3, LoopRuns
<1>5. Good(s, t, g)
  BY DEF J
<1>6. g.column[Len(s)] = At(s, t, Len(s), Len(t))
  <2>1. CASE Len(t) = 0
    <3>1. g.column[Len(s)] = Len(s)
      BY <1>1, <1>4, <1>5, <2>1 DEF Good, Begin
    <3>2. At(s, t, Len(s), 0) = Len(s)
      BY <1>1, <2>1, DistanceFacts
    <3> QED
      BY <2>1, <3>1, <3>2
  <2>2. CASE Len(t) # 0
    <3>1. g.x > 0 /\ Len(s) < g.y
      BY <1>1, <1>4, <2>2
    <3> QED
      BY <1>1, <1>4, <1>5, <3>1 DEF Good
  <2> QED
    BY <2>1, <2>2
<1> QED
  BY <1>4, <1>6, LastCell

\* No result is larger than both lengths together.
LEMMA ResultBound ==
    ASSUME NEW s \in Seq(Bit), NEW t \in Seq(Bit)
    PROVE  levenshtein(s, t) \in Nat /\ levenshtein(s, t) <= Len(s) + Len(t)
<1> DEFINE J == {f \in Frames(s, t) :
                    \A k \in 0 .. Len(s) : f.column[k] <= f.x + k}
<1>1. Len(s) \in Nat /\ Len(t) \in Nat /\ Len(s) \in 0 .. Len(s)
  OBVIOUS
<1>2. Begin(s) \in J
  BY <1>1 DEF Begin, Frames
<1>3. ASSUME NEW f \in J, ~ Finished(s, t, f)
      PROVE  Advance(s, t, f) \in J
  <2>1. /\ f.x \in 0 .. Len(t) /\ f.y \in 1 .. Len(s) + 1 /\ f.lastdiag \in Nat
        /\ f.column \in [0 .. Len(s) -> Nat] /\ f.x \in Nat
    BY <1>1 DEF Frames
  <2>2. CASE f.y > Len(s)
    <3> DEFINE g == NextColumn(f)
    <3>1. f.x + 1 \in 0 .. Len(t)
      BY <1>1, <1>3, <2>1, <2>2 DEF Finished
    <3>2. /\ g.x = f.x + 1 /\ g.column = [f.column EXCEPT ![0] = f.x + 1]
          /\ g \in Frames(s, t)
      BY <1>1, <2>1, <3>1 DEF NextColumn, Frames
    <3> HIDE DEF g
    <3>3. ASSUME NEW k \in 0 .. Len(s) PROVE g.column[k] <= g.x + k
      <4>1. f.column[k] <= f.x + k /\ f.column[k] \in Nat
        BY <2>1
      <4>2. g.column[k] = IF k = 0 THEN f.x + 1 ELSE f.column[k]
        BY <2>1, <3>2
      <4> QED
        BY <2>1, <3>2, <4>1, <4>2
    <3> QED
      BY <2>2, <3>2, <3>3 DEF Advance, g
  <2>3. CASE ~ (f.y > Len(s))
    <3> DEFINE paid == IF s[f.y] = t[f.x] THEN 0 ELSE 1
               new == Min3(f.column[f.y] + 1, f.column[f.y - 1] + 1,
                           f.lastdiag + paid)
               g == Cell(s, t, f)
    <3>1. f.y \in 0 .. Len(s) /\ f.y - 1 \in 0 .. Len(s) /\ f.y + 1 \in 1 .. Len(s) + 1
      BY <1>1, <2>1, <2>3
    <3>2. /\ f.column[f.y] \in Nat /\ f.column[f.y - 1] \in Nat
          /\ f.column[f.y - 1] <= f.x + (f.y - 1)
      BY <2>1, <3>1
    <3>3. paid \in Nat
      OBVIOUS
    <3>4. new \in Nat /\ new <= f.column[f.y - 1] + 1
      <4>1. /\ f.column[f.y] + 1 \in Nat /\ f.column[f.y - 1] + 1 \in Nat
            /\ f.lastdiag + paid \in Nat
        <5> HIDE DEF paid, new, g
        <5>1. \A a, b \in Nat : a + b \in Nat
          OBVIOUS
        <5> QED
          BY <2>1, <3>2, <3>3, <5>1
      <4>2. \A a, b, c \in Nat : Min3(a, b, c) \in Nat /\ Min3(a, b, c) <= b
        BY DEF Min3
      <4> QED
        BY <4>1, <4>2
    <3>5. g = [x |-> f.x, y |-> f.y + 1, lastdiag |-> f.column[f.y],
               column |-> [f.column EXCEPT ![f.y] = new]]
      BY DEF Cell
    <3> HIDE DEF new, g
    <3>6. g.x = f.x /\ g.column = [f.column EXCEPT ![f.y] = new]
      BY <3>5
    <3>7. [f.column EXCEPT ![f.y] = new] \in [0 .. Len(s) -> Nat]
      BY <2>1, <3>1, <3>4
    <3>8. g \in Frames(s, t)
      BY <2>1, <3>1, <3>2, <3>5, <3>7 DEF Frames
    <3>9. ASSUME NEW k \in 0 .. Len(s) PROVE g.column[k] <= g.x + k
      <4>1. f.column[k] <= f.x + k
        OBVIOUS
      <4>2. CASE k = f.y
        <5>1. g.column[k] = new /\ g.x = f.x /\ k \in Nat
          BY <1>1, <2>1, <3>1, <3>6, <4>2
        <5> DEFINE above == f.column[f.y - 1]
        <5>2. /\ above \in Nat /\ above <= f.x + (f.y - 1)
              /\ new \in Nat /\ new <= above + 1 /\ f.x \in Nat
          BY <2>1, <3>2, <3>4
        <5> HIDE DEF above
        <5>3. f.x + (f.y - 1) + 1 = f.x + k
          BY <4>2, <5>1, <5>2
        <5>4. new <= f.x + k
          BY <2>1, <4>2, <5>1, <5>2, <5>3
        <5> QED
          BY <5>1, <5>4
      <4>3. CASE k # f.y
        BY <2>1, <3>6, <4>1, <4>3
      <4> QED
        BY <4>2, <4>3
    <3> QED
      BY <2>3, <3>8, <3>9 DEF Advance, g
  <2> QED
    BY <2>2, <2>3
<1>4. Kept(s, t, J)
  BY <1>3 DEF Kept
<1> HIDE DEF J
<1>5. PICK g \in J : /\ g.x = Len(t) /\ g.y = Len(s) + 1
                     /\ levenshtein(s, t) = g.column[Len(s)]
  BY <1>2, <1>4, LoopRuns
<1>6. g \in Frames(s, t) /\ g.column[Len(s)] <= g.x + Len(s)
  BY <1>1 DEF J
<1>7. g.column[Len(s)] \in Nat
  BY <1>1, <1>6 DEF Frames
<1> QED
  BY <1>1, <1>5, <1>6, <1>7

\* The zeros of a frame: its cells of equal prefixes.
Agree(s, t, k) == \A i \in 1 .. k : s[i] = t[i]

ZerosRight(s, t, f) ==
    /\ f \in Frames(s, t)
    /\ f.x = 0 => f.y = Len(s) + 1
    /\ \A k \in 0 .. Len(s) :
          f.column[k] = 0 <=>
              k = (IF k < f.y THEN f.x ELSE f.x - 1) /\ Agree(s, t, k)
    /\ f.y <= Len(s) =>
          (f.lastdiag = 0 <=> f.y = f.x /\ Agree(s, t, f.y - 1))

LEMMA ZerosOfNextColumn ==
    ASSUME NEW s \in Seq(Bit), NEW t \in Seq(Bit), NEW f, ZerosRight(s, t, f),
           f.y > Len(s), f.x # Len(t)
    PROVE  ZerosRight(s, t, NextColumn(f))
<1> DEFINE g == NextColumn(f)
<1>1. /\ Len(s) \in Nat /\ Len(t) \in Nat
      /\ f.x \in 0 .. Len(t) - 1 /\ f.x + 1 \in 0 .. Len(t) /\ f.x \in Nat
      /\ f.y = Len(s) + 1 /\ f.column \in [0 .. Len(s) -> Nat]
  BY DEF ZerosRight, Frames
<1>2. /\ g.x = f.x + 1 /\ g.y = 1 /\ g.lastdiag = f.x
      /\ g.column = [f.column EXCEPT ![0] = f.x + 1]
      /\ g \in Frames(s, t)
  BY <1>1 DEF NextColumn, Frames
<1> HIDE DEF g
<1>3. ASSUME NEW k \in 0 .. Len(s)
      PROVE  g.column[k] = 0 <=>
                 k = (IF k < g.y THEN g.x ELSE g.x - 1) /\ Agree(s, t, k)
  <2>1. CASE k = 0
    BY <1>1, <1>2, <2>1
  <2>2. CASE k # 0
    <3>1. g.column[k] = f.column[k] /\ k < f.y /\ ~ (k < g.y) /\ g.x - 1 = f.x
      BY <1>1, <1>2, <2>2
    <3>2. f.column[k] = 0 <=> k = f.x /\ Agree(s, t, k)
      BY <3>1 DEF ZerosRight
    <3> QED
      BY <3>1, <3>2
  <2> QED
    BY <2>1, <2>2
<1>4. g.lastdiag = 0 <=> g.y = g.x /\ Agree(s, t, g.y - 1)
  <2>1. Agree(s, t, 0)
    BY DEF Agree
  <2>2. g.y - 1 = 0
    BY <1>2
  <2> QED
    BY <1>1, <1>2, <2>1, <2>2
<1>5. g.x # 0
  BY <1>1, <1>2
<1> QED
  BY <1>2, <1>3, <1>4, <1>5 DEF ZerosRight, g

LEMMA ZerosOfCell ==
    ASSUME NEW s \in Seq(Bit), NEW t \in Seq(Bit), NEW f, ZerosRight(s, t, f),
           ~ (f.y > Len(s))
    PROVE  ZerosRight(s, t, Cell(s, t, f))
<1> DEFINE x == f.x
           y == f.y
           diag == f.lastdiag
           paid == IF s[y] = t[x] THEN 0 ELSE 1
           new == Min3(f.column[y] + 1, f.column[y - 1] + 1, diag + paid)
           g == Cell(s, t, f)
<1>1. /\ Len(s) \in Nat /\ Len(t) \in Nat /\ f \in Frames(s, t)
      /\ x \in 0 .. Len(t) /\ y \in 1 .. Len(s) /\ y - 1 \in 0 .. Len(s)
      /\ diag \in Nat /\ f.column \in [0 .. Len(s) -> Nat]
  BY DEF ZerosRight, Frames
<1>2. x \in 1 .. Len(t)
  BY <1>1 DEF ZerosRight
<1>3. g = [x |-> x, y |-> y + 1, lastdiag |-> f.column[y],
           column |-> [f.column EXCEPT ![y] = new]]
  BY DEF Cell
<1>4. paid \in {0, 1} /\ (paid = 0 <=> s[y] = t[x])
  OBVIOUS
<1>5. /\ f.column[y] \in Nat /\ f.column[y - 1] \in Nat
      /\ f.column[y] = 0 <=> y = x - 1 /\ Agree(s, t, y)
      /\ diag = 0 <=> y = x /\ Agree(s, t, y - 1)
  BY <1>1 DEF ZerosRight
<1> HIDE DEF paid, diag
<1>6. new \in Nat /\ (new = 0 <=> diag = 0 /\ paid = 0)
  <2>1. /\ f.column[y] + 1 \in Nat \ {0} /\ f.column[y - 1] + 1 \in Nat \ {0}
        /\ diag + paid \in Nat /\ (diag + paid = 0 <=> diag = 0 /\ paid = 0)
    <3>1. \A n \in Nat : n + 1 \in Nat \ {0}
      OBVIOUS
    <3>2. \A d \in Nat, e \in {0, 1} : d + e \in Nat /\ (d + e = 0 <=> d = 0 /\ e = 0)
      OBVIOUS
    <3> QED
      BY <1>1, <1>4, <1>5, <3>1, <3>2, Zenon
  <2>2. \A a, b \in Nat \ {0}, c \in Nat :
            Min3(a, b, c) \in Nat /\ (Min3(a, b, c) = 0 <=> c = 0)
    BY DEF Min3
  <2> QED
    BY <2>1, <2>2
<1> HIDE DEF new, g
<1>7. new = 0 <=> y = x /\ Agree(s, t, y)
  <2>1. y = x => (Agree(s, t, y) <=> Agree(s, t, y - 1) /\ s[y] = t[x])
    <3>1. \A i : i \in 1 .. y <=> i \in 1 .. y - 1 \/ i = y
      BY <1>1
    <3>2. Agree(s, t, y) <=> Agree(s, t, y - 1) /\ s[y] = t[y]
      BY <3>1, Zenon DEF Agree
    <3> QED
      BY <3>2, Zenon
  <2> QED
    BY <1>4, <1>5, <1>6, <2>1
<1>8. /\ g.x = x /\ g.y = y + 1 /\ g.lastdiag = f.column[y]
      /\ g.column = [f.column EXCEPT ![y] = new]
  BY <1>3
<1>9. g \in Frames(s, t)
  <2>1. [f.column EXCEPT ![y] = new] \in [0 .. Len(s) -> Nat]
        /\ y + 1 \in 1 .. Len(s) + 1
    BY <1>1, <1>6
  <2> QED
    BY <1>1, <1>3, <1>5, <2>1 DEF Frames
<1>10. ASSUME NEW k \in 0 .. Len(s)
       PROVE  g.column[k] = 0 <=>
                  k = (IF k < g.y THEN g.x ELSE g.x - 1) /\ Agree(s, t, k)
  <2>1. CASE k = y
    <3>1. g.column[k] = new /\ k < g.y
      BY <1>1, <1>8, <2>1
    <3> QED
      BY <1>7, <1>8, <2>1, <3>1
  <2>2. CASE k # y
    <3>1. g.column[k] = f.column[k] /\ (k < y <=> k < g.y) /\ g.x = x
      BY <1>1, <1>8, <2>2
    <3>2. f.column[k] = 0 <=> k = (IF k < y THEN x ELSE x - 1) /\ Agree(s, t, k)
      BY DEF ZerosRight
    <3> QED
      BY <3>1, <3>2
  <2> QED
    BY <2>1, <2>2
<1>11. g.lastdiag = 0 <=> g.y = g.x /\ Agree(s, t, g.y - 1)
  <2>1. g.y - 1 = y /\ (g.y = g.x <=> y = x - 1)
    BY <1>1, <1>8
  <2> QED
    BY <1>5, <1>8, <2>1
<1>12. g.x # 0
  BY <1>2, <1>8
<1> QED
  BY <1>9, <1>10, <1>11, <1>12 DEF ZerosRight, g

\* Only a string has no distance from itself.
LEMMA NoDistance ==
    ASSUME NEW s \in Seq(Bit), NEW t \in Seq(Bit)
    PROVE  levenshtein(s, t) = 0 <=> s = t
<1> DEFINE J == {f \in Frames(s, t) : ZerosRight(s, t, f)}
<1>1. Len(s) \in Nat /\ Len(t) \in Nat /\ Len(s) \in 0 .. Len(s)
  OBVIOUS
<1>2. Begin(s) \in J
  <2> DEFINE g == Begin(s)
  <2>1. /\ g \in Frames(s, t) /\ g.x = 0 /\ g.y = Len(s) + 1
        /\ g.column = [k \in 0 .. Len(s) |-> k]
    BY <1>1 DEF Begin, Frames
  <2> HIDE DEF g
  <2>2. Agree(s, t, 0)
    BY DEF Agree
  <2>3. ZerosRight(s, t, g)
    BY <1>1, <2>1, <2>2 DEF ZerosRight
  <2> QED
    BY <2>1, <2>3 DEF g
<1>3. ASSUME NEW f \in J, ~ Finished(s, t, f)
      PROVE  Advance(s, t, f) \in J
  <2>1. ZerosRight(s, t, Advance(s, t, f))
    BY <1>3, ZerosOfNextColumn, ZerosOfCell DEF Advance, Finished
  <2> QED
    BY <2>1 DEF ZerosRight
<1>4. Kept(s, t, J)
  BY <1>3 DEF Kept
<1> HIDE DEF J
<1>5. PICK g \in J : /\ g.x = Len(t) /\ g.y = Len(s) + 1
                     /\ levenshtein(s, t) = g.column[Len(s)]
  BY <1>2, <1>4, LoopRuns
<1>6. g.column[Len(s)] = 0 <=> Len(s) = Len(t) /\ Agree(s, t, Len(s))
  BY <1>1, <1>5 DEF J, ZerosRight
<1>7. s = t <=> Len(s) = Len(t) /\ Agree(s, t, Len(s))
  BY <1>1, SeqEqual DEF Agree
<1> QED
  BY <1>5, <1>6, <1>7

-----------------------------------------------------------------------------
(* Strings at a distance of one.                                            *)

\* The first k characters of s and t differ in one place at most.
AlmostAgree(s, t, k) == \E i \in 0 .. k : \A j \in 1 .. k : j # i => s[j] = t[j]

\* The first k characters of s, but for one of them, are the first k - 1 of t.
Longer(s, t, k) ==
    \E i \in 1 .. k : /\ \A j \in 1 .. i - 1 : s[j] = t[j]
                      /\ \A j \in i + 1 .. k : s[j] = t[j - 1]

OneApart(s, t, y, x) ==
    \/ y = x /\ AlmostAgree(s, t, y)
    \/ y = x + 1 /\ Longer(s, t, y)
    \/ x = y + 1 /\ Longer(t, s, x)

\* The prefixes grow by a character each: the recurrence of OneApart.
LEMMA AlmostAgreeGrows ==
    ASSUME NEW s, NEW t, NEW k \in Nat \ {0}
    PROVE  AlmostAgree(s, t, k) <=>
               Agree(s, t, k - 1) \/ (AlmostAgree(s, t, k - 1) /\ s[k] = t[k])
<1>1. ASSUME AlmostAgree(s, t, k)
      PROVE  Agree(s, t, k - 1) \/ (AlmostAgree(s, t, k - 1) /\ s[k] = t[k])
  <2>1. PICK i \in 0 .. k : \A j \in 1 .. k : j # i => s[j] = t[j]
    BY <1>1 DEF AlmostAgree
  <2>2. CASE i = k
    BY <2>1, <2>2 DEF Agree
  <2>3. CASE i # k
    <3>1. i \in 0 .. k - 1 /\ s[k] = t[k]
      BY <2>1, <2>3
    <3>2. \A j \in 1 .. k - 1 : j # i => s[j] = t[j]
      BY <2>1
    <3> QED
      BY <3>1, <3>2 DEF AlmostAgree
  <2> QED
    BY <2>2, <2>3
<1>2. ASSUME Agree(s, t, k - 1) PROVE AlmostAgree(s, t, k)
  <2>1. k \in 0 .. k /\ \A j \in 1 .. k : j # k => s[j] = t[j]
    BY <1>2 DEF Agree
  <2> QED
    BY <2>1 DEF AlmostAgree
<1>3. ASSUME AlmostAgree(s, t, k - 1), s[k] = t[k] PROVE AlmostAgree(s, t, k)
  <2>1. PICK i \in 0 .. k - 1 : \A j \in 1 .. k - 1 : j # i => s[j] = t[j]
    BY <1>3 DEF AlmostAgree
  <2>2. i \in 0 .. k /\ \A j \in 1 .. k : j # i => s[j] = t[j]
    BY <1>3, <2>1
  <2> QED
    BY <2>2 DEF AlmostAgree
<1> QED
  BY <1>1, <1>2, <1>3

LEMMA LongerGrows ==
    ASSUME NEW s, NEW t, NEW k \in Nat \ {0}
    PROVE  Longer(s, t, k) <=>
               Agree(s, t, k - 1) \/ (k > 1 /\ Longer(s, t, k - 1) /\ s[k] = t[k - 1])
<1>1. ASSUME Longer(s, t, k)
      PROVE  Agree(s, t, k - 1) \/ (k > 1 /\ Longer(s, t, k - 1) /\ s[k] = t[k - 1])
  <2>1. PICK i \in 1 .. k : /\ \A j \in 1 .. i - 1 : s[j] = t[j]
                            /\ \A j \in i + 1 .. k : s[j] = t[j - 1]
    BY <1>1 DEF Longer
  <2>2. CASE i = k
    BY <2>1, <2>2 DEF Agree
  <2>3. CASE i # k
    <3>1. i \in 1 .. k - 1 /\ s[k] = t[k - 1] /\ k > 1
      BY <2>1, <2>3
    <3>2. \A j \in i + 1 .. k - 1 : s[j] = t[j - 1]
      BY <2>1
    <3> QED
      BY <2>1, <3>1, <3>2 DEF Longer
  <2> QED
    BY <2>2, <2>3
<1>2. ASSUME Agree(s, t, k - 1) PROVE Longer(s, t, k)
  <2>1. k \in 1 .. k /\ \A j \in 1 .. k - 1 : s[j] = t[j]
    BY <1>2 DEF Agree
  <2>2. \A j \in k + 1 .. k : s[j] = t[j - 1]
    OBVIOUS
  <2> QED
    BY <2>1, <2>2 DEF Longer
<1>3. ASSUME k > 1, Longer(s, t, k - 1), s[k] = t[k - 1] PROVE Longer(s, t, k)
  <2>1. PICK i \in 1 .. k - 1 : /\ \A j \in 1 .. i - 1 : s[j] = t[j]
                                /\ \A j \in i + 1 .. k - 1 : s[j] = t[j - 1]
    BY <1>3 DEF Longer
  <2>2. i \in 1 .. k /\ \A j \in i + 1 .. k : s[j] = t[j - 1]
    BY <1>3, <2>1
  <2> QED
    BY <2>1, <2>2 DEF Longer
<1> QED
  BY <1>1, <1>2, <1>3

LastEdit(s, t, y, x) ==
    \/ y = x - 1 /\ Agree(s, t, y)
    \/ y - 1 = x /\ Agree(s, t, x)
    \/ y = x /\ Agree(s, t, y - 1)
    \/ OneApart(s, t, y - 1, x - 1) /\ s[y] = t[x]

LEMMA OneApartGrows ==
    ASSUME NEW s, NEW t, NEW y \in Nat \ {0}, NEW x \in Nat \ {0}
    PROVE  OneApart(s, t, y, x) <=> LastEdit(s, t, y, x)
<1> USE DEF LastEdit
<1>1. \A k : Agree(s, t, k) <=> Agree(t, s, k)
  BY DEF Agree
<1>2. CASE y = x
  <2>1. OneApart(s, t, y, x) <=> AlmostAgree(s, t, y)
    BY <1>2 DEF OneApart
  <2>2. OneApart(s, t, y - 1, x - 1) <=> AlmostAgree(s, t, y - 1)
    BY <1>2 DEF OneApart
  <2>3. s[y] = t[x] <=> s[y] = t[y]
    BY <1>2
  <2> QED
    BY <1>2, <2>1, <2>2, <2>3, AlmostAgreeGrows
<1>3. CASE y = x + 1
  <2>1. OneApart(s, t, y, x) <=> Longer(s, t, y)
    BY <1>3 DEF OneApart
  <2>2. OneApart(s, t, y - 1, x - 1) <=> Longer(s, t, y - 1)
    BY <1>3 DEF OneApart
  <2>3. y - 1 = x /\ y > 1
    BY <1>3
  <2> QED
    BY <1>3, <2>1, <2>2, <2>3, LongerGrows
<1>4. CASE x = y + 1
  <2>1. OneApart(s, t, y, x) <=> Longer(t, s, x)
    BY <1>4 DEF OneApart
  <2>2. OneApart(s, t, y - 1, x - 1) <=> Longer(t, s, x - 1)
    BY <1>4 DEF OneApart
  <2>3. x - 1 = y /\ x > 1
    BY <1>4
  <2>4. Longer(t, s, x) <=> Agree(t, s, y) \/ (Longer(t, s, x - 1) /\ t[x] = s[y])
    BY <2>3, LongerGrows
  <2> QED
    BY <1>1, <1>4, <2>1, <2>2, <2>3, <2>4
<1>5. CASE ~ (y = x) /\ ~ (y = x + 1) /\ ~ (x = y + 1)
  BY <1>5 DEF OneApart
<1> QED
  BY <1>2, <1>3, <1>4, <1>5

\* With no character of one string, the other has one at most.
LEMMA OneApartEmpty ==
    ASSUME NEW s, NEW t, NEW k \in Nat
    PROVE  /\ OneApart(s, t, k, 0) <=> k <= 1
           /\ OneApart(s, t, 0, k) <=> k <= 1
<1>1. \A u, v : Agree(u, v, 0)
  BY DEF Agree
<1>2. \A u, v : AlmostAgree(u, v, 0)
  BY DEF AlmostAgree
<1>3. \A u, v : Longer(u, v, 1)
  BY <1>1, LongerGrows
<1> QED
  BY <1>2, <1>3 DEF OneApart

\* The cells of a frame that are at most 1.
OnesRight(s, t, f) ==
    /\ ZerosRight(s, t, f)
    /\ \A k \in 0 .. Len(s) :
          f.column[k] <= 1 <=> OneApart(s, t, k, IF k < f.y THEN f.x ELSE f.x - 1)
    /\ f.y <= Len(s) =>
          (f.lastdiag <= 1 <=> OneApart(s, t, f.y - 1, f.x - 1))

LEMMA OnesOfNextColumn ==
    ASSUME NEW s \in Seq(Bit), NEW t \in Seq(Bit), NEW f, OnesRight(s, t, f),
           f.y > Len(s), f.x # Len(t)
    PROVE  OnesRight(s, t, NextColumn(f))
<1> DEFINE g == NextColumn(f)
<1>1. /\ Len(s) \in Nat /\ Len(t) \in Nat
      /\ f.x \in 0 .. Len(t) - 1 /\ f.x \in Nat
      /\ f.y = Len(s) + 1 /\ f.column \in [0 .. Len(s) -> Nat]
  BY DEF OnesRight, ZerosRight, Frames
<1>2. /\ g.x = f.x + 1 /\ g.y = 1 /\ g.lastdiag = f.x
      /\ g.column = [f.column EXCEPT ![0] = f.x + 1]
  BY <1>1 DEF NextColumn
<1>3. ZerosRight(s, t, g)
  BY ZerosOfNextColumn DEF OnesRight
<1> HIDE DEF g
<1>4. ASSUME NEW k \in 0 .. Len(s)
      PROVE  g.column[k] <= 1 <=>
                 OneApart(s, t, k, IF k < g.y THEN g.x ELSE g.x - 1)
  <2>1. CASE k = 0
    <3>1. g.column[0] = f.x + 1 /\ (IF k < g.y THEN g.x ELSE g.x - 1) = f.x + 1
      BY <1>1, <1>2, <2>1
    <3>2. OneApart(s, t, 0, f.x + 1) <=> f.x + 1 <= 1
      BY <1>1, OneApartEmpty
    <3> QED
      BY <2>1, <3>1, <3>2
  <2>2. CASE k # 0
    <3>1. g.column[k] = f.column[k] /\ k < f.y /\ ~ (k < g.y) /\ g.x - 1 = f.x
      BY <1>1, <1>2, <2>2
    <3>2. f.column[k] <= 1 <=> OneApart(s, t, k, f.x)
      BY <3>1 DEF OnesRight
    <3> QED
      BY <3>1, <3>2
  <2> QED
    BY <2>1, <2>2
<1>5. g.lastdiag <= 1 <=> OneApart(s, t, g.y - 1, g.x - 1)
  <2>1. g.y - 1 = 0 /\ g.x - 1 = f.x
    BY <1>1, <1>2
  <2> QED
    BY <1>1, <1>2, <2>1, OneApartEmpty
<1> QED
  BY <1>3, <1>4, <1>5 DEF OnesRight, g

LEMMA OnesOfCell ==
    ASSUME NEW s \in Seq(Bit), NEW t \in Seq(Bit), NEW f, OnesRight(s, t, f),
           ~ (f.y > Len(s))
    PROVE  OnesRight(s, t, Cell(s, t, f))
<1> DEFINE x == f.x
           y == f.y
           diag == f.lastdiag
           paid == IF s[y] = t[x] THEN 0 ELSE 1
           beside == f.column[y]
           above == f.column[y - 1]
           new == Min3(beside + 1, above + 1, diag + paid)
           g == Cell(s, t, f)
<1>1. /\ Len(s) \in Nat /\ Len(t) \in Nat /\ ZerosRight(s, t, f)
      /\ x \in 1 .. Len(t) /\ y \in 1 .. Len(s) /\ y - 1 \in 0 .. Len(s)
      /\ diag \in Nat /\ f.column \in [0 .. Len(s) -> Nat]
  BY DEF OnesRight, ZerosRight, Frames
<1>2. ZerosRight(s, t, g)
  BY <1>1, ZerosOfCell
<1>3. g = [x |-> x, y |-> y + 1, lastdiag |-> f.column[y],
           column |-> [f.column EXCEPT ![y] = new]]
  BY DEF Cell
<1>4. paid \in {0, 1} /\ (paid = 0 <=> s[y] = t[x])
  OBVIOUS
<1>5. /\ beside \in Nat /\ above \in Nat
      /\ beside = 0 <=> y = x - 1 /\ Agree(s, t, y)
      /\ diag = 0 <=> y = x /\ Agree(s, t, y - 1)
  BY <1>1 DEF ZerosRight
<1>6. above = 0 <=> y - 1 = x /\ Agree(s, t, x)
  <2>1. above = 0 <=> y - 1 = x /\ Agree(s, t, y - 1)
    BY <1>1 DEF ZerosRight
  <2> QED
    BY <2>1
<1>7. diag <= 1 <=> OneApart(s, t, y - 1, x - 1)
  BY <1>1 DEF OnesRight
<1> HIDE DEF paid, diag, beside, above
<1>8. new <= 1 <=> beside = 0 \/ above = 0 \/ diag = 0 \/ (diag <= 1 /\ paid = 0)
  BY <1>1, <1>4, <1>5 DEF Min3
<1>9. x \in Nat \ {0} /\ y \in Nat \ {0}
  BY <1>1
<1> HIDE DEF new, g, x, y
<1>10. new <= 1 <=> OneApart(s, t, y, x)
  <2>1. OneApart(s, t, y, x) <=> LastEdit(s, t, y, x)
    BY <1>9, OneApartGrows
  <2>2. LastEdit(s, t, y, x) <=>
            \/ y = x - 1 /\ Agree(s, t, y)
            \/ y - 1 = x /\ Agree(s, t, x)
            \/ y = x /\ Agree(s, t, y - 1)
            \/ OneApart(s, t, y - 1, x - 1) /\ s[y] = t[x]
    BY DEF LastEdit
  <2> QED
    BY <1>4, <1>5, <1>6, <1>7, <1>8, <2>1, <2>2, Zenon
<1> USE DEF x, y, beside
<1>11. /\ g.x = x /\ g.y = y + 1 /\ g.lastdiag = f.column[y]
       /\ g.column = [f.column EXCEPT ![y] = new]
  BY <1>3
<1>12. ASSUME NEW k \in 0 .. Len(s)
       PROVE  g.column[k] <= 1 <=>
                  OneApart(s, t, k, IF k < g.y THEN g.x ELSE g.x - 1)
  <2>1. CASE k = y
    <3>1. g.column[k] = new /\ k < g.y
      BY <1>1, <1>11, <2>1
    <3> QED
      BY <1>10, <1>11, <2>1, <3>1
  <2>2. CASE k # y
    <3>1. g.column[k] = f.column[k] /\ (k < y <=> k < g.y) /\ g.x = x
      BY <1>1, <1>11, <2>2
    <3>2. f.column[k] <= 1 <=> OneApart(s, t, k, IF k < y THEN x ELSE x - 1)
      BY DEF OnesRight
    <3> QED
      BY <3>1, <3>2
  <2> QED
    BY <2>1, <2>2
<1>13. g.lastdiag <= 1 <=> OneApart(s, t, g.y - 1, g.x - 1)
  <2>1. g.y - 1 = y /\ g.x - 1 = x - 1 /\ ~ (y < f.y)
    BY <1>1, <1>11
  <2>2. f.column[y] <= 1 <=> OneApart(s, t, y, x - 1)
    BY <1>1, <2>1 DEF OnesRight
  <2> QED
    BY <1>11, <2>1, <2>2
<1> QED
  BY <1>2, <1>12, <1>13 DEF OnesRight, g

\* Strings have a distance of at most one when one edit makes them equal.
LEMMA SmallDistance ==
    ASSUME NEW s \in Seq(Bit), NEW t \in Seq(Bit)
    PROVE  levenshtein(s, t) <= 1 <=> OneApart(s, t, Len(s), Len(t))
<1> DEFINE J == {f \in Frames(s, t) : OnesRight(s, t, f)}
<1>1. Len(s) \in Nat /\ Len(t) \in Nat /\ Len(s) \in 0 .. Len(s)
  OBVIOUS
<1>2. Begin(s) \in J
  <2> DEFINE g == Begin(s)
  <2>1. /\ g \in Frames(s, t) /\ g.x = 0 /\ g.y = Len(s) + 1
        /\ g.column = [k \in 0 .. Len(s) |-> k]
    BY <1>1 DEF Begin, Frames
  <2> HIDE DEF g
  <2>2. ZerosRight(s, t, g)
    <3>1. Agree(s, t, 0)
      BY DEF Agree
    <3> QED
      BY <1>1, <2>1, <3>1 DEF ZerosRight
  <2>3. \A k \in 0 .. Len(s) : OneApart(s, t, k, 0) <=> k <= 1
    BY OneApartEmpty
  <2>4. OnesRight(s, t, g)
    BY <1>1, <2>1, <2>2, <2>3 DEF OnesRight
  <2> QED
    BY <2>1, <2>4 DEF g
<1>3. ASSUME NEW f \in J, ~ Finished(s, t, f)
      PROVE  Advance(s, t, f) \in J
  <2>1. OnesRight(s, t, Advance(s, t, f))
    BY <1>3, OnesOfNextColumn, OnesOfCell DEF Advance, Finished
  <2> QED
    BY <2>1 DEF OnesRight, ZerosRight
<1>4. Kept(s, t, J)
  BY <1>3 DEF Kept
<1> HIDE DEF J
<1>5. PICK g \in J : /\ g.x = Len(t) /\ g.y = Len(s) + 1
                     /\ levenshtein(s, t) = g.column[Len(s)]
  BY <1>2, <1>4, LoopRuns
<1>6. g.column[Len(s)] <= 1 <=> OneApart(s, t, Len(s), Len(t))
  <2>1. Len(s) < g.y
    BY <1>1, <1>5
  <2> QED
    BY <1>1, <1>5, <2>1 DEF J, OnesRight
<1> QED
  BY <1>5, <1>6

-----------------------------------------------------------------------------
(* One error.                                                               *)

\* Strings of n bits of which one, where the other is one, is the same bit m
\* times are both one edit away from no string.
LEMMA NoneBetween ==
    ASSUME NEW p, NEW s, NEW t, NEW y \in Nat, NEW n \in Nat, NEW m \in Nat, m >= 3,
           NEW a \in 1 .. n - m + 1, Apart(s, t, a, m),
           OneApart(p, s, y, n), OneApart(p, t, y, n)
    PROVE  FALSE
<1>1. /\ a \in Nat /\ a >= 1 /\ a + 2 <= n
      /\ {a, a + 1, a + 2} \subseteq 1 .. n
  OBVIOUS
<1>2. /\ s[a] # t[a] /\ s[a + 1] # t[a + 1] /\ s[a + 2] # t[a + 2]
      /\ s[a + 1] = s[a] /\ t[a + 1] = t[a]
      /\ s[a + 2] = s[a] /\ t[a + 2] = t[a]
  <2>1. 1 \in 0 .. m - 1 /\ 2 \in 0 .. m - 1
    OBVIOUS
  <2> QED
    BY <2>1 DEF Apart
<1>3. CASE y = n
  <2>1. PICK i \in 0 .. n : \A j \in 1 .. n : j # i => p[j] = s[j]
    BY <1>1, <1>3 DEF OneApart, AlmostAgree
  <2>2. PICK k \in 0 .. n : \A j \in 1 .. n : j # k => p[j] = t[j]
    BY <1>1, <1>3 DEF OneApart, AlmostAgree
  <2>3. \A j \in {a, a + 1, a + 2} : j # i => p[j] = s[j]
    BY <1>1, <2>1
  <2>4. \A j \in {a, a + 1, a + 2} : j # k => p[j] = t[j]
    BY <1>1, <2>2
  <2> QED
    BY <1>1, <1>2, <2>3, <2>4
<1>4. CASE y = n + 1
  <2> DEFINE Added(u, i) == /\ \A j \in 1 .. i - 1 : p[j] = u[j]
                            /\ \A j \in i + 1 .. n + 1 : p[j] = u[j - 1]
  <2>1. PICK i \in 1 .. n + 1 : Added(s, i)
    BY <1>4 DEF OneApart, Longer
  <2>2. PICK k \in 1 .. n + 1 : Added(t, k)
    BY <1>4 DEF OneApart, Longer
  <2>3. ASSUME NEW u, NEW h \in 1 .. n + 1, Added(u, h)
        PROVE  /\ a < h => p[a] = u[a]
               /\ a + 1 < h => p[a + 1] = u[a + 1]
               /\ a >= h => p[a + 1] = u[a]
               /\ a + 1 >= h => p[a + 2] = u[a + 1]
    <3>1. a + 1 - 1 = a /\ a + 2 - 1 = a + 1
      BY <1>1
    <3> QED
      BY <1>1, <2>3, <3>1
  <2>4. /\ a < i => p[a] = s[a]
        /\ a + 1 < i => p[a + 1] = s[a + 1]
        /\ a >= i => p[a + 1] = s[a]
        /\ a + 1 >= i => p[a + 2] = s[a + 1]
    BY <2>1, <2>3
  <2>5. /\ a < k => p[a] = t[a]
        /\ a + 1 < k => p[a + 1] = t[a + 1]
        /\ a >= k => p[a + 1] = t[a]
        /\ a + 1 >= k => p[a + 2] = t[a + 1]
    BY <2>2, <2>3
  <2> QED
    BY <1>1, <1>2, <2>4, <2>5
<1>5. CASE n = y + 1
  <2> DEFINE Lost(u, i) == /\ \A j \in 1 .. i - 1 : u[j] = p[j]
                           /\ \A j \in i + 1 .. n : u[j] = p[j - 1]
  <2>1. PICK i \in 1 .. n : Lost(s, i)
    <3>1. Longer(s, p, n)
      BY <1>1, <1>5 DEF OneApart
    <3> QED
      BY <3>1 DEF Longer
  <2>2. PICK k \in 1 .. n : Lost(t, k)
    <3>1. Longer(t, p, n)
      BY <1>1, <1>5 DEF OneApart
    <3> QED
      BY <3>1 DEF Longer
  <2>3. ASSUME NEW u, NEW h \in 1 .. n, Lost(u, h)
        PROVE  /\ a < h => u[a] = p[a]
               /\ a + 1 < h => u[a + 1] = p[a + 1]
               /\ a >= h => u[a + 1] = p[a]
               /\ a + 1 >= h => u[a + 2] = p[a + 1]
    <3>1. a + 1 - 1 = a /\ a + 2 - 1 = a + 1
      BY <1>1
    <3> QED
      BY <1>1, <2>3, <3>1
  <2>4. /\ a < i => s[a] = p[a]
        /\ a + 1 < i => s[a + 1] = p[a + 1]
        /\ a >= i => s[a + 1] = p[a]
        /\ a + 1 >= i => s[a + 2] = p[a + 1]
    BY <2>1, <2>3
  <2>5. /\ a < k => t[a] = p[a]
        /\ a + 1 < k => t[a + 1] = p[a + 1]
        /\ a >= k => t[a + 1] = p[a]
        /\ a + 1 >= k => t[a + 2] = p[a + 1]
    BY <2>2, <2>3
  <2> QED
    BY <1>1, <1>2, <2>4, <2>5
<1> QED
  BY <1>3, <1>4, <1>5 DEF OneApart

\* What one error makes of a word is one edit away from it.
LEMMA OneEdit ==
    ASSUME NEW w \in Seq(Bit), NEW p \in OneEditOf(w)
    PROVE  OneApart(p, w, Len(p), Len(w))
<1> DEFINE n == Len(w)
<1>1. \/ p = w \/ p = <<1>> \o w \/ p = w \o <<1>>
      \/ \E i \in 2 .. n - 1 : p = [w EXCEPT ![i] = 1 - @]
      \/ \E i \in 2 .. n - 1 : p = SubSeq(w, 1, i - 1) \o SubSeq(w, i + 1, n)
      \/ \E i \in 1 .. n - 1, c \in Bit :
            p = SubSeq(w, 1, i) \o <<c>> \o SubSeq(w, i + 1, n)
  <2> DEFINE near == {w, <<1>> \o w, w \o <<1>>}
             flipped == {[w EXCEPT ![i] = 1 - @] : i \in 2 .. n - 1}
             missing == {SubSeq(w, 1, i - 1) \o SubSeq(w, i + 1, n) :
                            i \in 2 .. n - 1}
             added == UNION {{SubSeq(w, 1, i) \o <<c>> \o SubSeq(w, i + 1, n) :
                                 c \in Bit} : i \in 1 .. n - 1}
  <2>1. OneEditOf(w) = near \cup flipped \cup missing \cup added
    BY DEF OneEditOf
  <2>2. p \in near => p = w \/ p = <<1>> \o w \/ p = w \o <<1>>
    OBVIOUS
  <2>3. p \in flipped => \E i \in 2 .. n - 1 : p = [w EXCEPT ![i] = 1 - @]
    OBVIOUS
  <2>4. p \in missing =>
            \E i \in 2 .. n - 1 : p = SubSeq(w, 1, i - 1) \o SubSeq(w, i + 1, n)
    OBVIOUS
  <2>5. p \in added =>
            \E i \in 1 .. n - 1, c \in Bit :
                p = SubSeq(w, 1, i) \o <<c>> \o SubSeq(w, i + 1, n)
    OBVIOUS
  <2> HIDE DEF near, flipped, missing, added
  <2>6. p \in near \/ p \in flipped \/ p \in missing \/ p \in added
    BY <2>1
  <2> QED
    BY <2>2, <2>3, <2>4, <2>5, <2>6, Zenon
<1>2. w \in Seq(Bit) /\ n \in Nat
  OBVIOUS
<1>3. ASSUME p = w PROVE OneApart(p, w, Len(p), n)
  <2>1. 0 \in 0 .. n /\ \A j \in 1 .. n : j # 0 => p[j] = w[j]
    BY <1>2, <1>3
  <2> QED
    BY <1>2, <1>3, <2>1 DEF OneApart, AlmostAgree
<1>4. ASSUME p = << 1 >> \o w PROVE OneApart(p, w, Len(p), n)
  <2> DEFINE one == <<1>>
  <2>1. one \in Seq(Bit) /\ Len(one) = 1
    BY DEF Bit
  <2> HIDE DEF one
  <2>2. Joins(one \o w, one, w, Bit)
    BY <1>2, <2>1, ConcatFacts
  <2>3. p = one \o w
    BY <1>4 DEF one
  <2>4. Len(p) = n + 1 /\ \A j \in 1 .. n : p[1 + j] = w[j]
    BY <2>1, <2>2, <2>3 DEF Joins
  <2>5. \A j \in 1 + 1 .. n + 1 : p[j] = w[j - 1]
    <3> SUFFICES ASSUME NEW j \in 1 + 1 .. n + 1 PROVE p[j] = w[j - 1]
      OBVIOUS
    <3>1. j - 1 \in 1 .. n /\ 1 + (j - 1) = j
      BY <1>2
    <3> QED
      BY <2>4, <3>1
  <2>6. 1 \in 1 .. n + 1 /\ \A j \in 1 .. 1 - 1 : p[j] = w[j]
    BY <1>2
  <2>7. Longer(p, w, n + 1)
    BY <2>5, <2>6 DEF Longer
  <2> QED
    BY <2>4, <2>7 DEF OneApart
<1>5. ASSUME p = w \o << 1 >> PROVE OneApart(p, w, Len(p), n)
  <2> DEFINE one == <<1>>
  <2>1. one \in Seq(Bit) /\ Len(one) = 1
    BY DEF Bit
  <2> HIDE DEF one
  <2>2. Joins(w \o one, w, one, Bit)
    BY <1>2, <2>1, ConcatFacts
  <2>3. p = w \o one
    BY <1>5 DEF one
  <2>4. Len(p) = n + 1 /\ \A j \in 1 .. n : p[j] = w[j]
    BY <2>1, <2>2, <2>3 DEF Joins
  <2>5. Agree(p, w, n)
    BY <2>4 DEF Agree
  <2>6. Longer(p, w, n + 1)
    BY <1>2, <2>5, LongerGrows
  <2> QED
    BY <2>4, <2>6 DEF OneApart
<1>6. ASSUME NEW i \in 2 .. n - 1, p = [w EXCEPT ![i] = 1 - @]
      PROVE  OneApart(p, w, Len(p), n)
  <2>1. Len(p) = n /\ i \in 0 .. n /\ \A j \in 1 .. n : j # i => p[j] = w[j]
    BY <1>2, <1>6
  <2> QED
    BY <2>1 DEF OneApart, AlmostAgree
<1>7. ASSUME NEW i \in 2 .. n - 1,
             p = SubSeq(w, 1, i - 1) \o SubSeq(w, i + 1, n)
      PROVE  OneApart(p, w, Len(p), n)
  <2> DEFINE s == SubSeq(w, 1, i - 1)
             t == SubSeq(w, i + 1, n)
  <2>1. /\ s \in Seq(Bit) /\ Len(s) = i - 1 /\ \A j \in 1 .. i - 1 : s[j] = w[j]
        /\ t \in Seq(Bit) /\ Len(t) = n - i /\ \A j \in 1 .. n - i : t[j] = w[i + j]
    BY <1>2
  <2>2. p = s \o t
    BY <1>7
  <2> HIDE DEF s, t
  <2>3. Joins(p, s, t, Bit)
    BY <2>1, <2>2, ConcatFacts
  <2>4. /\ Len(p) = n - 1 /\ \A j \in 1 .. i - 1 : p[j] = w[j]
        /\ \A j \in 1 .. n - i : p[i - 1 + j] = w[i + j]
    BY <1>2, <2>1, <2>3 DEF Joins
  <2>5. \A j \in i + 1 .. n : w[j] = p[j - 1]
    <3> SUFFICES ASSUME NEW j \in i + 1 .. n PROVE w[j] = p[j - 1]
      OBVIOUS
    <3>1. j - i \in 1 .. n - i /\ i - 1 + (j - i) = j - 1 /\ i + (j - i) = j
      BY <1>2
    <3> QED
      BY <2>4, <3>1
  <2>6. i \in 1 .. n /\ \A j \in 1 .. i - 1 : w[j] = p[j]
    BY <1>2, <2>4
  <2>7. Longer(w, p, n)
    BY <2>5, <2>6 DEF Longer
  <2>8. n = Len(p) + 1
    BY <1>2, <2>4
  <2> QED
    BY <2>7, <2>8 DEF OneApart
<1>8. ASSUME NEW i \in 1 .. n - 1, NEW c \in Bit,
             p = SubSeq(w, 1, i) \o <<c>> \o SubSeq(w, i + 1, n)
      PROVE  OneApart(p, w, Len(p), n)
  <2> DEFINE s == SubSeq(w, 1, i)
             one == <<c>>
             t == SubSeq(w, i + 1, n)
             most == s \o one
  <2>1. /\ s \in Seq(Bit) /\ Len(s) = i /\ \A j \in 1 .. i : s[j] = w[j]
        /\ t \in Seq(Bit) /\ Len(t) = n - i /\ \A j \in 1 .. n - i : t[j] = w[i + j]
    BY <1>2
  <2>2. one \in Seq(Bit) /\ Len(one) = 1
    OBVIOUS
  <2>3. p = most \o t
    BY <1>8
  <2> HIDE DEF s, t, one
  <2>4. Joins(most, s, one, Bit)
    BY <2>1, <2>2, ConcatFacts
  <2> HIDE DEF most
  <2>5. /\ most \in Seq(Bit) /\ Len(most) = i + 1
        /\ \A j \in 1 .. i : most[j] = w[j]
    BY <2>1, <2>2, <2>4 DEF Joins
  <2>6. Joins(p, most, t, Bit)
    BY <2>1, <2>3, <2>5, ConcatFacts
  <2>7. /\ Len(p) = n + 1 /\ \A j \in 1 .. i + 1 : p[j] = most[j]
        /\ \A j \in 1 .. n - i : p[i + 1 + j] = w[i + j]
    BY <1>2, <2>1, <2>5, <2>6 DEF Joins
  <2>8. \A j \in i + 1 + 1 .. n + 1 : p[j] = w[j - 1]
    <3> SUFFICES ASSUME NEW j \in i + 1 + 1 .. n + 1 PROVE p[j] = w[j - 1]
      OBVIOUS
    <3>1. /\ j - (i + 1) \in 1 .. n - i /\ i + 1 + (j - (i + 1)) = j
          /\ i + (j - (i + 1)) = j - 1
      BY <1>2
    <3> QED
      BY <2>7, <3>1
  <2>9. i + 1 \in 1 .. n + 1 /\ \A j \in 1 .. i + 1 - 1 : p[j] = w[j]
    BY <1>2, <2>5, <2>7
  <2>10. Longer(p, w, n + 1)
    BY <2>8, <2>9 DEF Longer
  <2> QED
    BY <2>7, <2>10 DEF OneApart
<1> QED
  BY <1>1, <1>3, <1>4, <1>5, <1>6, <1>7, <1>8

-----------------------------------------------------------------------------
(* A bound of the distance from below: a function that nowhere grows faster *)
(* than the table does is nowhere above it.                                 *)

Bounds(h, s, t) ==
    /\ h \in [0 .. Len(s) -> [0 .. Len(t) -> Int]]
    /\ \A i \in 0 .. Len(s) : h[i][0] <= i
    /\ \A j \in 0 .. Len(t) : h[0][j] <= j
    /\ \A i \in 1 .. Len(s), j \in 0 .. Len(t) : h[i][j] <= h[i - 1][j] + 1
    /\ \A i \in 0 .. Len(s), j \in 1 .. Len(t) : h[i][j] <= h[i][j - 1] + 1
    /\ \A i \in 1 .. Len(s), j \in 1 .. Len(t) :
          /\ h[i][j] <= h[i - 1][j - 1] + 1
          /\ s[i] = t[j] => h[i][j] <= h[i - 1][j - 1]

\* What Bounds says of a cell and the three it is computed of.
LEMMA BoundsOfCell ==
    ASSUME NEW s \in Seq(Bit), NEW t \in Seq(Bit), NEW h, Bounds(h, s, t),
           NEW y \in 1 .. Len(s), NEW x \in 1 .. Len(t)
    PROVE  /\ h[y][x] \in Int /\ h[y][x - 1] \in Int /\ h[y - 1][x] \in Int
           /\ h[y - 1][x - 1] \in Int
           /\ h[y][x] <= h[y][x - 1] + 1 /\ h[y][x] <= h[y - 1][x] + 1
           /\ h[y][x] <= h[y - 1][x - 1] + 1
           /\ s[y] = t[x] => h[y][x] <= h[y - 1][x - 1]
<1>1. /\ y \in 0 .. Len(s) /\ y - 1 \in 0 .. Len(s)
      /\ x \in 0 .. Len(t) /\ x - 1 \in 0 .. Len(t)
  OBVIOUS
<1>2. \A i \in 0 .. Len(s), j \in 0 .. Len(t) : h[i][j] \in Int
  BY DEF Bounds
<1>3. h[y][x] <= h[y][x - 1] + 1 /\ h[y][x] <= h[y - 1][x] + 1
  BY <1>1 DEF Bounds
<1>4. /\ h[y][x] <= h[y - 1][x - 1] + 1
      /\ s[y] = t[x] => h[y][x] <= h[y - 1][x - 1]
  BY DEF Bounds
<1> QED
  BY <1>1, <1>2, <1>3, <1>4

\* The cells of a frame are not below the bound.
Above(h, s, t, f) ==
    /\ f \in Frames(s, t)
    /\ f.x = 0 => f.y = Len(s) + 1
    /\ \A k \in 0 .. Len(s) :
          h[k][IF k < f.y THEN f.x ELSE f.x - 1] <= f.column[k]
    /\ f.y <= Len(s) => h[f.y - 1][f.x - 1] <= f.lastdiag

\* A new column begins above the bound.
LEMMA NextColumnIsAbove ==
    ASSUME NEW s \in Seq(Bit), NEW t \in Seq(Bit), NEW h, Bounds(h, s, t),
           NEW f, Above(h, s, t, f), f.y > Len(s), f.x # Len(t)
    PROVE  Above(h, s, t, NextColumn(f))
<1> DEFINE g == NextColumn(f)
<1>1. /\ Len(s) \in Nat /\ Len(t) \in Nat
      /\ f.x \in 0 .. Len(t) - 1 /\ f.x + 1 \in 0 .. Len(t) /\ f.x \in Nat
      /\ f.y = Len(s) + 1 /\ f.column \in [0 .. Len(s) -> Nat]
  BY DEF Above, Frames
<1>2. /\ g.x = f.x + 1 /\ g.y = 1 /\ g.lastdiag = f.x
      /\ g.column = [f.column EXCEPT ![0] = f.x + 1]
      /\ g \in Frames(s, t)
  BY <1>1 DEF NextColumn, Frames
<1> HIDE DEF g
<1>3. ASSUME NEW k \in 0 .. Len(s)
      PROVE  h[k][IF k < g.y THEN g.x ELSE g.x - 1] <= g.column[k]
  <2>1. CASE k = 0
    <3>1. g.column[0] = f.x + 1 /\ (IF k < g.y THEN g.x ELSE g.x - 1) = f.x + 1
      BY <1>1, <1>2, <2>1
    <3>2. h[0][f.x + 1] <= f.x + 1
      BY <1>1 DEF Bounds
    <3> QED
      BY <2>1, <3>1, <3>2
  <2>2. CASE k # 0
    <3>1. g.column[k] = f.column[k] /\ k < f.y /\ ~ (k < g.y) /\ g.x - 1 = f.x
      BY <1>1, <1>2, <2>2
    <3>2. h[k][f.x] <= f.column[k]
      BY <3>1 DEF Above
    <3> QED
      BY <3>1, <3>2
  <2> QED
    BY <2>1, <2>2
<1>4. h[g.y - 1][g.x - 1] <= g.lastdiag
  <2>1. g.y - 1 = 0 /\ g.x - 1 = f.x /\ f.x \in 0 .. Len(t)
    BY <1>1, <1>2
  <2>2. h[0][f.x] <= f.x
    BY <2>1 DEF Bounds
  <2> QED
    BY <1>2, <2>1, <2>2
<1>5. g.x # 0
  BY <1>1, <1>2
<1> QED
  BY <1>2, <1>3, <1>4, <1>5 DEF Above, g

\* A new cell is above the bound: so are the three cells it is computed of.
LEMMA CellIsAbove ==
    ASSUME NEW s \in Seq(Bit), NEW t \in Seq(Bit), NEW h, Bounds(h, s, t),
           NEW f, Above(h, s, t, f), ~ (f.y > Len(s))
    PROVE  Above(h, s, t, Cell(s, t, f))
<1> DEFINE x == f.x
           y == f.y
           diag == f.lastdiag
           paid == IF s[y] = t[x] THEN 0 ELSE 1
           beside == f.column[y]
           above == f.column[y - 1]
           new == Min3(beside + 1, above + 1, diag + paid)
           g == Cell(s, t, f)
<1>1. /\ Len(s) \in Nat /\ Len(t) \in Nat /\ f \in Frames(s, t)
      /\ x \in 0 .. Len(t) /\ y \in 1 .. Len(s) /\ y - 1 \in 0 .. Len(s)
      /\ diag \in Nat /\ f.column \in [0 .. Len(s) -> Nat]
  BY DEF Above, Frames
<1>2. x \in 1 .. Len(t) /\ x - 1 \in 0 .. Len(t)
  BY <1>1 DEF Above
<1>3. g = [x |-> x, y |-> y + 1, lastdiag |-> f.column[y],
           column |-> [f.column EXCEPT ![y] = new]]
  BY DEF Cell
<1>4. paid \in {0, 1} /\ (paid = 0 => s[y] = t[x])
  OBVIOUS
<1>5. beside \in Nat /\ above \in Nat
  BY <1>1
<1>6. h[y][x - 1] <= beside
  BY <1>1 DEF Above
<1>7. h[y - 1][x] <= above
  <2>1. y - 1 < f.y
    BY <1>1
  <2> QED
    BY <1>1, <2>1 DEF Above
<1>8. h[y - 1][x - 1] <= diag
  BY <1>1 DEF Above
<1>9. /\ h[y][x] \in Int /\ h[y][x - 1] \in Int /\ h[y - 1][x] \in Int
      /\ h[y - 1][x - 1] \in Int
      /\ h[y][x] <= h[y][x - 1] + 1 /\ h[y][x] <= h[y - 1][x] + 1
      /\ h[y][x] <= h[y - 1][x - 1] + 1
      /\ s[y] = t[x] => h[y][x] <= h[y - 1][x - 1]
  BY <1>1, <1>2, BoundsOfCell
<1> DEFINE bound == h[y][x]
           b1 == h[y][x - 1]
           b2 == h[y - 1][x]
           b3 == h[y - 1][x - 1]
<1>10. new \in Nat /\ bound <= new
  <2>1. /\ bound \in Int /\ b1 \in Int /\ b2 \in Int /\ b3 \in Int
        /\ bound <= b1 + 1 /\ bound <= b2 + 1 /\ bound <= b3 + paid
        /\ b1 <= beside /\ b2 <= above /\ b3 <= diag
    BY <1>4, <1>6, <1>7, <1>8, <1>9
  <2> HIDE DEF bound, b1, b2, b3, beside, above, diag, paid
  <2>2. /\ bound <= beside + 1 /\ bound <= above + 1 /\ bound <= diag + paid
        /\ beside + 1 \in Nat /\ above + 1 \in Nat /\ diag + paid \in Nat
    BY <1>1, <1>4, <1>5, <2>1, SMTT(30)
  <2> QED
    BY <2>1, <2>2 DEF Min3
<1> HIDE DEF new, g, bound
<1>11. /\ g.x = x /\ g.y = y + 1 /\ g.lastdiag = f.column[y]
       /\ g.column = [f.column EXCEPT ![y] = new]
  BY <1>3
<1>12. g \in Frames(s, t)
  <2>1. [f.column EXCEPT ![y] = new] \in [0 .. Len(s) -> Nat]
        /\ y + 1 \in 1 .. Len(s) + 1
    BY <1>1, <1>10
  <2> QED
    BY <1>1, <1>3, <1>5, <2>1 DEF Frames
<1>13. ASSUME NEW k \in 0 .. Len(s)
       PROVE  h[k][IF k < g.y THEN g.x ELSE g.x - 1] <= g.column[k]
  <2>1. CASE k = y
    <3>1. g.column[k] = new /\ k < g.y
      BY <1>1, <1>11, <2>1
    <3> QED
      BY <1>10, <1>11, <2>1, <3>1 DEF bound
  <2>2. CASE k # y
    <3>1. g.column[k] = f.column[k] /\ (k < y <=> k < g.y) /\ g.x = x
      BY <1>1, <1>11, <2>2
    <3>2. h[k][IF k < y THEN x ELSE x - 1] <= f.column[k]
      BY DEF Above
    <3> QED
      BY <3>1, <3>2
  <2> QED
    BY <2>1, <2>2
<1>14. h[g.y - 1][g.x - 1] <= g.lastdiag
  <2>1. g.y - 1 = y /\ g.x - 1 = x - 1
    BY <1>1, <1>11
  <2> QED
    BY <1>6, <1>11, <2>1
<1>15. g.x # 0
  BY <1>2, <1>11
<1> QED
  BY <1>12, <1>13, <1>14, <1>15 DEF Above, g

\* The distance is not below the bound of the last cell.
LEMMA DistanceAbove ==
    ASSUME NEW s \in Seq(Bit), NEW t \in Seq(Bit), NEW h, Bounds(h, s, t)
    PROVE  h[Len(s)][Len(t)] <= levenshtein(s, t)
<1> DEFINE J == {f \in Frames(s, t) : Above(h, s, t, f)}
<1>1. Len(s) \in Nat /\ Len(t) \in Nat /\ Len(s) \in 0 .. Len(s)
  OBVIOUS
<1>2. Begin(s) \in J
  <2> DEFINE g == Begin(s)
  <2>1. /\ g \in Frames(s, t) /\ g.x = 0 /\ g.y = Len(s) + 1
        /\ g.column = [k \in 0 .. Len(s) |-> k]
    BY <1>1 DEF Begin, Frames
  <2> HIDE DEF g
  <2>2. Above(h, s, t, g)
    BY <1>1, <2>1 DEF Above, Bounds
  <2> QED
    BY <2>1, <2>2 DEF g
<1>3. ASSUME NEW f \in J, ~ Finished(s, t, f)
      PROVE  Advance(s, t, f) \in J
  <2>1. Above(h, s, t, Advance(s, t, f))
    BY <1>3, NextColumnIsAbove, CellIsAbove DEF Advance, Finished
  <2> QED
    BY <2>1 DEF Above
<1>4. Kept(s, t, J)
  BY <1>3 DEF Kept
<1> HIDE DEF J
<1>5. PICK g \in J : /\ g.x = Len(t) /\ g.y = Len(s) + 1
                     /\ levenshtein(s, t) = g.column[Len(s)]
  BY <1>2, <1>4, LoopRuns
<1>6. Len(s) < g.y
  BY <1>1, <1>5
<1> QED
  BY <1>1, <1>5, <1>6 DEF J, Above

\* One edit costs one: a bound for w and t is one too large, at most, for what
\* one edit makes of w.
LEMMA OneEditBelow ==
    ASSUME NEW u \in Seq(Bit), NEW w \in Seq(Bit), NEW t \in Seq(Bit),
           NEW h, Bounds(h, w, t), OneApart(u, w, Len(u), Len(w))
    PROVE  h[Len(w)][Len(t)] - 1 <= levenshtein(u, t)
<1> DEFINE n == Len(w)
           l == Len(u)
           r == Len(t)
<1>1. n \in Nat /\ l \in Nat /\ r \in Nat
  OBVIOUS
<1>2. \A i \in 0 .. n, j \in 0 .. r : h[i][j] \in Int
  BY DEF Bounds
<1>3. \A i \in 0 .. n : h[i][0] <= i
  BY DEF Bounds
<1>4. \A j \in 0 .. r : h[0][j] <= j
  BY DEF Bounds
<1>5. \A i \in 1 .. n, j \in 0 .. r : h[i][j] <= h[i - 1][j] + 1
  BY DEF Bounds
<1>6. \A i \in 0 .. n, j \in 1 .. r : h[i][j] <= h[i][j - 1] + 1
  BY DEF Bounds
<1>7. \A i \in 1 .. n, j \in 1 .. r : h[i][j] <= h[i - 1][j - 1] + 1
  BY DEF Bounds
<1>8. \A i \in 1 .. n, j \in 1 .. r : w[i] = t[j] => h[i][j] <= h[i - 1][j - 1]
  BY DEF Bounds
<1>9. \A x, y \in Int : /\ x <= y + 1 => x - 1 <= y - 1 + 1
                        /\ x <= y => x - 1 <= y - 1
  OBVIOUS
<1>10. \A x, y, z \in Int : z <= y + 1 /\ x <= z + 1 => x - 1 <= y + 1
  OBVIOUS
<1>11. \A x, y, z \in Int : z <= y + 1 /\ x <= z => x - 1 <= y
  OBVIOUS
<1>12. ASSUME l = n, NEW e \in 0 .. n, \A j \in 1 .. n : j # e => u[j] = w[j]
       PROVE  h[n][r] - 1 <= levenshtein(u, t)
  <2> DEFINE g == [i \in 0 .. l |-> [j \in 0 .. r |->
                      IF i < e THEN h[i][j] ELSE h[i][j] - 1]]
  <2>1. e \in Nat /\ e <= n /\ l = n
    BY <1>1, <1>12
  <2> HIDE DEF l, n, r
  <2>2. ASSUME NEW i \in 0 .. l, NEW j \in 0 .. r
        PROVE  /\ i < e => i \in 0 .. n /\ g[i][j] = h[i][j]
               /\ ~ (i < e) => i \in 0 .. n /\ g[i][j] = h[i][j] - 1
               /\ g[i][j] \in Int
    <3>1. i < e => i \in 0 .. n
      BY <1>1, <2>1
    <3>2. ~ (i < e) => i \in 0 .. n
      BY <1>1, <2>1
    <3> QED
      BY <1>2, <3>1, <3>2
  <2>3. g \in [0 .. l -> [0 .. r -> Int]]
    BY <2>2
  <2> HIDE DEF g
  <2>4. ASSUME NEW i \in 0 .. l PROVE g[i][0] <= i
    <3>1. 0 \in 0 .. r
      BY <1>1
    <3>2. i < e => i \in 0 .. n /\ h[i][0] <= i
      BY <1>1, <1>3, <2>1
    <3>3. ~ (i < e) => i \in 0 .. n
      BY <2>2, <3>1
    <3>4. ~ (i < e) => h[i][0] <= i /\ h[i][0] \in Int
      BY <1>2, <1>3, <3>1, <3>3
    <3> QED
      BY <2>2, <3>1, <3>2, <3>4
  <2>5. ASSUME NEW j \in 0 .. r PROVE g[0][j] <= j
    <3>1. 0 \in 0 .. l /\ 0 \in 0 .. n
      BY <1>1
    <3>2. h[0][j] <= j
      BY <1>4
    <3>3. h[0][j] \in Int
      BY <1>2, <3>1
    <3> QED
      BY <2>1, <2>2, <3>1, <3>2, <3>3
  <2>6. ASSUME NEW i \in 1 .. l, NEW j \in 0 .. r PROVE g[i][j] <= g[i - 1][j] + 1
    <3>1. i \in 0 .. l /\ i - 1 \in 0 .. l /\ i - 1 < i
      BY <1>1
    <3>2. CASE i < e
      <4>1. i \in 1 .. n /\ i - 1 < e
        BY <1>1, <2>1, <3>2
      <4>2. g[i][j] = h[i][j] /\ g[i - 1][j] = h[i - 1][j]
        BY <2>2, <3>1, <3>2, <4>1
      <4> QED
        BY <1>5, <4>1, <4>2
    <3>3. CASE i = e
      <4>1. i \in 1 .. n /\ i - 1 < e /\ ~ (i < e)
        BY <1>1, <2>1, <3>3
      <4>2. /\ g[i][j] = h[i][j] - 1 /\ g[i - 1][j] = h[i - 1][j]
            /\ h[i][j] <= h[i - 1][j] + 1
        BY <1>5, <2>2, <3>1, <4>1
      <4>3. h[i][j] \in Int /\ h[i - 1][j] \in Int
        BY <1>2, <2>1, <3>1
      <4> QED
        BY <4>2, <4>3
    <3>4. CASE i > e
      <4>1. i \in 1 .. n /\ ~ (i - 1 < e) /\ ~ (i < e)
        BY <1>1, <2>1, <3>4
      <4>2. /\ g[i][j] = h[i][j] - 1 /\ g[i - 1][j] = h[i - 1][j] - 1
            /\ h[i][j] <= h[i - 1][j] + 1
        BY <1>5, <2>2, <3>1, <4>1
      <4>3. h[i][j] \in Int /\ h[i - 1][j] \in Int
        BY <1>2, <2>1, <3>1
      <4> QED
        BY <4>2, <4>3
    <3> QED
      BY <2>1, <3>2, <3>3, <3>4
  <2>7. ASSUME NEW i \in 0 .. l, NEW j \in 1 .. r PROVE g[i][j] <= g[i][j - 1] + 1
    <3>1. j \in 0 .. r /\ j - 1 \in 0 .. r
      BY <1>1
    <3>2. CASE i < e
      <4>1. /\ i \in 0 .. n /\ g[i][j] = h[i][j] /\ g[i][j - 1] = h[i][j - 1]
        BY <2>2, <3>1, <3>2
      <4> QED
        BY <1>6, <4>1
    <3>3. CASE ~ (i < e)
      <4>1. /\ i \in 0 .. n /\ g[i][j] = h[i][j] - 1
            /\ g[i][j - 1] = h[i][j - 1] - 1
        BY <2>2, <3>1, <3>3
      <4>2. /\ h[i][j] \in Int /\ h[i][j - 1] \in Int
            /\ h[i][j] <= h[i][j - 1] + 1
        BY <1>2, <1>6, <3>1, <4>1
      <4> QED
        BY <4>1, <4>2
    <3> QED
      BY <3>2, <3>3
  <2>8. ASSUME NEW i \in 1 .. l, NEW j \in 1 .. r
        PROVE  /\ g[i][j] <= g[i - 1][j - 1] + 1
               /\ u[i] = t[j] => g[i][j] <= g[i - 1][j - 1]
    <3>1. /\ i \in 0 .. l /\ i - 1 \in 0 .. l /\ j \in 0 .. r /\ j - 1 \in 0 .. r
      BY <1>1
    <3>2. CASE i < e
      <4>1. i \in 1 .. n /\ i - 1 < e /\ u[i] = w[i]
        BY <1>1, <1>12, <2>1, <3>2
      <4>2. g[i][j] = h[i][j] /\ g[i - 1][j - 1] = h[i - 1][j - 1]
        BY <2>2, <3>1, <3>2, <4>1
      <4> QED
        BY <1>7, <1>8, <4>1, <4>2
    <3>3. CASE i = e
      <4>1. i \in 1 .. n /\ i - 1 < e /\ ~ (i < e)
        BY <1>1, <2>1, <3>3
      <4>2. /\ g[i][j] = h[i][j] - 1 /\ g[i - 1][j - 1] = h[i - 1][j - 1]
            /\ h[i][j] <= h[i - 1][j - 1] + 1
        BY <1>7, <2>2, <3>1, <4>1
      <4>3. h[i][j] \in Int /\ h[i - 1][j - 1] \in Int
        BY <1>2, <2>1, <3>1
      <4> QED
        BY <4>2, <4>3
    <3>4. CASE i > e
      <4>1. i \in 1 .. n /\ ~ (i - 1 < e) /\ ~ (i < e) /\ u[i] = w[i]
        BY <1>1, <1>12, <2>1, <3>4
      <4>2. /\ g[i][j] = h[i][j] - 1 /\ g[i - 1][j - 1] = h[i - 1][j - 1] - 1
            /\ h[i][j] <= h[i - 1][j - 1] + 1
            /\ u[i] = t[j] => h[i][j] <= h[i - 1][j - 1]
        BY <1>7, <1>8, <2>2, <3>1, <4>1
      <4>3. h[i][j] \in Int /\ h[i - 1][j - 1] \in Int
        BY <1>2, <2>1, <3>1
      <4> QED
        BY <4>2, <4>3, SMTT(30)
    <3> QED
      BY <2>1, <3>2, <3>3, <3>4
  <2>9. Bounds(g, u, t)
    BY <2>3, <2>4, <2>5, <2>6, <2>7, <2>8 DEF Bounds, l, r
  <2>10. g[l][r] <= levenshtein(u, t)
    BY <2>9, DistanceAbove DEF l, r
  <2>11. l \in 0 .. l /\ r \in 0 .. r /\ n \in 0 .. n
    BY <1>1
  <2>12. h[n][r] \in Int /\ g[l][r] \in Int /\ levenshtein(u, t) \in Nat
    <3>1. levenshtein(u, t) \in Nat
      BY ResultBound
    <3> QED
      BY <1>2, <2>2, <2>11, <3>1
  <2>13. h[n][r] - 1 <= g[l][r]
    BY <2>1, <2>2, <2>11, <2>12
  <2> QED
    BY <2>10, <2>12, <2>13
<1>13. ASSUME l = n + 1, NEW e \in 1 .. l, \A j \in 1 .. e - 1 : u[j] = w[j],
              \A j \in e + 1 .. l : u[j] = w[j - 1]
       PROVE  h[n][r] - 1 <= levenshtein(u, t)
  <2> DEFINE g == [i \in 0 .. l |-> [j \in 0 .. r |->
                      IF i < e THEN h[i][j] ELSE h[i - 1][j] - 1]]
  <2>1. e \in Nat /\ e <= l /\ e >= 1 /\ l = n + 1
    BY <1>1, <1>13
  <2> HIDE DEF l, n, r
  <2>2. ASSUME NEW i \in 0 .. l, NEW j \in 0 .. r
        PROVE  /\ i < e => i \in 0 .. n /\ g[i][j] = h[i][j]
               /\ ~ (i < e) => i - 1 \in 0 .. n /\ g[i][j] = h[i - 1][j] - 1
               /\ g[i][j] \in Int
    <3>1. i < e => i \in 0 .. n
      BY <1>1, <2>1
    <3>2. ~ (i < e) => i - 1 \in 0 .. n
      BY <1>1, <2>1
    <3> QED
      BY <1>2, <3>1, <3>2
  <2>3. g \in [0 .. l -> [0 .. r -> Int]]
    BY <2>2
  <2> HIDE DEF g
  <2>4. ASSUME NEW i \in 0 .. l PROVE g[i][0] <= i
    <3>1. 0 \in 0 .. r
      BY <1>1
    <3>2. i < e => i \in 0 .. n /\ h[i][0] <= i
      BY <1>1, <1>3, <2>1
    <3>3. ~ (i < e) => i - 1 \in 0 .. n
      BY <2>2, <3>1
    <3>4. ~ (i < e) => h[i - 1][0] <= i - 1 /\ h[i - 1][0] \in Int
      BY <1>2, <1>3, <3>1, <3>3
    <3> QED
      BY <2>2, <3>1, <3>2, <3>4
  <2>5. ASSUME NEW j \in 0 .. r PROVE g[0][j] <= j
    <3>1. 0 \in 0 .. l /\ 0 \in 0 .. n
      BY <1>1
    <3>2. h[0][j] <= j
      BY <1>4
    <3>3. h[0][j] \in Int
      BY <1>2, <3>1
    <3> QED
      BY <2>1, <2>2, <3>1, <3>2, <3>3
  <2>6. ASSUME NEW i \in 1 .. l, NEW j \in 0 .. r PROVE g[i][j] <= g[i - 1][j] + 1
    <3>1. i \in 0 .. l /\ i - 1 \in 0 .. l /\ i - 1 < i
      BY <1>1
    <3>2. CASE i < e
      <4>1. i \in 1 .. n /\ i - 1 < e
        BY <1>1, <2>1, <3>2
      <4>2. g[i][j] = h[i][j] /\ g[i - 1][j] = h[i - 1][j]
        BY <2>2, <3>1, <3>2, <4>1
      <4> QED
        BY <1>5, <4>1, <4>2
    <3>3. CASE i = e
      <4>1. i - 1 < e /\ ~ (i < e)
        BY <3>3
      <4>2. g[i][j] = h[i - 1][j] - 1 /\ g[i - 1][j] = h[i - 1][j]
        BY <2>2, <3>1, <4>1
      <4> QED
        BY <2>2, <3>1, <4>2
    <3>4. CASE i > e
      <4>1. i - 1 \in 1 .. n /\ ~ (i - 1 < e) /\ ~ (i < e) /\ i - 1 - 1 \in 0 .. n
        BY <1>1, <2>1, <3>4
      <4>2. /\ g[i][j] = h[i - 1][j] - 1 /\ g[i - 1][j] = h[i - 1 - 1][j] - 1
            /\ h[i - 1][j] <= h[i - 1 - 1][j] + 1
        BY <1>5, <2>2, <3>1, <4>1
      <4>3. h[i - 1][j] \in Int /\ h[i - 1 - 1][j] \in Int
        BY <1>2, <4>1
      <4>4. h[i - 1][j] - 1 <= h[i - 1 - 1][j] - 1 + 1
        <5>1. h[i - 1][j] <= h[i - 1 - 1][j] + 1
          BY <4>2
        <5> QED
          BY <1>9, <4>3, <5>1, ZenonT(60)
      <4> QED
        BY <4>2, <4>4, Zenon
    <3> QED
      BY <2>1, <3>2, <3>3, <3>4
  <2>7. ASSUME NEW i \in 0 .. l, NEW j \in 1 .. r PROVE g[i][j] <= g[i][j - 1] + 1
    <3>1. j \in 0 .. r /\ j - 1 \in 0 .. r
      BY <1>1
    <3>2. CASE i < e
      <4>1. /\ i \in 0 .. n /\ g[i][j] = h[i][j] /\ g[i][j - 1] = h[i][j - 1]
        BY <2>2, <3>1, <3>2
      <4> QED
        BY <1>6, <4>1
    <3>3. CASE ~ (i < e)
      <4>1. /\ i - 1 \in 0 .. n /\ g[i][j] = h[i - 1][j] - 1
            /\ g[i][j - 1] = h[i - 1][j - 1] - 1
        BY <2>2, <3>1, <3>3
      <4>2. /\ h[i - 1][j] \in Int /\ h[i - 1][j - 1] \in Int
            /\ h[i - 1][j] <= h[i - 1][j - 1] + 1
        BY <1>2, <1>6, <3>1, <4>1
      <4> QED
        BY <4>1, <4>2
    <3> QED
      BY <3>2, <3>3
  <2>8. ASSUME NEW i \in 1 .. l, NEW j \in 1 .. r
        PROVE  /\ g[i][j] <= g[i - 1][j - 1] + 1
               /\ u[i] = t[j] => g[i][j] <= g[i - 1][j - 1]
    <3>1. /\ i \in 0 .. l /\ i - 1 \in 0 .. l /\ j \in 0 .. r /\ j - 1 \in 0 .. r
      BY <1>1
    <3>2. CASE i < e
      <4>1. i \in 1 .. n /\ i - 1 < e /\ u[i] = w[i]
        BY <1>1, <1>13, <2>1, <3>2
      <4>2. g[i][j] = h[i][j] /\ g[i - 1][j - 1] = h[i - 1][j - 1]
        BY <2>2, <3>1, <3>2, <4>1
      <4> QED
        BY <1>7, <1>8, <4>1, <4>2
    <3>3. CASE i = e
      <4>1. i - 1 < e /\ ~ (i < e) /\ i - 1 \in 0 .. n
        BY <1>1, <2>1, <3>3
      <4>2. /\ g[i][j] = h[i - 1][j] - 1 /\ g[i - 1][j - 1] = h[i - 1][j - 1]
            /\ h[i - 1][j] <= h[i - 1][j - 1] + 1
        BY <1>6, <2>2, <3>1, <4>1
      <4>3. h[i - 1][j] \in Int /\ h[i - 1][j - 1] \in Int
        BY <1>2, <3>1, <4>1
      <4> QED
        BY <4>2, <4>3, SMTT(30)
    <3>4. CASE i > e
      <4>1. /\ i - 1 \in 1 .. n /\ ~ (i - 1 < e) /\ ~ (i < e) /\ i - 1 - 1 \in 0 .. n
            /\ u[i] = w[i - 1] /\ i - 1 \in 0 .. n
        BY <1>1, <1>13, <2>1, <3>4
      <4>2. /\ g[i][j] = h[i - 1][j] - 1
            /\ g[i - 1][j - 1] = h[i - 1 - 1][j - 1] - 1
            /\ h[i - 1][j] <= h[i - 1 - 1][j - 1] + 1
            /\ u[i] = t[j] => h[i - 1][j] <= h[i - 1 - 1][j - 1]
        BY <1>7, <1>8, <2>2, <3>1, <4>1
      <4>3. h[i - 1][j] \in Int /\ h[i - 1 - 1][j - 1] \in Int
        BY <1>2, <3>1, <4>1
      <4>4. h[i - 1][j] - 1 <= h[i - 1 - 1][j - 1] - 1 + 1
        <5>1. h[i - 1][j] <= h[i - 1 - 1][j - 1] + 1
          BY <4>2
        <5> QED
          BY <1>9, <4>3, <5>1, ZenonT(60)
      <4>5. u[i] = t[j] => h[i - 1][j] - 1 <= h[i - 1 - 1][j - 1] - 1
        <5> SUFFICES ASSUME u[i] = t[j]
                     PROVE  h[i - 1][j] - 1 <= h[i - 1 - 1][j - 1] - 1
          OBVIOUS
        <5>1. h[i - 1][j] <= h[i - 1 - 1][j - 1]
          BY <4>2
        <5> QED
          BY <1>9, <4>3, <5>1, ZenonT(60)
      <4> QED
        BY <4>2, <4>4, <4>5, Zenon
    <3> QED
      BY <2>1, <3>2, <3>3, <3>4
  <2>9. Bounds(g, u, t)
    BY <2>3, <2>4, <2>5, <2>6, <2>7, <2>8 DEF Bounds, l, r
  <2>10. g[l][r] <= levenshtein(u, t)
    BY <2>9, DistanceAbove DEF l, r
  <2>11. l \in 0 .. l /\ r \in 0 .. r /\ n \in 0 .. n
    BY <1>1
  <2>12. h[n][r] \in Int /\ g[l][r] \in Int /\ levenshtein(u, t) \in Nat
    <3>1. levenshtein(u, t) \in Nat
      BY ResultBound
    <3> QED
      BY <1>2, <2>2, <2>11, <3>1
  <2>13. h[n][r] - 1 <= g[l][r]
    <3>1. ~ (l < e) /\ l - 1 = n
      BY <1>1, <2>1
    <3> QED
      BY <2>2, <2>11, <2>12, <3>1
  <2> QED
    BY <2>10, <2>12, <2>13
<1>14. ASSUME n = l + 1, NEW e \in 1 .. n, \A j \in 1 .. e - 1 : w[j] = u[j],
              \A j \in e + 1 .. n : w[j] = u[j - 1]
       PROVE  h[n][r] - 1 <= levenshtein(u, t)
  <2> DEFINE g == [i \in 0 .. l |-> [j \in 0 .. r |->
                      IF i < e THEN h[i][j] ELSE h[i + 1][j] - 1]]
  <2>1. e \in Nat /\ e <= n /\ e >= 1 /\ n = l + 1
    BY <1>1, <1>14
  <2> HIDE DEF l, n, r
  <2>2. ASSUME NEW i \in 0 .. l, NEW j \in 0 .. r
        PROVE  /\ i < e => i \in 0 .. n /\ g[i][j] = h[i][j]
               /\ ~ (i < e) => i + 1 \in 0 .. n /\ g[i][j] = h[i + 1][j] - 1
               /\ g[i][j] \in Int
    <3>1. i < e => i \in 0 .. n
      BY <1>1, <2>1
    <3>2. ~ (i < e) => i + 1 \in 0 .. n
      BY <1>1, <2>1
    <3> QED
      BY <1>2, <3>1, <3>2
  <2>3. g \in [0 .. l -> [0 .. r -> Int]]
    BY <2>2
  <2> HIDE DEF g
  <2>4. ASSUME NEW i \in 0 .. l PROVE g[i][0] <= i
    <3>1. 0 \in 0 .. r
      BY <1>1
    <3>2. i < e => i \in 0 .. n /\ h[i][0] <= i
      BY <1>1, <1>3, <2>1
    <3>3. ~ (i < e) => i + 1 \in 0 .. n
      BY <2>2, <3>1
    <3>4. ~ (i < e) => h[i + 1][0] <= i + 1 /\ h[i + 1][0] \in Int
      BY <1>2, <1>3, <3>1, <3>3
    <3> QED
      BY <2>2, <3>1, <3>2, <3>4
  <2>5. ASSUME NEW j \in 0 .. r PROVE g[0][j] <= j
    <3>1. 0 \in 0 .. l /\ 0 \in 0 .. n
      BY <1>1
    <3>2. h[0][j] <= j
      BY <1>4
    <3>3. h[0][j] \in Int
      BY <1>2, <3>1
    <3> QED
      BY <2>1, <2>2, <3>1, <3>2, <3>3
  <2>6. ASSUME NEW i \in 1 .. l, NEW j \in 0 .. r PROVE g[i][j] <= g[i - 1][j] + 1
    <3>1. i \in 0 .. l /\ i - 1 \in 0 .. l /\ i - 1 < i
      BY <1>1
    <3>2. CASE i < e
      <4>1. i \in 1 .. n /\ i - 1 < e
        BY <1>1, <2>1, <3>2
      <4>2. g[i][j] = h[i][j] /\ g[i - 1][j] = h[i - 1][j]
        BY <2>2, <3>1, <3>2, <4>1
      <4> QED
        BY <1>5, <4>1, <4>2
    <3>3. CASE i = e
      <4>1. /\ i - 1 < e /\ ~ (i < e) /\ i \in 1 .. n /\ i + 1 \in 1 .. n
            /\ i + 1 - 1 = i /\ i - 1 \in 0 .. n
        BY <1>1, <2>1, <3>3
      <4>2. /\ g[i][j] = h[i + 1][j] - 1 /\ g[i - 1][j] = h[i - 1][j]
            /\ h[i][j] <= h[i - 1][j] + 1
        BY <1>5, <2>2, <3>1, <4>1
      <4>3. h[i + 1][j] <= h[i][j] + 1
        BY <1>5, <4>1
      <4>4. h[i][j] \in Int /\ h[i + 1][j] \in Int /\ h[i - 1][j] \in Int
        BY <1>2, <4>1
      <4>5. h[i + 1][j] - 1 <= h[i - 1][j] + 1
        BY <1>10, <4>2, <4>3, <4>4, ZenonT(60)
      <4> QED
        BY <4>2, <4>5, Zenon
    <3>4. CASE i > e
      <4>1. /\ ~ (i - 1 < e) /\ ~ (i < e) /\ i \in 0 .. n /\ i + 1 \in 1 .. n
            /\ i + 1 - 1 = i /\ i - 1 + 1 = i
        BY <1>1, <2>1, <3>4
      <4>2. /\ g[i][j] = h[i + 1][j] - 1 /\ g[i - 1][j] = h[i][j] - 1
        BY <2>2, <3>1, <4>1
      <4>3. h[i + 1][j] <= h[i][j] + 1
        BY <1>5, <4>1
      <4>4. h[i][j] \in Int /\ h[i + 1][j] \in Int
        BY <1>2, <4>1
      <4> QED
        BY <4>2, <4>3, <4>4, SMTT(30)
    <3> QED
      BY <2>1, <3>2, <3>3, <3>4
  <2>7. ASSUME NEW i \in 0 .. l, NEW j \in 1 .. r PROVE g[i][j] <= g[i][j - 1] + 1
    <3>1. j \in 0 .. r /\ j - 1 \in 0 .. r
      BY <1>1
    <3>2. CASE i < e
      <4>1. /\ i \in 0 .. n /\ g[i][j] = h[i][j] /\ g[i][j - 1] = h[i][j - 1]
        BY <2>2, <3>1, <3>2
      <4> QED
        BY <1>6, <4>1
    <3>3. CASE ~ (i < e)
      <4>1. /\ i + 1 \in 0 .. n /\ g[i][j] = h[i + 1][j] - 1
            /\ g[i][j - 1] = h[i + 1][j - 1] - 1
        BY <2>2, <3>1, <3>3
      <4>2. /\ h[i + 1][j] \in Int /\ h[i + 1][j - 1] \in Int
            /\ h[i + 1][j] <= h[i + 1][j - 1] + 1
        BY <1>2, <1>6, <3>1, <4>1
      <4> QED
        BY <4>1, <4>2
    <3> QED
      BY <3>2, <3>3
  <2>8. ASSUME NEW i \in 1 .. l, NEW j \in 1 .. r
        PROVE  /\ g[i][j] <= g[i - 1][j - 1] + 1
               /\ u[i] = t[j] => g[i][j] <= g[i - 1][j - 1]
    <3>1. /\ i \in 0 .. l /\ i - 1 \in 0 .. l /\ j \in 0 .. r /\ j - 1 \in 0 .. r
      BY <1>1
    <3>2. CASE i < e
      <4>1. i \in 1 .. n /\ i - 1 < e /\ u[i] = w[i]
        BY <1>1, <1>14, <2>1, <3>2
      <4>2. g[i][j] = h[i][j] /\ g[i - 1][j - 1] = h[i - 1][j - 1]
        BY <2>2, <3>1, <3>2, <4>1
      <4> QED
        BY <1>7, <1>8, <4>1, <4>2
    <3>3. CASE i = e
      <4>1. /\ i - 1 < e /\ ~ (i < e) /\ i \in 1 .. n /\ i + 1 \in 1 .. n
            /\ i + 1 - 1 = i /\ i - 1 \in 0 .. n /\ u[i] = w[i + 1]
        <5>1. i + 1 \in e + 1 .. n /\ i + 1 - 1 = i
          BY <1>1, <2>1, <3>3
        <5> QED
          BY <1>1, <1>14, <2>1, <3>3, <5>1
      <4>2. g[i][j] = h[i + 1][j] - 1 /\ g[i - 1][j - 1] = h[i - 1][j - 1]
        BY <2>2, <3>1, <4>1
      <4>3. /\ h[i + 1][j] <= h[i][j - 1] + 1
            /\ u[i] = t[j] => h[i + 1][j] <= h[i][j - 1]
        BY <1>7, <1>8, <4>1, SMTT(30)
      <4>4. h[i][j - 1] <= h[i - 1][j - 1] + 1
        BY <1>5, <3>1, <4>1
      <4>5. h[i][j - 1] \in Int /\ h[i + 1][j] \in Int /\ h[i - 1][j - 1] \in Int
        BY <1>2, <3>1, <4>1
      <4>6. h[i + 1][j] - 1 <= h[i - 1][j - 1] + 1
        BY <1>10, <4>3, <4>4, <4>5, Zenon
      <4>7. u[i] = t[j] => h[i + 1][j] - 1 <= h[i - 1][j - 1]
        BY <1>11, <4>3, <4>4, <4>5, Zenon
      <4> QED
        BY <4>2, <4>6, <4>7, Zenon
    <3>4. CASE i > e
      <4>1. /\ ~ (i - 1 < e) /\ ~ (i < e) /\ i \in 0 .. n /\ i + 1 \in 1 .. n
            /\ i + 1 - 1 = i /\ i - 1 + 1 = i /\ u[i] = w[i + 1]
        <5>1. i + 1 \in e + 1 .. n /\ i + 1 - 1 = i
          BY <1>1, <2>1, <3>4
        <5> QED
          BY <1>1, <1>14, <2>1, <3>4, <5>1
      <4>2. g[i][j] = h[i + 1][j] - 1 /\ g[i - 1][j - 1] = h[i][j - 1] - 1
        BY <2>2, <3>1, <4>1
      <4>3. /\ h[i + 1][j] <= h[i][j - 1] + 1
            /\ w[i + 1] = t[j] => h[i + 1][j] <= h[i][j - 1]
        BY <1>7, <1>8, <4>1
      <4>4. h[i][j - 1] \in Int /\ h[i + 1][j] \in Int
        BY <1>2, <3>1, <4>1
      <4>5. h[i + 1][j] - 1 <= h[i][j - 1] - 1 + 1
        <5>1. h[i + 1][j] <= h[i][j - 1] + 1
          BY <4>3
        <5> QED
          BY <1>9, <4>4, <5>1, ZenonT(60)
      <4>6. u[i] = t[j] => h[i + 1][j] - 1 <= h[i][j - 1] - 1
        <5> SUFFICES ASSUME u[i] = t[j] PROVE h[i + 1][j] - 1 <= h[i][j - 1] - 1
          OBVIOUS
        <5>1. h[i + 1][j] <= h[i][j - 1]
          BY <4>1, <4>3
        <5> QED
          BY <1>9, <4>4, <5>1, ZenonT(60)
      <4> QED
        BY <4>2, <4>5, <4>6, Zenon
    <3> QED
      BY <2>1, <3>2, <3>3, <3>4
  <2>9. Bounds(g, u, t)
    BY <2>3, <2>4, <2>5, <2>6, <2>7, <2>8 DEF Bounds, l, r
  <2>10. g[l][r] <= levenshtein(u, t)
    BY <2>9, DistanceAbove DEF l, r
  <2>11. l \in 0 .. l /\ r \in 0 .. r /\ n \in 0 .. n
    BY <1>1
  <2>12. h[n][r] \in Int /\ g[l][r] \in Int /\ levenshtein(u, t) \in Nat
    <3>1. levenshtein(u, t) \in Nat
      BY ResultBound
    <3> QED
      BY <1>2, <2>2, <2>11, <3>1
  <2>13. h[n][r] - 1 <= g[l][r]
    <3>1. CASE l < e
      <4>1. n \in 1 .. n /\ n - 1 = l
        BY <1>1, <2>1
      <4>2. h[n][r] <= h[l][r] + 1 /\ g[l][r] = h[l][r]
        BY <1>5, <2>2, <2>11, <3>1, <4>1
      <4> QED
        BY <2>12, <4>2
    <3>2. CASE ~ (l < e)
      BY <2>1, <2>2, <2>11, <2>12, <3>2
    <3> QED
      BY <3>1, <3>2
  <2> QED
    BY <2>10, <2>12, <2>13
<1> QED
  BY <1>12, <1>13, <1>14 DEF OneApart, AlmostAgree, Longer

-----------------------------------------------------------------------------
(* Two code words are far apart, even when one of them gets the extra 1 of  *)
(* detect_with_lev before it or after it.  Between a word and the other one *)
(* with its extra 1, the bound of a cell depends on its row and on how far  *)
(* it is from the diagonal; it grows in the block of a bit in which the     *)
(* words differ, and where the extra 1 moves an amble's zero against a one. *)

\* How far a cell is from the diagonal.
Off(e) == IF e < 0 THEN -e ELSE e

\* In the block of three that begins at a: after its first and second row.
InBlock(r, e) ==
    IF e < 0 THEN -e
    ELSE IF r = 1 THEN IF e <= 2 THEN e + 1 ELSE 5 - e
    ELSE IF e <= 1 THEN e + 2 ELSE 5 - e

\* Where the other word has an extra 1 before it: the rows are i characters of
\* the word, and e is how much further one is in the other.
CostBefore(a, i, e) ==
    IF i <= 1 THEN Off(e)
    ELSE IF i < a THEN IF e = 0 THEN 1 ELSE Off(e)
    ELSE IF i <= a + 1 THEN InBlock(i - a + 1, e)
    ELSE 4 - Off(e - 1)

\* Where the other word has an extra 1 after it; z is the row before the last.
CostAfter(a, z, i, e) ==
    IF i < a THEN Off(e)
    ELSE IF i <= a + 1 THEN InBlock(i - a + 1, e)
    ELSE IF i < z /\ e = 1 THEN 3
    ELSE 4 - Off(e - 1)

\* Along the diagonal CostBefore grows in five places only.
LEMMA CostBeforeGrows ==
    ASSUME NEW a \in Nat, a >= 3, NEW i \in Nat, NEW e \in Int
    PROVE  /\ CostBefore(a, i, e) \in Int
           /\ CostBefore(a, i, e) <= CostBefore(a, i, e - 1) + 1
           /\ i > 0 =>
                 /\ CostBefore(a, i, e) <= CostBefore(a, i - 1, e + 1) + 1
                 /\ CostBefore(a, i, e) <= CostBefore(a, i - 1, e) + 1
                 /\ \/ CostBefore(a, i, e) <= CostBefore(a, i - 1, e)
                    \/ i = 2 /\ e = 0
                    \/ i = a /\ e \in 1 .. 2
                    \/ i = a + 1 /\ e \in 0 .. 1
                    \/ i = a + 2 /\ e \in -1 .. 1
<1> USE DEF CostBefore, InBlock, Off
<1>1. CASE i <= 1
  BY <1>1
<1>2. CASE i = 2
  BY <1>2
<1>3. CASE i > 2 /\ i < a
  BY <1>3
<1>4. CASE i = a
  BY <1>4
<1>5. CASE i = a + 1
  BY <1>5
<1>6. CASE i = a + 2
  BY <1>6
<1>7. CASE i > a + 2
  BY <1>7
<1> QED
  BY <1>1, <1>2, <1>3, <1>4, <1>5, <1>6, <1>7

\* And CostAfter in four.
LEMMA CostAfterGrows ==
    ASSUME NEW a \in Nat, a >= 3, NEW z \in Nat, z >= a + 3,
           NEW i \in Nat, NEW e \in Int
    PROVE  /\ CostAfter(a, z, i, e) \in Int
           /\ CostAfter(a, z, i, e) <= CostAfter(a, z, i, e - 1) + 1
           /\ i > 0 =>
                 /\ CostAfter(a, z, i, e) <= CostAfter(a, z, i - 1, e + 1) + 1
                 /\ CostAfter(a, z, i, e) <= CostAfter(a, z, i - 1, e) + 1
                 /\ \/ CostAfter(a, z, i, e) <= CostAfter(a, z, i - 1, e)
                    \/ i = a /\ e \in 0 .. 2
                    \/ i = a + 1 /\ e \in 0 .. 1
                    \/ i = a + 2 /\ e \in -1 .. 0
                    \/ i = z /\ e = 1
<1> USE DEF CostAfter, InBlock, Off
<1>1. CASE i < a
  BY <1>1
<1>2. CASE i = a
  BY <1>2
<1>3. CASE i = a + 1
  BY <1>3
<1>4. CASE i = a + 2
  BY <1>4
<1>5. CASE i > a + 2 /\ i < z
  BY <1>5
<1>6. CASE i = z
  BY <1>6
<1>7. CASE i > z
  BY <1>7
<1> QED
  BY <1>1, <1>2, <1>3, <1>4, <1>5, <1>6, <1>7

\* w and x differ in the three bits from a on, whichever of them one compares.
Opposed(w, x, a) == \A q, r \in 0 .. 2 : w[a + q] # x[a + r]

\* A bound of four for w and for x with a 1 before it.
LEMMA FarBefore ==
    ASSUME NEW w \in Seq(Bit), NEW x \in Seq(Bit), NEW t \in Seq(Bit),
           Len(x) = Len(w), Len(t) = Len(w) + 1,
           \A j \in 1 .. Len(w) : t[j + 1] = x[j],
           w[2] # x[1], NEW a \in Nat, a >= 3, a + 2 <= Len(w), Opposed(w, x, a)
    PROVE  \E h : Bounds(h, w, t) /\ h[Len(w)][Len(t)] = 4
<1> DEFINE n == Len(w)
           h == [i \in 0 .. n |-> [j \in 0 .. n + 1 |-> CostBefore(a, i, j - i)]]
<1>1. n \in Nat /\ n >= a + 2
  OBVIOUS
<1>2. \A j \in 2 .. n + 1 : t[j] = x[j - 1]
  <2> SUFFICES ASSUME NEW j \in 2 .. n + 1 PROVE t[j] = x[j - 1]
    OBVIOUS
  <2>1. j - 1 \in 1 .. n /\ j - 1 + 1 = j
    BY <1>1
  <2> QED
    BY <2>1
<1>3. Len(t) = n + 1
  OBVIOUS
<1> HIDE DEF n
<1>4. ASSUME NEW i \in 0 .. n, NEW j \in 0 .. n + 1
      PROVE  /\ i \in Nat /\ j - i \in Int
             /\ h[i][j] = CostBefore(a, i, j - i) /\ h[i][j] \in Int
  BY <1>1, CostBeforeGrows
<1>5. h \in [0 .. n -> [0 .. n + 1 -> Int]]
  BY <1>4
<1> HIDE DEF h
<1>6. ASSUME NEW i \in 0 .. n PROVE h[i][0] <= i
  <2>1. h[i][0] = CostBefore(a, i, 0 - i) /\ i \in Nat
    <3>1. 0 \in 0 .. n + 1
      BY <1>1
    <3> QED
      BY <1>4, <3>1
  <2> QED
    BY <2>1 DEF CostBefore, InBlock, Off
<1>7. ASSUME NEW j \in 0 .. n + 1 PROVE h[0][j] <= j
  <2>1. h[0][j] = CostBefore(a, 0, j - 0) /\ j \in Nat
    <3>1. 0 \in 0 .. n /\ j \in Nat
      BY <1>1
    <3>2. h[0][j] = CostBefore(a, 0, j - 0)
      BY <1>4, <3>1, Zenon
    <3> QED
      BY <3>1, <3>2
  <2> QED
    BY <2>1 DEF CostBefore, Off
<1>8. ASSUME NEW i \in 1 .. n, NEW j \in 0 .. n + 1 PROVE h[i][j] <= h[i - 1][j] + 1
  <2>1. /\ i \in 0 .. n /\ i - 1 \in 0 .. n /\ i \in Nat /\ i > 0
        /\ j - i \in Int /\ j - i + 1 = j - (i - 1)
    BY <1>1
  <2>2. /\ h[i][j] = CostBefore(a, i, j - i)
        /\ h[i - 1][j] = CostBefore(a, i - 1, j - i + 1)
    BY <1>4, <2>1
  <2> QED
    BY <2>1, <2>2, CostBeforeGrows
<1>9. ASSUME NEW i \in 0 .. n, NEW j \in 1 .. n + 1 PROVE h[i][j] <= h[i][j - 1] + 1
  <2>1. /\ j \in 0 .. n + 1 /\ j - 1 \in 0 .. n + 1 /\ i \in Nat
        /\ j - i \in Int /\ j - i - 1 = j - 1 - i
    BY <1>1
  <2>2. /\ h[i][j] = CostBefore(a, i, j - i)
        /\ h[i][j - 1] = CostBefore(a, i, j - i - 1)
    BY <1>4, <2>1
  <2> QED
    BY <2>1, <2>2, CostBeforeGrows
<1>10. ASSUME NEW i \in 1 .. n, NEW j \in 1 .. n + 1
       PROVE  /\ h[i][j] <= h[i - 1][j - 1] + 1
              /\ w[i] = t[j] => h[i][j] <= h[i - 1][j - 1]
  <2> DEFINE e == j - i
  <2>1. /\ i \in 0 .. n /\ i - 1 \in 0 .. n /\ i \in Nat /\ i > 0
        /\ j \in 0 .. n + 1 /\ j - 1 \in 0 .. n + 1
        /\ e \in Int /\ e = j - 1 - (i - 1) /\ j = i + e
    BY <1>1
  <2>2. /\ h[i][j] = CostBefore(a, i, e)
        /\ h[i - 1][j - 1] = CostBefore(a, i - 1, e)
    BY <1>4, <2>1
  <2> HIDE DEF e
  <2>3. ASSUME w[i] = t[j] PROVE CostBefore(a, i, e) <= CostBefore(a, i - 1, e)
    <3>1. ~ (i = 2 /\ e = 0)
      <4> SUFFICES ASSUME i = 2, e = 0 PROVE FALSE
        OBVIOUS
      <4>1. j = 2 /\ 2 \in 2 .. n + 1 /\ t[2] = x[2 - 1]
        BY <1>1, <1>2, <2>1
      <4> QED
        BY <2>3, <4>1
    <3>2. ASSUME NEW q \in 0 .. 2, NEW r \in 0 .. 2, i = a + q, j - 1 = a + r
          PROVE  FALSE
      <4>1. j \in 2 .. n + 1
        BY <1>1, <3>2
      <4> QED
        BY <1>2, <2>3, <3>2, <4>1, ZenonT(60) DEF Opposed
    <3>3. ~ (i = a /\ e \in 1 .. 2)
      <4> SUFFICES ASSUME i = a, e \in 1 .. 2 PROVE FALSE
        OBVIOUS
      <4>1. e - 1 \in 0 .. 2 /\ 0 \in 0 .. 2 /\ i = a + 0 /\ j - 1 = a + (e - 1)
        BY <2>1
      <4> QED
        BY <3>2, <4>1
    <3>4. ~ (i = a + 1 /\ e \in 0 .. 1)
      <4> SUFFICES ASSUME i = a + 1, e \in 0 .. 1 PROVE FALSE
        OBVIOUS
      <4>1. e \in 0 .. 2 /\ 1 \in 0 .. 2 /\ j - 1 = a + e
        BY <2>1
      <4> QED
        BY <3>2, <4>1
    <3>5. ~ (i = a + 2 /\ e \in -1 .. 1)
      <4> SUFFICES ASSUME i = a + 2, e \in -1 .. 1 PROVE FALSE
        OBVIOUS
      <4>1. e + 1 \in 0 .. 2 /\ 2 \in 0 .. 2 /\ j - 1 = a + (e + 1)
        BY <2>1
      <4> QED
        BY <3>2, <4>1
    <3> QED
      BY <2>1, <3>1, <3>3, <3>4, <3>5, CostBeforeGrows, ZenonT(60)
  <2> QED
    BY <2>1, <2>2, <2>3, CostBeforeGrows
<1>11. Bounds(h, w, t)
  BY <1>3, <1>5, <1>6, <1>7, <1>8, <1>9, <1>10 DEF Bounds, n
<1>12. h[n][n + 1] = 4
  <2>1. n \in 0 .. n /\ n + 1 \in 0 .. n + 1 /\ n + 1 - n = 1
    BY <1>1
  <2>2. h[n][n + 1] = CostBefore(a, n, 1)
    BY <1>4, <2>1
  <2> QED
    BY <1>1, <2>2 DEF CostBefore, Off
<1> QED
  BY <1>3, <1>11, <1>12 DEF n

\* A bound of four for w and for x with a 1 after it.
LEMMA FarAfter ==
    ASSUME NEW w \in Seq(Bit), NEW x \in Seq(Bit), NEW t \in Seq(Bit),
           Len(x) = Len(w), Len(t) = Len(w) + 1,
           \A j \in 1 .. Len(w) : t[j] = x[j],
           w[Len(w) - 1] # x[Len(w)],
           NEW a \in Nat, a >= 3, a + 4 <= Len(w), Opposed(w, x, a)
    PROVE  \E h : Bounds(h, w, t) /\ h[Len(w)][Len(t)] = 4
<1> DEFINE n == Len(w)
           z == n - 1
           h == [i \in 0 .. n |-> [j \in 0 .. n + 1 |-> CostAfter(a, z, i, j - i)]]
<1>1. n \in Nat /\ n >= a + 4 /\ z \in Nat /\ z >= a + 3
  OBVIOUS
<1>2. (\A j \in 1 .. n : t[j] = x[j]) /\ w[z] # x[n] /\ Len(t) = n + 1 /\ z = n - 1
  OBVIOUS
<1> HIDE DEF n, z
<1>3. ASSUME NEW i \in 0 .. n, NEW j \in 0 .. n + 1
      PROVE  /\ i \in Nat /\ j - i \in Int
             /\ h[i][j] = CostAfter(a, z, i, j - i) /\ h[i][j] \in Int
  BY <1>1, CostAfterGrows
<1>4. h \in [0 .. n -> [0 .. n + 1 -> Int]]
  BY <1>3
<1> HIDE DEF h
<1>5. ASSUME NEW i \in 0 .. n PROVE h[i][0] <= i
  <2>1. h[i][0] = CostAfter(a, z, i, 0 - i) /\ i \in Nat
    BY <1>1, <1>3
  <2> QED
    BY <2>1 DEF CostAfter, InBlock, Off
<1>6. ASSUME NEW j \in 0 .. n + 1 PROVE h[0][j] <= j
  <2>1. h[0][j] = CostAfter(a, z, 0, j - 0) /\ j \in Nat
    BY <1>1, <1>3
  <2> QED
    BY <2>1 DEF CostAfter, Off
<1>7. ASSUME NEW i \in 1 .. n, NEW j \in 0 .. n + 1 PROVE h[i][j] <= h[i - 1][j] + 1
  <2>1. /\ i \in 0 .. n /\ i - 1 \in 0 .. n /\ i \in Nat /\ i > 0
        /\ j - i \in Int /\ j - i + 1 = j - (i - 1)
    BY <1>1
  <2>2. /\ h[i][j] = CostAfter(a, z, i, j - i)
        /\ h[i - 1][j] = CostAfter(a, z, i - 1, j - i + 1)
    BY <1>3, <2>1
  <2> QED
    BY <1>1, <2>1, <2>2, CostAfterGrows
<1>8. ASSUME NEW i \in 0 .. n, NEW j \in 1 .. n + 1 PROVE h[i][j] <= h[i][j - 1] + 1
  <2>1. /\ j \in 0 .. n + 1 /\ j - 1 \in 0 .. n + 1 /\ i \in Nat
        /\ j - i \in Int /\ j - i - 1 = j - 1 - i
    BY <1>1
  <2>2. /\ h[i][j] = CostAfter(a, z, i, j - i)
        /\ h[i][j - 1] = CostAfter(a, z, i, j - i - 1)
    BY <1>3, <2>1
  <2> QED
    BY <1>1, <2>1, <2>2, CostAfterGrows
<1>9. ASSUME NEW i \in 1 .. n, NEW j \in 1 .. n + 1
      PROVE  /\ h[i][j] <= h[i - 1][j - 1] + 1
             /\ w[i] = t[j] => h[i][j] <= h[i - 1][j - 1]
  <2> DEFINE e == j - i
  <2>1. /\ i \in 0 .. n /\ i - 1 \in 0 .. n /\ i \in Nat /\ i > 0
        /\ j \in 0 .. n + 1 /\ j - 1 \in 0 .. n + 1
        /\ e \in Int /\ e = j - 1 - (i - 1) /\ j = i + e
    BY <1>1
  <2>2. /\ h[i][j] = CostAfter(a, z, i, e)
        /\ h[i - 1][j - 1] = CostAfter(a, z, i - 1, e)
    BY <1>3, <2>1
  <2> HIDE DEF e
  <2>3. ASSUME w[i] = t[j] PROVE CostAfter(a, z, i, e) <= CostAfter(a, z, i - 1, e)
    <3>1. ~ (i = z /\ e = 1)
      <4> SUFFICES ASSUME i = z, e = 1 PROVE FALSE
        OBVIOUS
      <4>1. j = n /\ n \in 1 .. n
        BY <1>1, <1>2, <2>1
      <4> QED
        BY <1>2, <2>3, <4>1
    <3>2. ASSUME NEW q \in 0 .. 2, NEW r \in 0 .. 2, i = a + q, j = a + r
          PROVE  FALSE
      <4>1. j \in 1 .. n
        BY <1>1, <3>2
      <4> QED
        BY <1>2, <2>3, <3>2, <4>1 DEF Opposed
    <3>3. ~ (i = a /\ e \in 0 .. 2)
      <4> SUFFICES ASSUME i = a, e \in 0 .. 2 PROVE FALSE
        OBVIOUS
      <4>1. 0 \in 0 .. 2 /\ i = a + 0 /\ j = a + e
        BY <2>1
      <4> QED
        BY <3>2, <4>1
    <3>4. ~ (i = a + 1 /\ e \in 0 .. 1)
      <4> SUFFICES ASSUME i = a + 1, e \in 0 .. 1 PROVE FALSE
        OBVIOUS
      <4>1. e + 1 \in 0 .. 2 /\ 1 \in 0 .. 2 /\ j = a + (e + 1)
        BY <2>1
      <4> QED
        BY <3>2, <4>1
    <3>5. ~ (i = a + 2 /\ e \in -1 .. 0)
      <4> SUFFICES ASSUME i = a + 2, e \in -1 .. 0 PROVE FALSE
        OBVIOUS
      <4>1. e + 2 \in 0 .. 2 /\ 2 \in 0 .. 2 /\ j = a + (e + 2)
        BY <2>1
      <4> QED
        BY <3>2, <4>1
    <3>6. \/ CostAfter(a, z, i, e) <= CostAfter(a, z, i - 1, e)
          \/ i = a /\ e \in 0 .. 2
          \/ i = a + 1 /\ e \in 0 .. 1
          \/ i = a + 2 /\ e \in -1 .. 0
          \/ i = z /\ e = 1
      <4>1. a \in Nat /\ a >= 3 /\ z \in Nat /\ z >= a + 3 /\ i \in Nat /\ e \in Int /\ i > 0
        BY <1>1, <2>1
      <4> QED
        BY <4>1, CostAfterGrows, Zenon
    <3> QED
      BY <3>1, <3>3, <3>4, <3>5, <3>6, Zenon
  <2> QED
    BY <1>1, <2>1, <2>2, <2>3, CostAfterGrows
<1>10. Bounds(h, w, t)
  BY <1>2, <1>4, <1>5, <1>6, <1>7, <1>8, <1>9 DEF Bounds, n
<1>11. h[n][n + 1] = 4
  <2>1. n \in 0 .. n /\ n + 1 \in 0 .. n + 1 /\ n + 1 - n = 1
    BY <1>1
  <2>2. h[n][n + 1] = CostAfter(a, z, n, 1)
    BY <1>3, <2>1
  <2> QED
    BY <1>1, <1>2, <2>2 DEF CostAfter, Off
<1> QED
  BY <1>2, <1>10, <1>11 DEF n

\* What one edit makes equal to all but the last of a string is two edits away
\* from the string, at most.
LEMMA OneMore ==
    ASSUME NEW s \in Seq(Bit), NEW t \in Seq(Bit), s # << >>, t # << >>,
           OneApart(s, t, Len(s), Len(t) - 1)
    PROVE  levenshtein(s, t) <= 2
<1> DEFINE AtEnd(f) == f.x = Len(t) /\ f.y > Len(s) => f.column[Len(s)] <= 2
           J == {f \in Frames(s, t) : OnesRight(s, t, f) /\ AtEnd(f)}
<1>1. Len(s) \in Nat \ {0} /\ Len(t) \in Nat \ {0} /\ Len(s) \in 0 .. Len(s)
  OBVIOUS
<1>2. Begin(s) \in J
  <2> DEFINE g == Begin(s)
  <2>1. /\ g \in Frames(s, t) /\ g.x = 0 /\ g.y = Len(s) + 1
        /\ g.column = [k \in 0 .. Len(s) |-> k]
    BY <1>1 DEF Begin, Frames
  <2> HIDE DEF g
  <2>2. ZerosRight(s, t, g)
    <3>1. Agree(s, t, 0)
      BY DEF Agree
    <3> QED
      BY <1>1, <2>1, <3>1 DEF ZerosRight
  <2>3. \A k \in 0 .. Len(s) : OneApart(s, t, k, 0) <=> k <= 1
    BY OneApartEmpty
  <2>4. OnesRight(s, t, g)
    BY <1>1, <2>1, <2>2, <2>3 DEF OnesRight
  <2>5. AtEnd(g)
    BY <1>1, <2>1
  <2> QED
    BY <2>1, <2>4, <2>5 DEF g
<1>3. ASSUME NEW f \in J, ~ Finished(s, t, f)
      PROVE  Advance(s, t, f) \in J
  <2>1. OnesRight(s, t, Advance(s, t, f))
    BY <1>3, OnesOfNextColumn, OnesOfCell DEF Advance, Finished
  <2>2. AtEnd(Advance(s, t, f))
    <3>1. CASE f.y > Len(s)
      <4>1. Advance(s, t, f).y = 1
        BY <3>1 DEF Advance, NextColumn
      <4> QED
        BY <1>1, <3>1, <4>1 DEF Advance, NextColumn
    <3>2. CASE ~ (f.y > Len(s))
      <4> DEFINE g == Cell(s, t, f)
                 paid == IF s[f.y] = t[f.x] THEN 0 ELSE 1
                 new == Min3(f.column[f.y] + 1, f.column[f.y - 1] + 1,
                             f.lastdiag + paid)
      <4>1. /\ f.y \in 1 .. Len(s) /\ f.column \in [0 .. Len(s) -> Nat]
            /\ f.lastdiag \in Nat /\ f.x \in Nat
            /\ f.column[f.y] \in Nat /\ f.column[f.y - 1] \in Nat
        BY <1>1, <3>2 DEF Frames
      <4>2. /\ g.x = f.x /\ g.y = f.y + 1
            /\ g.column = [f.column EXCEPT ![f.y] = new]
        BY DEF Cell
      <4>3. Advance(s, t, f) = g
        BY <3>2 DEF Advance
      <4> SUFFICES ASSUME f.x = Len(t), f.y = Len(s) PROVE new <= 2
        <5> HIDE DEF g, new
        <5> QED
          BY <1>1, <4>1, <4>2, <4>3
      <4>4. f.column[f.y] <= 1
        BY <1>1, <4>1 DEF OnesRight
      <4>5. \A p \in Nat, q, r \in Nat : p <= 1 => Min3(p + 1, q + 1, r) <= 2
        BY DEF Min3
      <4>6. f.lastdiag + paid \in Nat
        BY <4>1
      <4> HIDE DEF paid
      <4> QED
        BY <4>1, <4>4, <4>5, <4>6
    <3> QED
      BY <3>1, <3>2
  <2> QED
    BY <2>1, <2>2 DEF OnesRight, ZerosRight
<1>4. Kept(s, t, J)
  BY <1>3 DEF Kept
<1> HIDE DEF J
<1>5. PICK g \in J : /\ g.x = Len(t) /\ g.y = Len(s) + 1
                     /\ levenshtein(s, t) = g.column[Len(s)]
  BY <1>2, <1>4, LoopRuns
<1>6. g.y > Len(s)
  BY <1>1, <1>5
<1> QED
  BY <1>5, <1>6 DEF J

\* Two words are four edits apart, at least, when one of them gets an extra 1;
\* so what one edit makes of the one is three from the other.
LEMMA ExtendedAreFar ==
    ASSUME NEW b \in 1 .. 30, NEW m \in Nat, m >= 3, NEW p \in Nat \ {0},
           NEW v \in 0 .. 2 ^ b - 1, NEW w \in 0 .. 2 ^ b - 1, v # w,
           NEW u \in Seq(Bit),
           OneApart(u, lev_string(b, m, p, v), Len(u), total_len(b, m, p))
    PROVE  /\ levenshtein(u, <<1>> \o lev_string(b, m, p, w)) >= 3
           /\ levenshtein(u, lev_string(b, m, p, w) \o <<1>>) >= 3
<1> DEFINE s == lev_string(b, m, p, v)
           x == lev_string(b, m, p, w)
           n == total_len(b, m, p)
           one == <<1>>
           before == one \o x
           after == x \o one
<1>1. b * m \in Nat \ {0} /\ m \in Nat \ {0}
  OBVIOUS
<1>2. n = 2 + 2 * p + b * m /\ n \in Nat /\ n >= 3
  BY <1>1 DEF total_len
<1>3. PICK a \in p + 2 .. p + 2 + b * m - m : Apart(s, x, a, m)
  BY <1>1, WordsApart
<1>4. a \in Nat /\ a >= 3 /\ a + 4 <= n /\ a + 2 <= n
  BY <1>1, <1>2, <1>3
<1>5. /\ s \in Seq(Bit) /\ Len(s) = n /\ s[2] = 0 /\ s[n - 1] = 0
      /\ x \in Seq(Bit) /\ Len(x) = n /\ x[1] = 1 /\ x[n] = 1
  <2> DEFINE end == p + 1 + b * m
  <2>1. /\ s \in Seq(Bit) /\ Len(s) = n
        /\ \A k \in 1 .. p : s[k + 1] = 0 /\ s[end + k] = 0
    BY <1>1, WordFacts, ZenonT(60)
  <2>2. x \in Seq(Bit) /\ Len(x) = n /\ x[1] = 1 /\ x[n] = 1
    <3>1. x \in Seq(Bit) /\ Len(x) = n
      BY <1>1, WordFacts, ZenonT(60)
    <3>2. x[1] = 1 /\ x[Len(x)] = 1
      BY <1>1, WordFacts, ZenonT(60)
    <3> QED
      BY <3>1, <3>2
  <2>3. 1 \in 1 .. p /\ p \in 1 .. p /\ 1 + 1 = 2 /\ end + p = n - 1
    BY <1>1, <1>2
  <2> QED
    BY <2>1, <2>3, <2>2
<1>6. one \in Seq(Bit) /\ Len(one) = 1 /\ one[1] = 1
  BY DEF Bit
<1> HIDE DEF s, x, n, one
<1>7. Opposed(s, x, a)
  <2> SUFFICES ASSUME NEW q \in 0 .. 2, NEW r \in 0 .. 2
               PROVE  s[a + q] # x[a + r]
    BY DEF Opposed
  <2>1. q \in 0 .. m - 1 /\ r \in 0 .. m - 1
    OBVIOUS
  <2> QED
    BY <1>3, <2>1 DEF Apart
<1>8. /\ before \in Seq(Bit) /\ Len(before) = n + 1
      /\ \A j \in 1 .. n : before[j + 1] = x[j]
  <2>1. Joins(before, one, x, Bit)
    BY <1>5, <1>6, ConcatFacts
  <2>2. /\ before \in Seq(Bit) /\ Len(before) = 1 + n
        /\ \A j \in 1 .. n : before[1 + j] = x[j]
    BY <1>5, <1>6, <2>1 DEF Joins
  <2> HIDE DEF before
  <2> QED
    BY <1>2, <2>2
<1>9. /\ after \in Seq(Bit) /\ Len(after) = n + 1
      /\ \A j \in 1 .. n : after[j] = x[j]
  <2>1. Joins(after, x, one, Bit)
    BY <1>5, <1>6, ConcatFacts
  <2> QED
    BY <1>5, <1>6, <2>1 DEF Joins
<1> HIDE DEF before, after
<1>10. OneApart(u, s, Len(u), Len(s))
  BY <1>5 DEF s, n
<1>11. ASSUME NEW t \in Seq(Bit), NEW h, Bounds(h, s, t), h[Len(s)][Len(t)] = 4
       PROVE  levenshtein(u, t) >= 3
  <2>1. 4 - 1 <= levenshtein(u, t)
    BY <1>5, <1>10, <1>11, OneEditBelow
  <2> QED
    BY <2>1, ResultBound
<1>12. levenshtein(u, before) >= 3
  <2>1. \E h : Bounds(h, s, before) /\ h[Len(s)][Len(before)] = 4
    <3>1. /\ Len(x) = Len(s) /\ Len(before) = Len(s) + 1
          /\ \A j \in 1 .. Len(s) : before[j + 1] = x[j]
          /\ s[2] # x[1] /\ a + 2 <= Len(s)
      BY <1>4, <1>5, <1>8
    <3> QED
      BY <1>4, <1>5, <1>7, <1>8, <3>1, FarBefore, Zenon
  <2> QED
    BY <1>8, <1>11, <2>1
<1>13. levenshtein(u, after) >= 3
  <2>1. \E h : Bounds(h, s, after) /\ h[Len(s)][Len(after)] = 4
    <3>1. /\ Len(x) = Len(s) /\ Len(after) = Len(s) + 1
          /\ \A j \in 1 .. Len(s) : after[j] = x[j]
          /\ s[Len(s) - 1] # x[Len(s)] /\ a + 4 <= Len(s)
      BY <1>4, <1>5, <1>9
    <3> QED
      BY <1>4, <1>5, <1>7, <1>9, <3>1, FarAfter, Zenon
  <2> QED
    BY <1>9, <1>11, <2>1
<1> QED
  BY <1>12, <1>13 DEF before, after, x, one

-----------------------------------------------------------------------------
(* The behaviours of Levenshtein.                                           *)

LevInv == s1 \in Strings /\ s2 \in Strings /\ Good(s1, s2, frame)

LEMMA LevInvHolds == LevSpec => []LevInv
<1>1. LevInit => LevInv
  BY BeginIsGood DEF LevInit, LevInv
<1>2. LevInv /\ [LevNext]_lev_vars => LevInv'
  <2> SUFFICES ASSUME LevInv, [LevNext]_lev_vars PROVE LevInv'
    OBVIOUS
  <2>1. CASE LevNext
    BY <2>1, AdvanceIsGood DEF LevInv, LevNext
  <2>2. CASE UNCHANGED lev_vars
    BY <2>2 DEF lev_vars, LevInv
  <2> QED
    BY <2>1, <2>2
<1> QED
  BY <1>1, <1>2, PTL DEF LevSpec

\* Every cell stays a natural number and both indices stay in the arrays
\* (levenshtein-new.c:266-279).
THEOREM TypeCorrect == LevSpec => []TypeOK
<1>1. LevInv => TypeOK
  BY DEF LevInv, TypeOK, Good, Frames
<1> QED
  BY LevInvHolds, <1>1, PTL

\* The one column holds the two columns of the table it stands for, for
\* strings of any length (levenshtein-new.c:272-279).
THEOREM OneColumnIsEnough == LevSpec => []ColumnIsTable
<1>1. LevInv => ColumnIsTable
  BY DEF LevInv, ColumnIsTable, Good, At
<1> QED
  BY LevInvHolds, <1>1, PTL

\* levenshtein_orig returns the edit distance (levenshtein-new.c:280).
THEOREM DistanceReturned == LevSpec => []ReturnsDistance
<1>1. LevInv => ReturnsDistance
  <2> SUFFICES ASSUME LevInv, Finished(s1, s2, frame), s2 # << >>
               PROVE  frame.column[Len(s1)] = Distance(s1, s2)
    BY DEF ReturnsDistance
  <2>1. /\ s1 \in Seq(Bit) /\ s2 \in Seq(Bit) /\ Len(s1) \in Nat /\ Len(s2) \in Nat
    BY StringsAssumption DEF LevInv
  <2>2. /\ frame.x = Len(s2) /\ frame.x > 0 /\ Len(s1) < frame.y
        /\ Len(s1) \in 0 .. Len(s1)
    BY <2>1 DEF LevInv, Good, Frames, Finished
  <2>3. frame.column[Len(s1)] = At(s1, s2, Len(s1), Len(s2))
    BY <2>1, <2>2 DEF LevInv, Good
  <2> QED
    BY <2>3, LastCell DEF LevInv
<1> QED
  BY LevInvHolds, <1>1, PTL

\* levenshtein_new returns the same, although it does not look at the
\* neighbours of equal characters (levenshtein-new.c:318-331).
THEOREM NewReturnsTheSame == LevSpec => []NewIsTheSame
<1>1. LevInv => NewIsTheSame
  BY NewIsDistance DEF LevInv, NewIsTheSame
<1> QED
  BY LevInvHolds, <1>1, PTL

-----------------------------------------------------------------------------
(* The best of the results so far, for a set X of pairs of a value and its  *)
(* result.  all tells whether the ties are kept.                            *)

BestType == [min : Int, min_index : Int, ties_count : Nat,
             ties_index : [0 .. MAX_VALUES - 1 -> Int]]

Leads(all, b, X) ==
    /\ b \in BestType
    /\ \A p \in X : b.min <= p[2]
    /\ IF X = {} THEN b.min = INT_MAX /\ b.ties_count = 0
       ELSE IF all
       THEN /\ b.ties_count < MAX_VALUES
            /\ \A i \in 0 .. b.ties_count : <<b.ties_index[i], b.min>> \in X
            /\ \A p \in X : p[2] = b.min =>
                  \E i \in 0 .. b.ties_count : b.ties_index[i] = p[1]
       ELSE /\ b.ties_count = 0
            /\ <<b.min_index, b.min>> \in X
            /\ \A p \in X : p[2] = b.min => b.min_index <= p[1]

\* The three ways a result changes the best so far.
LEMMA BestTakes ==
    ASSUME NEW b \in BestType, NEW n \in Int, NEW r \in Int, r < b.min
    PROVE  LET c == keep_least(b, n, r) IN
           /\ c \in BestType
           /\ c.min = r /\ c.min_index = n /\ c.ties_count = b.ties_count
<1> DEFINE c == keep_least(b, n, r)
<1>1. c = [b EXCEPT !.min = r, !.min_index = n]
  BY DEF keep_least
<1>2. [b EXCEPT !.min = r, !.min_index = n] \in BestType
  BY DEF BestType
<1> HIDE DEF c
<1>3. c \in BestType /\ c.min = r /\ c.min_index = n /\ c.ties_count = b.ties_count
  BY <1>1, <1>2 DEF BestType
<1> QED
  BY <1>3 DEF c

LEMMA BestRestarts ==
    ASSUME NEW b \in BestType, NEW n \in Int, NEW r \in Int, r < b.min
    PROVE  LET c == break_ties(b, n, r) IN
           /\ c \in BestType
           /\ c.min = r /\ c.ties_count = 0
           /\ MAX_VALUES > 0 => c.ties_index[0] = n
<1> DEFINE c == break_ties(b, n, r)
           e == [b EXCEPT !.min = r, !.min_index = n, !.ties_count = 0,
                          !.ties_index[0] = n]
<1>1. c = e
  BY DEF break_ties
<1>2. [b.ties_index EXCEPT ![0] = n] \in [0 .. MAX_VALUES - 1 -> Int]
  BY DEF BestType
<1>3. e \in BestType
  BY <1>2 DEF BestType
<1>4. /\ e.min = r /\ e.ties_count = 0
      /\ e.ties_index = [b.ties_index EXCEPT ![0] = n]
  BY <1>3 DEF BestType
<1> HIDE DEF c, e
<1>5. MAX_VALUES > 0 => e.ties_index[0] = n
  BY <1>4, ArraysAssumption DEF BestType
<1> QED
  BY <1>1, <1>3, <1>4, <1>5 DEF c

LEMMA BestTies ==
    ASSUME NEW b \in BestType, NEW n \in Int, NEW r \in Int, r = b.min
    PROVE  LET c == break_ties(b, n, r) IN
           /\ c \in BestType
           /\ c.min = b.min /\ c.ties_count = b.ties_count + 1
           /\ c.ties_index = [b.ties_index EXCEPT ![b.ties_count + 1] = n]
<1> DEFINE c == break_ties(b, n, r)
           e == [b EXCEPT !.ties_count = @ + 1, !.ties_index[b.ties_count + 1] = n]
<1>1. ~ (r < b.min) /\ b.ties_count + 1 \in Nat
  BY DEF BestType
<1>2. c = e
  BY <1>1 DEF break_ties
<1>3. \A i : [b.ties_index EXCEPT ![i] = n] \in [0 .. MAX_VALUES - 1 -> Int]
  BY DEF BestType
<1>4. e \in BestType
  BY <1>1, <1>3 DEF BestType
<1>5. /\ e.min = b.min /\ e.ties_count = b.ties_count + 1
      /\ e.ties_index = [b.ties_index EXCEPT ![b.ties_count + 1] = n]
  BY <1>4 DEF BestType
<1> HIDE DEF c, e
<1> QED
  BY <1>2, <1>4, <1>5 DEF c

LEMMA LeastKept ==
    ASSUME NEW b, NEW X \in SUBSET (Nat \X Nat), NEW n \in Nat, NEW r \in Nat,
           Leads(FALSE, b, X), \A p \in X : p[1] <= n, r < INT_MAX
    PROVE  Leads(FALSE, keep_least(b, n, r), X \cup {<<n, r>>})
<1> DEFINE c == keep_least(b, n, r)
           Q == X \cup {<<n, r>>}
<1> SUFFICES Leads(FALSE, c, Q)
  OBVIOUS
<1>1. b \in BestType /\ (X = {} => b.min = INT_MAX /\ b.ties_count = 0)
  BY DEF Leads
<1>2. Q # {} /\ \A q \in Q : q \in X \/ (q[1] = n /\ q[2] = r)
  <2>1. \A q \in Q : q \in X \/ q = <<n, r>>
    OBVIOUS
  <2>2. <<n, r>>[1] = n /\ <<n, r>>[2] = r /\ <<n, r>> \in Q
    OBVIOUS
  <2> HIDE DEF Q
  <2> QED
    BY <2>1, <2>2
<1>3. CASE r < b.min
  <2>0. c = keep_least(b, n, r)
    OBVIOUS
  <2>2. b.ties_count = 0
    BY DEF Leads
  <2> HIDE DEF c
  <2>1. /\ c \in BestType /\ c.min = r /\ c.min_index = n /\ c.ties_count = b.ties_count
    BY <1>1, <1>3, <2>0, BestTakes
  <2>3. ASSUME NEW q \in Q PROVE r <= q[2] /\ (q[2] = r => n <= q[1])
    <3>1. CASE q \in X
      <4>1. b.min <= q[2] /\ q[2] \in Nat /\ b.min \in Int
        BY <1>1, <3>1 DEF Leads, BestType
      <4> QED
        BY <1>3, <4>1
    <3> QED
      BY <1>2, <3>1
  <2>4. <<n, r>> \in Q
    OBVIOUS
  <2> HIDE DEF Q
  <2> QED
    BY <1>2, <2>1, <2>2, <2>3, <2>4 DEF Leads
<1>4. CASE ~ (r < b.min)
  <2>1. c = b /\ X # {} /\ b.min \in Int
    BY <1>1, <1>4 DEF keep_least, BestType
  <2>2. /\ b.ties_count = 0 /\ <<b.min_index, b.min>> \in X
        /\ \A p \in X : b.min <= p[2] /\ (p[2] = b.min => b.min_index <= p[1])
    BY <2>1 DEF Leads
  <2>3. b.min_index <= n
    BY <2>2
  <2>4. \A q \in Q : b.min <= q[2] /\ (q[2] = b.min => b.min_index <= q[1])
    BY <1>2, <1>4, <2>1, <2>2, <2>3
  <2>5. <<b.min_index, b.min>> \in Q
    BY <2>2
  <2> HIDE DEF Q
  <2> QED
    BY <1>1, <1>2, <2>1, <2>2, <2>4, <2>5 DEF Leads
<1> HIDE DEF c, Q
<1>5. r < b.min \/ ~ (r < b.min)
  OBVIOUS
<1> QED
  BY <1>3, <1>4, <1>5

LEMMA TiesKept ==
    ASSUME NEW b, NEW X \in SUBSET (Nat \X Nat), NEW n \in Nat, NEW r \in Nat,
           Leads(TRUE, b, X), r < INT_MAX, MAX_VALUES \in Nat \ {0},
           break_ties(b, n, r).ties_count < MAX_VALUES
    PROVE  Leads(TRUE, break_ties(b, n, r), X \cup {<<n, r>>})
<1> DEFINE c == break_ties(b, n, r)
           Q == X \cup {<<n, r>>}
           k == b.ties_count
<1> SUFFICES Leads(TRUE, c, Q)
  OBVIOUS
<1>1. /\ b \in BestType /\ k \in Nat /\ b.min \in Int
      /\ n \in Int /\ r \in Int /\ MAX_VALUES > 0
      /\ b.ties_index \in [0 .. MAX_VALUES - 1 -> Int]
      /\ X = {} => b.min = INT_MAX /\ k = 0
  BY DEF Leads, BestType
<1>2. /\ Q # {} /\ <<n, r>> \in Q /\ X \subseteq Q
      /\ \A q \in Q : q \in X \/ (q[1] = n /\ q[2] = r)
  <2>1. \A q \in Q : q \in X \/ q = <<n, r>>
    OBVIOUS
  <2>2. <<n, r>>[1] = n /\ <<n, r>>[2] = r /\ <<n, r>> \in Q /\ X \subseteq Q
    OBVIOUS
  <2> HIDE DEF Q
  <2> QED
    BY <2>1, <2>2
<1>3. CASE r < b.min
  <2>1. c = break_ties(b, n, r)
    OBVIOUS
  <2> HIDE DEF c, Q
  <2>2. /\ c.min = r /\ c.ties_count = 0 /\ c \in BestType
        /\ c.ties_index[0] = n
    BY <1>1, <1>3, <2>1, BestRestarts
  <2>3. ASSUME NEW q \in Q PROVE r <= q[2] /\ (q[2] = r => q[1] = n)
    <3>1. CASE q \in X
      <4>1. b.min <= q[2] /\ q[2] \in Nat
        BY <3>1 DEF Leads
      <4> QED
        BY <1>1, <1>3, <4>1
    <3> QED
      BY <1>2, <3>1
  <2> QED
    BY <1>2, <2>2, <2>3 DEF Leads
<1>4. CASE r = b.min
  <2>1. X # {}
    BY <1>1, <1>4
  <2>2. c = break_ties(b, n, r)
    OBVIOUS
  <2> HIDE DEF c, Q
  <2>3. /\ c.min = b.min /\ c.ties_count = k + 1 /\ c \in BestType
        /\ c.ties_index = [b.ties_index EXCEPT ![k + 1] = n]
    <3>1. b \in BestType /\ n \in Int /\ r \in Int
      BY <1>1
    <3> QED
      BY <1>4, <2>2, <3>1, BestTies, SMTT(30)
  <2>4. k + 1 < MAX_VALUES
    BY <2>3, <2>2
  <2>5. /\ \A i \in 0 .. k : c.ties_index[i] = b.ties_index[i]
        /\ c.ties_index[k + 1] = n
    BY <1>1, <2>3, <2>4, SMTT(30)
  <2>6. /\ \A i \in 0 .. k : <<b.ties_index[i], b.min>> \in X
        /\ \A p \in X : b.min <= p[2]
        /\ \A p \in X : p[2] = b.min => \E i \in 0 .. k : b.ties_index[i] = p[1]
    BY <2>1 DEF Leads
  <2>7. \A i \in 0 .. k + 1 : <<c.ties_index[i], b.min>> \in Q
    <3>1. \A i \in 0 .. k + 1 : i \in 0 .. k \/ i = k + 1
      BY <1>1
    <3> QED
      BY <1>2, <1>4, <2>5, <2>6, <3>1
  <2>8. ASSUME NEW q \in Q, q[2] = b.min
        PROVE  \E i \in 0 .. k + 1 : c.ties_index[i] = q[1]
    <3>1. CASE q \in X
      <4>1. PICK i \in 0 .. k : b.ties_index[i] = q[1]
        BY <2>6, <2>8, <3>1
      <4>2. i \in 0 .. k + 1
        BY <1>1
      <4> QED
        BY <2>5, <4>1, <4>2
    <3>2. CASE q[1] = n
      <4>1. k + 1 \in 0 .. k + 1
        BY <1>1
      <4> QED
        BY <2>5, <3>2, <4>1
    <3> QED
      BY <1>2, <3>1, <3>2
  <2>9. \A q \in Q : b.min <= q[2]
    BY <1>1, <1>2, <1>4, <2>6
  <2> QED
    BY <1>2, <2>3, <2>4, <2>7, <2>8, <2>9 DEF Leads
<1>5. CASE r > b.min
  <2>1. c = b /\ X # {}
    BY <1>1, <1>5 DEF break_ties
  <2>2. /\ k < MAX_VALUES
        /\ \A i \in 0 .. k : <<b.ties_index[i], b.min>> \in X
        /\ \A p \in X : b.min <= p[2]
        /\ \A p \in X : p[2] = b.min => \E i \in 0 .. k : b.ties_index[i] = p[1]
    BY <2>1 DEF Leads
  <2>3. \A q \in Q : b.min <= q[2] /\ (q[2] = b.min => q \in X)
    BY <1>1, <1>2, <1>5, <2>2
  <2> HIDE DEF Q
  <2> QED
    BY <1>1, <1>2, <2>1, <2>2, <2>3 DEF Leads
<1> HIDE DEF c, Q
<1>6. r < b.min \/ r = b.min \/ r > b.min
  BY <1>1
<1> QED
  BY <1>3, <1>4, <1>5, <1>6
-----------------------------------------------------------------------------
(* detect_with_lev: every value before num has been compared, and best      *)
(* leads the results.                                                       *)

Results(o, str, v) ==
    {levenshtein(str, Targets(o, str, v)[i]) : i \in DOMAIN Targets(o, str, v)}

\* A string that the filter may hand over: it fits the arrays.
IsPacket(str) == str \in Seq(Bit) /\ Len(str) \in 1 .. MAX_BITS

Pairs(o, str, n) ==
    {p \in (0 .. n - 1) \X Nat : p[2] \in Results(o, str, p[1])}

LEMMA OptionsFacts ==
    ASSUME NEW o \in Options
    PROVE  /\ num_words(o) \in Nat \ {0} /\ num_words(o) <= MAX_VALUES
           /\ MAX_VALUES \in Nat \ {0} /\ MAX_BITS \in Nat
           /\ expected_len(o) \in Nat /\ expected_len(o) <= MAX_BITS
           /\ o.print_bit_error_rate \in BOOLEAN
           /\ o.bits_per_packet \in 1 .. 30 /\ o.mpdus_per_bit \in Nat \ {0}
           /\ o.preamble_mpdus \in Nat \ {0}
           /\ \A v \in 0 .. num_words(o) - 1 :
                 lev_word(o, v) \in Seq(Bit) /\ Len(lev_word(o, v)) = expected_len(o)
<1>1. /\ o.bits_per_packet \in 1 .. 30 /\ o.mpdus_per_bit \in Nat \ {0}
      /\ o.preamble_mpdus \in Nat \ {0} /\ o.print_bit_error_rate \in BOOLEAN
      /\ num_words(o) <= MAX_VALUES /\ expected_len(o) <= MAX_BITS
  BY OptionsAssumption DEF LegalOptions
<1>2. num_words(o) = 2 ^ o.bits_per_packet /\ num_words(o) \in Nat \ {0}
  <2> DEFINE b == o.bits_per_packet
             power == 2 ^ b
  <2>1. b \in 0 .. 30 /\ b \in Nat
    BY <1>1
  <2>2. power \in Nat /\ b < power
    BY <2>1, Powers
  <2>3. num_words(o) = power
    BY DEF num_words, num_values_of
  <2> HIDE DEF power
  <2> QED
    BY <2>1, <2>2, <2>3 DEF power
<1>3. \A v \in 0 .. num_words(o) - 1 :
         lev_word(o, v) \in Seq(Bit) /\ Len(lev_word(o, v)) = expected_len(o)
  <2> DEFINE b == o.bits_per_packet
             m == o.mpdus_per_bit
             p == o.preamble_mpdus
  <2> SUFFICES ASSUME NEW v \in 0 .. num_words(o) - 1
               PROVE  /\ lev_string(b, m, p, v) \in Seq(Bit)
                      /\ Len(lev_string(b, m, p, v)) = total_len(b, m, p)
    BY DEF lev_word, expected_len
  <2>1. /\ b \in 1 .. 30 /\ m \in Nat \ {0} /\ p \in Nat \ {0}
        /\ v \in 0 .. 2 ^ b - 1
    BY <1>1, <1>2
  <2> HIDE DEF b, m, p
  <2> QED
    BY <2>1, WordFacts
<1>4. expected_len(o) \in Nat
  <2>1. 0 \in 0 .. num_words(o) - 1
    BY <1>2
  <2> QED
    BY <1>3, <2>1
<1> HIDE DEF num_words, expected_len, lev_word
<1> QED
  BY <1>1, <1>2, <1>3, <1>4, ArraysAssumption

\* What there is to compare a packet with fits the arrays, and a result is
\* less than INT_MAX.
LEMMA ResultsFacts ==
    ASSUME NEW o \in Options, NEW str, IsPacket(str),
           NEW v \in 0 .. num_words(o) - 1, TargetFits(o, str)
    PROVE  /\ \A i \in DOMAIN Targets(o, str, v) :
                 LET r == levenshtein(str, Targets(o, str, v)[i])
                 IN  r \in Nat /\ r < INT_MAX
           /\ \/ Len(Targets(o, str, v)) = 1 /\ DOMAIN Targets(o, str, v) = {1}
              \/ Len(Targets(o, str, v)) = 2 /\ DOMAIN Targets(o, str, v) = {1, 2}
<1> DEFINE T == Targets(o, str, v)
           word == lev_word(o, v)
           len == expected_len(o)
<1>1. /\ str \in Seq(Bit) /\ Len(str) \in Nat /\ Len(str) <= MAX_BITS
      /\ word \in Seq(Bit) /\ Len(word) = len /\ len \in Nat /\ len <= MAX_BITS
      /\ MAX_BITS \in Nat /\ 2 * MAX_BITS < INT_MAX
  BY OptionsFacts, ArraysAssumption DEF IsPacket
<1> HIDE DEF word, len
<1>2. /\ (Len(T) = 1 /\ DOMAIN T = {1}) \/ (Len(T) = 2 /\ DOMAIN T = {1, 2})
      /\ \A i \in DOMAIN T : T[i] \in Seq(Bit) /\ Len(T[i]) <= MAX_BITS
  <2>1. CASE Extended(o, str)
    <3> DEFINE before == <<1>> \o word
               after == word \o <<1>>
    <3>1. T = <<before, after>>
      BY <2>1 DEF Targets, word
    <3>2. len + 2 <= MAX_BITS
      BY <2>1 DEF TargetFits, len
    <3>3. /\ before \in Seq(Bit) /\ Len(before) = len + 1
          /\ after \in Seq(Bit) /\ Len(after) = len + 1
      BY <1>1 DEF Bit
    <3> HIDE DEF before, after, T
    <3>4. Len(T) = 2 /\ DOMAIN T = {1, 2} /\ T[1] = before /\ T[2] = after
      BY <3>1
    <3> QED
      BY <1>1, <3>2, <3>3, <3>4
  <2>2. CASE ~ Extended(o, str)
    <3>1. T = <<word>>
      BY <2>2 DEF Targets, word
    <3> HIDE DEF T
    <3>2. Len(T) = 1 /\ DOMAIN T = {1} /\ T[1] = word
      BY <3>1
    <3> QED
      BY <1>1, <3>2
  <2> QED
    BY <2>1, <2>2
<1>3. ASSUME NEW i \in DOMAIN T
      PROVE  levenshtein(str, T[i]) \in Nat /\ levenshtein(str, T[i]) < INT_MAX
  <2> DEFINE t == T[i]
             result == levenshtein(str, t)
  <2>1. t \in Seq(Bit) /\ Len(t) \in Nat /\ Len(t) <= MAX_BITS
    BY <1>2
  <2> HIDE DEF T, t
  <2>2. result \in Nat /\ result <= Len(str) + Len(t)
    BY <1>1, <2>1, ResultBound
  <2> HIDE DEF result
  <2>3. result \in Nat /\ result < INT_MAX
    BY <1>1, <2>1, <2>2 DEF INT_MAX
  <2> QED
    BY <2>3 DEF result, t
<1> HIDE DEF T
<1> QED
  BY <1>2, <1>3 DEF T


\* One more result, and how far it moves the count of ties.
LEMMA TakenLeads ==
    ASSUME NEW b, NEW X \in SUBSET (Nat \X Nat), NEW r \in Nat, r < INT_MAX,
           num \in Nat, opts \in Options, \A p \in X : p[1] <= num,
           Leads(opts.print_bit_error_rate, b, X)
    PROVE  /\ Taken(b, r).ties_count < MAX_VALUES =>
                 Leads(opts.print_bit_error_rate, Taken(b, r), X \cup {<<num, r>>})
           /\ X = {} => Taken(b, r).ties_count = 0
           /\ Taken(b, r).ties_count \in Nat
           /\ Taken(b, r).ties_count <= b.ties_count + 1
           /\ ~ opts.print_bit_error_rate => Taken(b, r).ties_count = 0
<1> DEFINE all == opts.print_bit_error_rate
           c == Taken(b, r)
           Q == X \cup {<<num, r>>}
           count == b.ties_count
<1> HIDE DEF c, Q, count
<1> SUFFICES /\ c.ties_count < MAX_VALUES => Leads(all, c, Q)
             /\ X = {} => c.ties_count = 0
             /\ c.ties_count \in Nat
             /\ c.ties_count <= count + 1
             /\ ~ all => c.ties_count = 0
  BY DEF c, Q, count
<1>1. /\ all \in BOOLEAN /\ MAX_VALUES \in Nat \ {0} /\ b \in BestType
      /\ b.ties_count = count /\ count \in Nat
      /\ b.min \in Int /\ r \in Int /\ num \in Int
      /\ X = {} => b.min = INT_MAX /\ count = 0
      /\ ~ all => count = 0
  BY OptionsFacts DEF Leads, BestType, count
<1>2. CASE all
  <2>1. c = break_ties(b, num, r) /\ all = TRUE
    BY <1>1, <1>2 DEF Taken, c
  <2>2. c.ties_count < MAX_VALUES => Leads(TRUE, c, Q)
    BY <1>1, <2>1, TiesKept DEF Q
  <2>3. ASSUME r < b.min PROVE c.ties_count = 0
    BY <1>1, <2>1, <2>3, BestRestarts
  <2>4. ASSUME r = b.min PROVE X # {} /\ c.ties_count = count + 1
    <3>1. c.ties_count = b.ties_count + 1
      <4>1. b \in BestType /\ num \in Int /\ r \in Int /\ c = break_ties(b, num, r)
        BY <1>1, <2>1
      <4> QED
        BY <2>4, <4>1, BestTies, ZenonT(60)
    <3> QED
      BY <1>1, <2>4, <3>1
  <2>5. ASSUME r > b.min PROVE X # {} /\ c.ties_count = count
    <3>1. c = b
      BY <1>1, <2>1, <2>5 DEF break_ties
    <3> QED
      BY <1>1, <2>5, <3>1
  <2>6. r < b.min \/ r = b.min \/ r > b.min
    BY <1>1
  <2>7. /\ X = {} => c.ties_count = 0
        /\ c.ties_count \in Nat /\ c.ties_count <= count + 1
    BY <1>1, <2>3, <2>4, <2>5, <2>6
  <2> QED
    BY <1>2, <2>1, <2>2, <2>7
<1>3. CASE ~ all
  <2>1. c = keep_least(b, num, r) /\ all = FALSE
    BY <1>1, <1>3 DEF Taken, c
  <2>2. Leads(FALSE, c, Q)
    BY <2>1, LeastKept DEF Q
  <2>3. c.ties_count = 0
    BY <2>2 DEF Leads
  <2>4. Leads(all, c, Q)
    BY <2>1, <2>2, Zenon
  <2>5. c.ties_count \in Nat /\ c.ties_count <= count + 1
    BY <1>1, <2>3
  <2> QED
    BY <2>3, <2>4, <2>5
<1> QED
  BY <1>2, <1>3

LEMMA NextPairs ==
    ASSUME NEW o, NEW str, NEW n \in Nat, Results(o, str, n) \subseteq Nat
    PROVE  Pairs(o, str, n + 1) = Pairs(o, str, n) \cup ({n} \X Results(o, str, n))
<1> DEFINE R(v) == Results(o, str, v)
<1> HIDE DEF R
<1>1. R(n) \subseteq Nat
  BY DEF R
<1>2. \A v \in 0 .. n : v \in 0 .. n - 1 \/ v = n
  OBVIOUS
<1>3. \A v : v \in 0 .. n + 1 - 1 <=> v \in 0 .. n - 1 \/ v = n
  OBVIOUS
<1>4. {p \in (0 .. n + 1 - 1) \X Nat : p[2] \in R(p[1])}
        = {p \in (0 .. n - 1) \X Nat : p[2] \in R(p[1])} \cup ({n} \X R(n))
  BY <1>1, <1>3
<1> QED
  BY <1>4 DEF Pairs, R


\* What is known while the values are compared: best leads the results of
\* the values before num.
Searching ==
    /\ IsPacket(packet)
    /\ num \in 0 .. num_words(opts)
    /\ num > 0 => TargetFits(opts, packet)
    /\ Leads(opts.print_bit_error_rate, best, Pairs(opts, packet, num))
    /\ best.ties_count <= (IF num = 0 THEN 0 ELSE 2 * num - 1)

\* The decision takes one of the ties, or the first of the smallest.
Decided ==
    IF opts.print_bit_error_rate
    THEN \E i \in 0 .. best.ties_count : decoded = best.ties_index[i]
    ELSE decoded = best.min_index

DecInv ==
    /\ opts \in Options
    /\ status \in {"idle", "comparing", "matched", "undefined"}
    /\ status = "idle" => num = 0 /\ best = Nothing
    /\ status \in {"comparing", "matched"} => Searching
    /\ status = "matched" => num = num_words(opts) /\ Decided
    /\ RoomForTies

LEMMA NothingLeads ==
    ASSUME NEW o, NEW str, NEW all
    PROVE  /\ Leads(all, Nothing, Pairs(o, str, 0))
           /\ Nothing.ties_count = 0
<1>1. Pairs(o, str, 0) = {}
  <2>1. 0 .. 0 - 1 = {}
    OBVIOUS
  <2> QED
    BY <2>1 DEF Pairs
<1>2. Nothing \in BestType /\ Nothing.min = INT_MAX /\ Nothing.ties_count = 0
  BY DEF Nothing, BestType, INT_MAX
<1> QED
  BY <1>1, <1>2 DEF Leads

\* One value of the loop: the best leads one value more, and with twice as
\* many places as values no write leaves the arrays.
LEMMA CompareLeads ==
    ASSUME DecInv, Compare
    PROVE  /\ status' \in {"comparing", "undefined"}
           /\ status' = "comparing" => Searching'
           /\ RoomForTies'
<1> DEFINE all == opts.print_bit_error_rate
           T == Targets(opts, packet, num)
           r1 == levenshtein(packet, T[1])
           r2 == levenshtein(packet, T[2])
           first == Taken(best, r1)
           second == Taken(first, r2)
           both == IF Len(T) = 1 THEN first ELSE second
           fits == /\ TargetFits(opts, packet)
                   /\ first.ties_count < MAX_VALUES /\ both.ties_count < MAX_VALUES
           before == Pairs(opts, packet, num)
           after == Pairs(opts, packet, num + 1)
           R == Results(opts, packet, num)
<1>1. /\ opts \in Options /\ status = "comparing" /\ Searching
      /\ num \in Nat /\ num < num_words(opts) /\ num \in 0 .. num_words(opts) - 1
      /\ IsPacket(packet) /\ all \in BOOLEAN
      /\ num_words(opts) \in Nat \ {0} /\ num_words(opts) <= MAX_VALUES
      /\ MAX_VALUES \in Nat \ {0}
  BY OptionsFacts DEF DecInv, Compare, Searching
<1>2. /\ num' = num + 1 /\ opts' = opts /\ packet' = packet /\ decoded' = decoded
      /\ fits => best' = both /\ status' = status
      /\ ~ fits => status' = "undefined"
  BY DEF Compare
<1>3. /\ best.ties_count \in Nat
      /\ best.ties_count <= (IF num = 0 THEN 0 ELSE 2 * num - 1)
      /\ Leads(all, best, before) /\ before \in SUBSET (Nat \X Nat)
      /\ \A p \in before : p[1] <= num
      /\ num = 0 => before = {}
  <2>1. before \in SUBSET (Nat \X Nat) /\ \A p \in before : p[1] <= num
    BY <1>1 DEF Pairs
  <2>2. num = 0 => before = {}
    BY DEF Pairs
  <2> QED
    BY <1>1, <2>1, <2>2 DEF Searching, Leads, BestType
<1> HIDE DEF before, after, R
<1>4. ASSUME TargetFits(opts, packet)
      PROVE  /\ r1 \in Nat /\ r1 < INT_MAX
             /\ Len(T) # 1 => r2 \in Nat /\ r2 < INT_MAX
             /\ R = IF Len(T) = 1 THEN {r1} ELSE {r1, r2}
             /\ after = before \cup ({num} \X R)
  <2> DEFINE result(i) == levenshtein(packet, T[i])
  <2>1. /\ \A i \in DOMAIN T : result(i) \in Nat /\ result(i) < INT_MAX
        /\ (Len(T) = 1 /\ DOMAIN T = {1}) \/ (Len(T) = 2 /\ DOMAIN T = {1, 2})
    BY <1>1, <1>4, ResultsFacts
  <2>2. R = {result(i) : i \in DOMAIN T}
    BY DEF R, Results
  <2>3. r1 = result(1) /\ r2 = result(2)
    OBVIOUS
  <2> HIDE DEF result, T, r1, r2
  <2>4. /\ r1 \in Nat /\ r1 < INT_MAX
        /\ Len(T) # 1 => r2 \in Nat /\ r2 < INT_MAX
    BY <2>1, <2>3
  <2>5. R = IF Len(T) = 1 THEN {r1} ELSE {r1, r2}
    BY <2>1, <2>2, <2>3
  <2>6. R \subseteq Nat
    BY <2>4, <2>5
  <2>7. after = before \cup ({num} \X R)
    BY <1>1, <2>6, NextPairs DEF after, before, R
  <2> QED
    BY <2>4, <2>5, <2>7
<1> HIDE DEF T, r1, r2, first, second
<1> DEFINE middle == before \cup {<<num, r1>>}
           count == best.ties_count
           count1 == first.ties_count
           count2 == both.ties_count
<1> HIDE DEF both
<1>5. ASSUME TargetFits(opts, packet)
      PROVE  /\ count1 \in Nat /\ count1 <= 2 * num
             /\ ~ all => count1 = 0
             /\ count1 < MAX_VALUES => Leads(all, first, middle)
  <2>1. /\ count1 < MAX_VALUES => Leads(all, first, middle)
        /\ before = {} => count1 = 0
        /\ count1 \in Nat /\ count1 <= count + 1
        /\ ~ all => count1 = 0
    BY <1>1, <1>3, <1>4, <1>5, TakenLeads DEF first
  <2> HIDE DEF count, count1, middle
  <2>2. count1 <= 2 * num
    BY <1>1, <1>3, <2>1 DEF count
  <2> QED
    BY <2>1, <2>2
<1>6. ASSUME TargetFits(opts, packet), count1 < MAX_VALUES
      PROVE  /\ count2 \in Nat /\ count2 <= 2 * num + 1
             /\ ~ all => count2 = 0
             /\ count2 < MAX_VALUES => Leads(all, both, after)
  <2>1. CASE Len(T) = 1
    <3>1. both = first /\ after = middle
      BY <1>4, <1>6, <2>1 DEF both
    <3> HIDE DEF middle
    <3> QED
      BY <1>1, <1>5, <1>6, <3>1
  <2>2. CASE Len(T) # 1
    <3>1. both = second /\ after = middle \cup {<<num, r2>>}
      BY <1>4, <1>6, <2>2 DEF both
    <3>2. middle \in SUBSET (Nat \X Nat) /\ \A p \in middle : p[1] <= num
      <4>1. <<num, r1>> \in Nat \X Nat /\ <<num, r1>>[1] <= num
        BY <1>1, <1>4, <1>6
      <4> QED
        BY <1>3, <4>1
    <3>3. Leads(all, first, middle)
      BY <1>5, <1>6
    <3> HIDE DEF middle
    <3>4. /\ count2 < MAX_VALUES => Leads(all, both, after)
          /\ count2 \in Nat /\ count2 <= count1 + 1
          /\ ~ all => count2 = 0
      BY <1>1, <1>4, <1>6, <2>2, <3>1, <3>2, <3>3, TakenLeads DEF second
    <3> HIDE DEF count1, count2
    <3> QED
      BY <1>1, <1>5, <1>6, <3>4
  <2> QED
    BY <2>1, <2>2
<1>7. ASSUME fits PROVE Searching'
  <2>1. /\ best' = both /\ TargetFits(opts, packet)'
        /\ IsPacket(packet)' /\ num' \in 0 .. num_words(opts')
    BY <1>1, <1>2, <1>7
  <2>2. /\ Leads(all, both, after) /\ count2 \in Nat /\ count2 <= 2 * num + 1
    BY <1>6, <1>7
  <2>3. /\ Leads(opts'.print_bit_error_rate, best', Pairs(opts', packet', num'))
    BY <1>2, <2>1, <2>2 DEF after
  <2>4. best'.ties_count <= (IF num' = 0 THEN 0 ELSE 2 * num' - 1)
    BY <1>1, <1>2, <2>1, <2>2
  <2> QED
    BY <2>1, <2>3, <2>4 DEF Searching
<1>8. RoomForTies'
  <2> SUFFICES ASSUME all => 2 * num_words(opts) <= MAX_VALUES,
                      expected_len(opts) + 2 <= MAX_BITS
               PROVE  fits
    BY <1>1, <1>2 DEF RoomForTies
  <2>1. TargetFits(opts, packet)
    BY DEF TargetFits
  <2>2. count1 < MAX_VALUES
    BY <1>1, <1>5, <2>1
  <2>3. count2 < MAX_VALUES
    BY <1>1, <1>6, <2>1, <2>2
  <2> QED
    BY <2>1, <2>2, <2>3
<1> QED
  BY <1>1, <1>2, <1>7, <1>8

\* Every step of detect_with_lev keeps the invariant, whatever string it is
\* called with.
LEMMA CallKeeps ==
    ASSUME DecInv, NEW str, IsPacket(str), Call(str)
    PROVE  DecInv'
<1>1. /\ status = "idle" /\ status' = "comparing" /\ packet' = str
      /\ opts' = opts /\ num' = 0 /\ best' = Nothing /\ opts \in Options
  BY DEF Call, DecInv
<1>2. 0 \in 0 .. num_words(opts)
  BY <1>1, OptionsFacts
<1>3. Leads(opts.print_bit_error_rate, Nothing, Pairs(opts, str, 0))
      /\ Nothing.ties_count = 0
  BY NothingLeads
<1>4. Searching'
  BY <1>1, <1>2, <1>3 DEF Searching
<1> QED
  BY <1>1, <1>4 DEF DecInv, RoomForTies

LEMMA StepsKeep ==
    ASSUME DecInv, Steps
    PROVE  DecInv'
<1>1. CASE Compare
  <2>1. opts' = opts
    BY <1>1 DEF Compare
  <2> QED
    BY <1>1, <2>1, CompareLeads DEF DecInv
<1>2. CASE Decide
  <2>1. /\ status = "comparing" /\ status' = "matched" /\ num = num_words(opts)
        /\ UNCHANGED <<opts, packet, num, best>>
    BY <1>2 DEF Decide
  <2>2. Searching /\ best.ties_count \in Nat
    BY <2>1 DEF DecInv, Searching, Leads, BestType
  <2>3. Decided'
    <3>1. CASE opts.print_bit_error_rate
      <4>1. PICK rand_num \in Draws : decoded' = best.ties_index[rand_num]
        BY <1>2, <3>1 DEF Decide
      <4>2. rand_num \in 0 .. best.ties_count
        BY <2>2, <4>1 DEF Draws
      <4> QED
        BY <2>1, <3>1, <4>1, <4>2 DEF Decided
    <3>2. CASE ~ opts.print_bit_error_rate
      BY <1>2, <2>1, <3>2 DEF Decide, Decided
    <3> QED
      BY <3>1, <3>2
  <2> QED
    BY <2>1, <2>2, <2>3 DEF DecInv, Searching, RoomForTies
<1>3. CASE Return
  BY <1>3 DEF Return, DecInv, RoomForTies
<1> QED
  BY <1>1, <1>2, <1>3 DEF Steps

LEMMA StutterKeeps ==
    ASSUME DecInv, UNCHANGED vars
    PROVE  DecInv'
BY DEF vars, DecInv, Searching, Decided, RoomForTies

LEMMA DecInvHolds == Spec => []DecInv
<1>1. Init => DecInv
  BY DEF Init, Idle, DecInv, RoomForTies
<1>2. DecInv /\ [Next]_vars => DecInv'
  <2> SUFFICES ASSUME DecInv, [Next]_vars PROVE DecInv'
    OBVIOUS
  <2>1. CASE \E str \in Packets(opts) : Call(str)
    <3>1. opts \in Options
      BY DEF DecInv
    <3>2. PICK str \in Packets(opts) : Call(str)
      BY <2>1
    <3>3. IsPacket(str)
      BY <3>1, <3>2, PacketsAssumption DEF IsPacket
    <3> QED
      BY <3>2, <3>3, CallKeeps
  <2> QED
    BY <2>1, StepsKeep, StutterKeeps DEF Next
<1> QED
  BY <1>1, <1>2, PTL DEF Spec

\* When with -k there are half as many values as places for ties, and the
\* array target has two bits to spare, no packet makes detect_with_lev write
\* past its arrays (decode-algs.c:27-42, 97-120).
THEOREM RoomIsEnough == Spec => []RoomForTies
<1>1. DecInv => RoomForTies
  BY DEF DecInv
<1> QED
  BY DecInvHolds, <1>1, PTL

\* What the invariant says of the decision.
LEMMA DecidesNearest ==
    ASSUME DecInv
    PROVE  DecodesNearest
<1>1. ASSUME status = "matched"
      PROVE  /\ decoded \in Nearest
             /\ IF opts.print_bit_error_rate
                THEN {best.ties_index[i] : i \in 0 .. best.ties_count} = Nearest
                ELSE decoded = First(Nearest)
  <2> DEFINE all == opts.print_bit_error_rate
             R(v) == Results(opts, packet, v)
             N == num_words(opts)
             X == Pairs(opts, packet, N)
             away == [v \in Values |-> Away(v)]
             min == best.min
  <2>1. /\ N \in Nat \ {0} /\ all \in BOOLEAN /\ opts \in Options
        /\ IsPacket(packet) /\ TargetFits(opts, packet)
        /\ Leads(all, best, X) /\ Decided /\ Values = 0 .. N - 1
        /\ best.ties_count \in Nat
    BY <1>1, OptionsFacts DEF DecInv, Searching, Leads, BestType, Values
  <2> HIDE DEF N
  <2>2. ASSUME NEW v \in Values
        PROVE  /\ R(v) \subseteq Nat
               /\ Away(v) \in R(v) /\ \A r \in R(v) : Away(v) <= r
    <3>1. R(v) \subseteq Nat /\ R(v) # {}
      <4> DEFINE T == Targets(opts, packet, v)
                 result(i) == levenshtein(packet, T[i])
      <4>1. /\ \A i \in DOMAIN T : result(i) \in Nat
            /\ DOMAIN T # {}
        BY <2>1, ResultsFacts DEF N
      <4>2. R(v) = {result(i) : i \in DOMAIN T}
        BY DEF Results
      <4> HIDE DEF T, result, R
      <4> QED
        BY <4>1, <4>2
    <3>2. Away(v) = First(R(v))
      BY DEF Away, Results
    <3> HIDE DEF R
    <3> QED
      BY <3>1, <3>2, FirstIsLeast
  <2>3. \A v, r : <<v, r>> \in X <=> v \in Values /\ r \in R(v)
    BY <2>1, <2>2 DEF Pairs
  <2> HIDE DEF R, X
  <2>4. X # {} /\ \A v \in Values : <<v, Away(v)>> \in X /\ Away(v) \in Nat
    <3>1. 0 \in Values
      BY <2>1
    <3> QED
      BY <2>2, <2>3, <3>1
  <2>5. /\ min \in Int /\ \A p \in X : min <= p[2]
        /\ all => /\ \A i \in 0 .. best.ties_count : <<best.ties_index[i], min>> \in X
                  /\ \A p \in X : p[2] = min =>
                        \E i \in 0 .. best.ties_count : best.ties_index[i] = p[1]
        /\ ~ all => /\ <<best.min_index, min>> \in X
                    /\ \A p \in X : p[2] = min => best.min_index <= p[1]
    BY <2>1, <2>4 DEF Leads, BestType
  <2> HIDE DEF min
  <2>6. \A v \in Values : min <= Away(v) /\ Away(v) \in Nat
    BY <2>4, <2>5
  <2>7. \A v : <<v, min>> \in X <=> v \in Values /\ Away(v) = min
    <3>1. ASSUME NEW v, <<v, min>> \in X PROVE v \in Values /\ Away(v) = min
      <4>1. v \in Values /\ min \in R(v)
        BY <2>3, <3>1
      <4>2. Away(v) <= min
        BY <2>2, <4>1
      <4> QED
        BY <2>5, <2>6, <4>1, <4>2
    <3> QED
      BY <2>4, <3>1
  <2>8. \E v \in Values : Away(v) = min
    <3>1. all => 0 \in 0 .. best.ties_count
      BY <2>1
    <3> QED
      BY <2>1, <2>5, <2>7, <3>1
  <2>9. Nearest = {v \in Values : Away(v) = min}
    <3>1. \A v \in Values : away[v] = Away(v)
      OBVIOUS
    <3>2. Nearest = {v \in Values : \A w \in Values : away[v] <= away[w]}
      BY DEF Nearest
    <3> HIDE DEF away
    <3>3. \A v \in Values : (\A w \in Values : away[v] <= away[w]) <=> Away(v) = min
      BY <2>5, <2>6, <2>8, <3>1
    <3> QED
      BY <3>2, <3>3
  <2>10. CASE all
    <3>1. \A i \in 0 .. best.ties_count : best.ties_index[i] \in Nearest
      BY <2>5, <2>7, <2>9, <2>10
    <3>2. \A v \in Nearest : \E i \in 0 .. best.ties_count : best.ties_index[i] = v
      <4> SUFFICES ASSUME NEW v \in Nearest
                   PROVE  \E i \in 0 .. best.ties_count : best.ties_index[i] = v
        OBVIOUS
      <4> DEFINE q == <<v, min>>
      <4>1. q \in X /\ q[2] = min /\ q[1] = v
        BY <2>7, <2>9
      <4> HIDE DEF q
      <4> QED
        BY <2>5, <2>10, <4>1
    <3>3. decoded \in Nearest
      BY <2>1, <2>10, <3>1 DEF Decided
    <3> QED
      BY <2>10, <3>1, <3>2, <3>3
  <2>11. CASE ~ all
    <3> DEFINE m == best.min_index
    <3>1. decoded = m /\ m \in Nearest
      BY <2>1, <2>5, <2>7, <2>9, <2>11 DEF Decided
    <3>2. \A v \in Nearest : m <= v
      <4> SUFFICES ASSUME NEW v \in Nearest PROVE m <= v
        OBVIOUS
      <4> DEFINE q == <<v, min>>
      <4>1. q \in X /\ q[2] = min /\ q[1] = v
        BY <2>7, <2>9
      <4> HIDE DEF q
      <4> QED
        BY <2>5, <2>11, <4>1
    <3>3. Nearest \subseteq Nat /\ Nearest # {}
      BY <2>1, <2>9, <3>1
    <3> HIDE DEF m
    <3>4. First(Nearest) \in Nearest /\ \A v \in Nearest : First(Nearest) <= v
      BY <3>3, FirstIsLeast
    <3>5. First(Nearest) = m
      <4> DEFINE first == First(Nearest)
      <4>1. first \in Nat /\ m \in Nat /\ first <= m /\ m <= first
        BY <3>1, <3>2, <3>3, <3>4
      <4> HIDE DEF first
      <4>2. first = m
        BY <4>1
      <4> QED
        BY <4>2 DEF first
    <3> QED
      BY <2>11, <3>1, <3>5
  <2> QED
    BY <2>10, <2>11
<1> QED
  BY <1>1 DEF DecodesNearest

\* The value that is decoded is one of those whose words the packet is
\* nearest to: with -k the ties are exactly these, without it the decoded
\* value is the least of them (decode-algs.c:27-42, 73-152, 161-176).
THEOREM NearestIsDecoded == Spec => []DecodesNearest
<1>1. DecInv => DecodesNearest
  BY DecidesNearest
<1> QED
  BY DecInvHolds, <1>1, PTL

\* Unless the code words are extended, the packet is compared with one string.
LEMMA AwayOfWord ==
    ASSUME opts \in Options, packet \in Seq(Bit), ~ Extended(opts, packet),
           NEW w \in Values
    PROVE  /\ Away(w) = levenshtein(packet, lev_word(opts, w))
           /\ Away(w) \in Nat
<1> DEFINE x == levenshtein(packet, lev_word(opts, w))
           word == lev_word(opts, w)
<1>1. word \in Seq(Bit)
  BY OptionsFacts DEF Values
<1>2. Targets(opts, packet, w) = <<word>>
  BY DEF Targets
<1>3. {levenshtein(packet, Targets(opts, packet, w)[i]) :
           i \in DOMAIN Targets(opts, packet, w)} = {x}
  <2> DEFINE T == <<word>>
  <2>1. DOMAIN T = {1} /\ T[1] = word
    <3> HIDE DEF word
    <3> QED
      OBVIOUS
  <2> HIDE DEF T, word
  <2>2. {levenshtein(packet, T[i]) : i \in DOMAIN T} = {levenshtein(packet, word)}
    BY <2>1
  <2> QED
    BY <1>2, <2>2 DEF T, word
<1>4. x \in Nat
  BY <1>1, ResultBound
<1> HIDE DEF x
<1>5. First({x}) = x
  <2>1. First({x}) \in {x}
    BY <1>4, FirstIsLeast
  <2> QED
    BY <2>1
<1>6. Away(w) = x
  BY <1>3, <1>5, Zenon DEF Away
<1> QED
  BY <1>4, <1>6 DEF x

\* The strings an extended word is compared as.
LEMMA AwayOfExtended ==
    ASSUME opts \in Options, packet \in Seq(Bit), Extended(opts, packet),
           NEW w \in Values
    PROVE  LET before == <<1>> \o lev_word(opts, w)
               after  == lev_word(opts, w) \o <<1>>
           IN  /\ Away(w) \in {levenshtein(packet, before), levenshtein(packet, after)}
               /\ Away(w) <= levenshtein(packet, before)
               /\ Away(w) <= levenshtein(packet, after)
               /\ Away(w) \in Nat
<1> DEFINE word == lev_word(opts, w)
           before == <<1>> \o word
           after == word \o <<1>>
           x == levenshtein(packet, before)
           y == levenshtein(packet, after)
<1>1. word \in Seq(Bit)
  BY OptionsFacts DEF Values
<1>2. Targets(opts, packet, w) = <<before, after>>
  BY DEF Targets
<1>3. before \in Seq(Bit) /\ after \in Seq(Bit)
  <2> HIDE DEF word
  <2> QED
    BY <1>1 DEF Bit
<1>4. {levenshtein(packet, Targets(opts, packet, w)[i]) :
           i \in DOMAIN Targets(opts, packet, w)} = {x, y}
  <2> DEFINE T == <<before, after>>
  <2>1. DOMAIN T = {1, 2} /\ T[1] = before /\ T[2] = after
    <3> HIDE DEF before, after
    <3> QED
      OBVIOUS
  <2> HIDE DEF T, before, after
  <2>2. {levenshtein(packet, T[i]) : i \in DOMAIN T}
            = {levenshtein(packet, before), levenshtein(packet, after)}
    BY <2>1
  <2> QED
    BY <1>2, <2>2 DEF T
<1>5. x \in Nat /\ y \in Nat
  BY <1>3, ResultBound
<1> HIDE DEF x, y
<1>6. First({x, y}) \in {x, y} /\ First({x, y}) <= x /\ First({x, y}) <= y
  BY <1>5, FirstIsLeast
<1>7. Away(w) = First({x, y})
  BY <1>4, Zenon DEF Away
<1> QED
  BY <1>5, <1>6, <1>7 DEF x, y

\* With three MPDUs per bit no other value is as near as the one whose code
\* word is one edit away.
LEMMA OneEditWins ==
    ASSUME opts \in Options, packet \in Seq(Bit), ~ Extended(opts, packet),
           opts.mpdus_per_bit >= 3, NEW v \in Values,
           OneApart(packet, lev_word(opts, v), Len(packet), Len(lev_word(opts, v)))
    PROVE  \A w \in Nearest : w = v
<1> DEFINE b == opts.bits_per_packet
           m == opts.mpdus_per_bit
           p == opts.preamble_mpdus
           n == expected_len(opts)
           near(w) == OneApart(packet, lev_word(opts, w), Len(packet), n)
<1>1. /\ b \in 1 .. 30 /\ m \in Nat \ {0} /\ p \in Nat \ {0}
      /\ \A w \in Values : lev_word(opts, w) \in Seq(Bit) /\ Len(lev_word(opts, w)) = n
      /\ n = 2 + 2 * p + b * m
  <2>1. n = 2 + 2 * p + b * m
    BY DEF expected_len, total_len
  <2> QED
    BY <2>1, OptionsFacts DEF Values
<1>2. \A w \in Values : w \in 0 .. 2 ^ b - 1 /\ lev_word(opts, w) = lev_string(b, m, p, w)
  BY DEF Values, num_words, num_values_of, lev_word
<1>3. Len(packet) \in Nat /\ n \in Nat
  BY OptionsFacts
<1> HIDE DEF b, p, n
<1>4. ASSUME NEW w \in Values PROVE Away(w) <= 1 <=> near(w)
  <2>1. /\ Away(w) = levenshtein(packet, lev_word(opts, w))
        /\ lev_word(opts, w) \in Seq(Bit) /\ Len(lev_word(opts, w)) = n
    BY <1>1, AwayOfWord
  <2> QED
    BY <2>1, SmallDistance
<1>5. ASSUME NEW w \in Values, near(w), w # v PROVE FALSE
  <2> DEFINE s == lev_word(opts, v)
             t == lev_word(opts, w)
  <2>1. PICK a \in p + 2 .. p + 2 + b * m - m : Apart(s, t, a, m)
    <3>1. \E a \in p + 2 .. p + 2 + b * m - m :
              Apart(lev_string(b, m, p, v), lev_string(b, m, p, w), a, m)
      <4> HIDE DEF m
      <4> QED
        BY <1>1, <1>2, <1>5, WordsApart
    <3> QED
      BY <1>2, <3>1, Zenon
  <2>2. near(v)
    BY <1>1
  <2> HIDE DEF s, t
  <2>3. a \in 1 .. n - m + 1 /\ m \in Nat /\ m >= 3
    <3>1. b * m \in Nat
      BY <1>1
    <3>2. m \in Nat /\ m >= 3
      BY <1>1
    <3> HIDE DEF m
    <3> QED
      BY <1>1, <3>1, <3>2
  <2> HIDE DEF m
  <2> QED
    BY <1>3, <1>5, <2>1, <2>2, <2>3, NoneBetween DEF s, t
<1> HIDE DEF near
<1>6. ASSUME NEW w \in Nearest PROVE w = v
  <2>1. w \in Values /\ Away(w) <= Away(v)
    BY DEF Nearest
  <2>2. Away(v) <= 1
    <3>1. near(v)
      BY <1>1 DEF near
    <3> QED
      BY <1>4, <3>1
  <2>3. Away(w) <= 1
    <3>1. Away(w) \in Nat /\ Away(v) \in Nat
      BY <2>1, AwayOfWord
    <3> QED
      BY <2>1, <2>2, <3>1
  <2> QED
    BY <1>4, <1>5, <2>1, <2>3
<1> QED
  BY <1>6

\* The same where the code words get an extra 1: the value is at a distance of
\* two, at most, and any other of three.
LEMMA OneEditWinsExtended ==
    ASSUME opts \in Options, packet \in Seq(Bit), packet # << >>,
           Extended(opts, packet), opts.mpdus_per_bit >= 3, NEW v \in Values,
           OneApart(packet, lev_word(opts, v), Len(packet), Len(lev_word(opts, v)))
    PROVE  \A w \in Nearest : w = v
<1> DEFINE b == opts.bits_per_packet
           m == opts.mpdus_per_bit
           p == opts.preamble_mpdus
           n == expected_len(opts)
           word(w) == lev_word(opts, w)
<1>1. /\ b \in 1 .. 30 /\ m \in Nat /\ m >= 3 /\ p \in Nat \ {0} /\ n \in Nat
      /\ n = total_len(b, m, p)
      /\ \A w \in Values : word(w) \in Seq(Bit) /\ Len(word(w)) = n
  <2>1. n = total_len(b, m, p)
    BY DEF expected_len
  <2> QED
    BY <2>1, OptionsFacts DEF Values
<1>2. \A w \in Values : w \in 0 .. 2 ^ b - 1 /\ word(w) = lev_string(b, m, p, w)
  BY DEF Values, num_words, num_values_of, lev_word
<1>3. OneApart(packet, word(v), Len(packet), n)
  BY <1>1
<1> HIDE DEF b, m, p, n, word
<1>4. Away(v) <= 2 /\ Away(v) \in Nat
  <2> DEFINE one == <<1>>
             after == word(v) \o one
  <2>1. one \in Seq(Bit) /\ Len(one) = 1
    BY DEF Bit
  <2> HIDE DEF one
  <2>2. Joins(after, word(v), one, Bit)
    BY <1>1, <2>1, ConcatFacts
  <2> HIDE DEF after
  <2>3. /\ after \in Seq(Bit) /\ Len(after) = n + 1 /\ after # << >>
        /\ \A j \in 1 .. n : after[j] = word(v)[j]
    BY <1>1, <2>1, <2>2 DEF Joins
  <2>4. OneApart(packet, after, Len(packet), n)
    <3>1. \A j \in 1 .. n : word(v)[j] = after[j]
      BY <2>3
    <3> DEFINE y == Len(packet)
               w == word(v)
    <3>2. y \in Nat
      OBVIOUS
    <3> HIDE DEF y, w
    <3>3. AlmostAgree(packet, w, n) => AlmostAgree(packet, after, n)
      BY <3>1 DEF AlmostAgree, w
    <3>4. ASSUME y = n + 1, Longer(packet, w, y) PROVE Longer(packet, after, y)
      <4>1. PICK i \in 1 .. y : /\ \A j \in 1 .. i - 1 : packet[j] = w[j]
                                /\ \A j \in i + 1 .. y : packet[j] = w[j - 1]
        BY <3>4 DEF Longer
      <4>2. \A j \in 1 .. i - 1 : packet[j] = after[j]
        BY <1>1, <3>1, <3>4, <4>1 DEF w
      <4>3. ASSUME NEW j \in i + 1 .. y PROVE packet[j] = after[j - 1]
        <5>1. j - 1 \in 1 .. n
          BY <1>1, <3>4
        <5> QED
          BY <3>1, <4>1, <5>1 DEF w
      <4> QED
        BY <4>2, <4>3 DEF Longer
    <3>5. ASSUME Longer(w, packet, n) PROVE Longer(after, packet, n)
      <4>1. PICK i \in 1 .. n : /\ \A j \in 1 .. i - 1 : w[j] = packet[j]
                                /\ \A j \in i + 1 .. n : w[j] = packet[j - 1]
        BY <3>5 DEF Longer
      <4>2. /\ \A j \in 1 .. i - 1 : after[j] = packet[j]
            /\ \A j \in i + 1 .. n : after[j] = packet[j - 1]
        BY <1>1, <3>1, <4>1 DEF w
      <4> QED
        BY <4>2 DEF Longer
    <3>6. OneApart(packet, w, y, n)
      BY <1>3 DEF y, w
    <3>7. OneApart(packet, after, y, n)
      BY <3>3, <3>4, <3>5, <3>6 DEF OneApart
    <3> QED
      BY <3>7 DEF y
  <2>5. Len(after) - 1 = n
    BY <1>1, <2>3
  <2>6. levenshtein(packet, after) <= 2
    BY <2>3, <2>4, <2>5, OneMore
  <2>7. Away(v) <= levenshtein(packet, after) /\ Away(v) \in Nat
    BY AwayOfExtended DEF after, word, one
  <2>8. levenshtein(packet, after) \in Nat
    BY <2>3, ResultBound
  <2> QED
    BY <2>6, <2>7, <2>8
<1>5. ASSUME NEW w \in Values, w # v PROVE Away(w) >= 3 /\ Away(w) \in Nat
  <2>1. /\ levenshtein(packet, <<1>> \o word(w)) >= 3
        /\ levenshtein(packet, word(w) \o <<1>>) >= 3
    BY <1>1, <1>2, <1>3, <1>5, ExtendedAreFar
  <2> QED
    BY <2>1, AwayOfExtended DEF word
<1>6. ASSUME NEW w \in Nearest PROVE w = v
  <2>1. w \in Values /\ Away(w) <= Away(v)
    BY DEF Nearest
  <2> QED
    BY <1>4, <1>5, <2>1
<1> QED
  BY <1>6

\* With three MPDUs per bit or more one error is corrected, whether the packet is
\* compared with the code words as they are or, if it is not of the ideal length,
\* with an extra 1 before and after them (decode-algs.c:79-151).
THEOREM OneErrorIsCorrected == Spec => []OneErrorCorrected
<1>1. DecInv => OneErrorCorrected
  <2> SUFFICES ASSUME DecInv, status = "matched", opts.mpdus_per_bit >= 3,
                      NEW v \in Values, packet \in OneError(v)
               PROVE  decoded = v
    BY DEF OneErrorCorrected
  <2>1. opts \in Options /\ packet \in Seq(Bit) /\ packet # << >>
    BY DEF DecInv, Searching, IsPacket
  <2>2. decoded \in Nearest
    BY DecidesNearest DEF DecodesNearest
  <2>3. lev_word(opts, v) \in Seq(Bit)
    BY <2>1, OptionsFacts DEF Values
  <2>4. OneApart(packet, lev_word(opts, v), Len(packet), Len(lev_word(opts, v)))
    BY <2>3, OneEdit DEF OneError
  <2>5. CASE ~ Extended(opts, packet)
    BY <2>1, <2>2, <2>4, <2>5, OneEditWins
  <2>6. CASE Extended(opts, packet)
    BY <2>1, <2>2, <2>4, <2>6, OneEditWinsExtended
  <2> QED
    BY <2>5, <2>6
<1> QED
  BY DecInvHolds, <1>1, PTL

-----------------------------------------------------------------------------
(* The link: what an A-MPDU sees of the tag.  The waits after a message are *)
(* as long as an A-MPDU, the values have their bits, and an amble shows: at *)
(* one MPDU the regular expression lets it be empty.                        *)

LongWaits ==
    /\ P >= 2
    /\ AMPDU_LEN <= wait_time
    /\ startnum + sizeofarray <= 2 ^ B

\* The MPDUs of a message, and the level in the j-th since its start; after
\* the message the level is 1.
Span == 2 * P + B * M

LevelAt(v, j) ==
    IF P < j /\ j <= P + B * M THEN BIT(v, B - 1 - ((j - P - 1) \div M))
    ELSE IF j <= Span THEN 0 ELSE 1

\* str is what is seen when the message begins after its position o, and the
\* level was base before.
Follows(str, v, o, base) ==
    \A k \in 1 .. Len(str) : str[k] = IF k <= o THEN base ELSE LevelAt(v, k - o)

\* How many MPDUs of a message have passed when only b bits are left to send.
EndOf(b) == P + (B - b) * M

LEMMA SettingsFacts ==
    /\ B \in Nat \ {0} /\ M \in Nat \ {0} /\ P \in Nat \ {0}
    /\ B * M \in Nat \ {0} /\ Span \in Nat \ {0}
    /\ startnum \in Nat /\ sizeofarray \in Nat \ {0}
    /\ wait_time \in Nat /\ rest_time \in Nat
    /\ AMPDU_LEN \in Nat \ {0} /\ AMPDU_LEN <= MAX_BITS /\ MAX_BITS \in Nat
<1>1. B \in Nat \ {0} /\ M \in Nat \ {0} /\ P \in Nat \ {0}
      /\ startnum \in Nat /\ sizeofarray \in Nat \ {0}
      /\ wait_time \in Nat /\ rest_time \in Nat
  BY SettingsAssumption
<1>2. B * M \in Nat \ {0}
  BY <1>1
<1>3. Span \in Nat \ {0}
  BY <1>1, <1>2 DEF Span
<1> QED
  BY <1>1, <1>2, <1>3, ArraysAssumption, LinkAssumption

LEMMA EndOfFacts ==
    /\ EndOf(B) = P /\ EndOf(0) = P + B * M /\ Span = P + B * M + P
    /\ \A b \in 0 .. B : EndOf(b) \in P .. P + B * M
    /\ \A b \in 0 .. B - 1 : EndOf(b) = EndOf(b + 1) + M
<1>1. B \in Nat \ {0} /\ M \in Nat \ {0} /\ P \in Nat \ {0}
      /\ B * M \in Nat \ {0}
  BY SettingsFacts
<1>2. EndOf(B) = P
  <2>1. (B - B) * M = 0
    BY <1>1
  <2> QED
    BY <1>1, <2>1 DEF EndOf
<1>3. EndOf(0) = P + B * M /\ Span = P + B * M + P
  <2>1. (B - 0) * M = B * M
    BY <1>1
  <2> QED
    BY <1>1, <2>1 DEF EndOf, Span
<1>4. ASSUME NEW b \in 0 .. B
      PROVE  EndOf(b) \in P .. P + B * M
  <2>1. (B - b) * M \in Int /\ (B - b) * M <= B * M /\ 0 <= (B - b) * M
    BY <1>1
  <2> QED
    BY <1>1, <2>1 DEF EndOf
<1>5. ASSUME NEW b \in 0 .. B - 1
      PROVE  EndOf(b) = EndOf(b + 1) + M
  <2>1. (B - b) * M = (B - (b + 1)) * M + M /\ (B - (b + 1)) * M \in Int
    BY <1>1
  <2> QED
    BY <1>1, <2>1 DEF EndOf
<1> QED
  BY <1>2, <1>3, <1>4, <1>5

\* The levels of the phases of send_data.
LEMMA LevelFacts ==
    ASSUME NEW v \in Nat, B \in 1 .. 30
    PROVE  /\ \A b \in 0 .. B - 1 :
                 /\ BIT(v, b) \in Bit
                 /\ \A j \in EndOf(b + 1) + 1 .. EndOf(b) : LevelAt(v, j) = BIT(v, b)
           /\ \A j \in 1 .. P : LevelAt(v, j) = 0
           /\ \A j \in EndOf(0) + 1 .. Span : LevelAt(v, j) = 0
           /\ \A j \in Int : j > Span => LevelAt(v, j) = 1
           /\ \A j \in Nat \ {0} : LevelAt(v, j) \in Bit
<1> DEFINE L == B * M
<1>1. B \in Nat \ {0} /\ M \in Nat \ {0} /\ P \in Nat \ {0} /\ L \in Nat \ {0}
      /\ Span \in Nat \ {0} /\ EndOf(0) = P + L /\ Span = P + L + P
  BY SettingsFacts, EndOfFacts
<1>2. ASSUME NEW b \in 0 .. B - 1
      PROVE  BIT(v, b) \in Bit
  <2> DEFINE power == 2 ^ b
             q == v \div power
  <2>1. power \in Nat \ {0}
    <3>1. b \in 0 .. 30
      OBVIOUS
    <3>2. 2 ^ b \in Nat /\ b < 2 ^ b
      BY <3>1, Powers
    <3> HIDE DEF power
    <3> QED
      BY <3>1, <3>2 DEF power
  <2> HIDE DEF power
  <2>2. q \in Int
    BY <2>1
  <2> HIDE DEF q
  <2>3. q % 2 \in Bit
    BY <2>2 DEF Bit
  <2> QED
    BY <2>3 DEF BIT, q, power
<1>3. ASSUME NEW b \in 0 .. B - 1, NEW j \in EndOf(b + 1) + 1 .. EndOf(b)
      PROVE  LevelAt(v, j) = BIT(v, b)
  <2> DEFINE h == B - 1 - b
             r == j - P - 1 - M * h
  <2>1. /\ EndOf(b) \in P .. P + L /\ EndOf(b + 1) \in P .. P + L
        /\ EndOf(b) = EndOf(b + 1) + M
    <3>1. b \in 0 .. B /\ b + 1 \in 0 .. B
      BY <1>1
    <3> QED
      BY <3>1, EndOfFacts
  <2>2. EndOf(b + 1) = P + M * h
    <3>1. (B - (b + 1)) * M = M * h
      BY <1>1
    <3> QED
      BY <3>1 DEF EndOf
  <2>3. h \in Nat /\ M * h \in Nat
    BY <1>1
  <2> HIDE DEF L
  <2>4. P < j /\ j <= P + L /\ j \in Int
    BY <1>1, <2>1
  <2>5. r \in 0 .. M - 1 /\ j - P - 1 = M * h + r
    <3> DEFINE start == EndOf(b + 1)
               stop == EndOf(b)
               c == M * h
    <3>1. start \in Int /\ stop = start + M /\ start = P + c /\ c \in Nat
          /\ j \in start + 1 .. stop
      BY <1>1, <2>1, <2>2, <2>3
    <3>2. j - P - 1 - c \in 0 .. M - 1 /\ j - P - 1 = c + (j - P - 1 - c)
      <4> HIDE DEF start, stop, c
      <4> QED
        BY <1>1, <3>1
    <3> QED
      BY <3>2
  <2> HIDE DEF h, r
  <2>6. (M * h + r) \div M = h
    BY <1>1, <2>3, <2>5, QuotientIs
  <2>7. (j - P - 1) \div M = h
    BY <2>5, <2>6, Zenon
  <2>8. LevelAt(v, j) = BIT(v, B - 1 - ((j - P - 1) \div M))
    BY <2>4 DEF LevelAt, L
  <2>9. B - 1 - h = b
    BY <1>1 DEF h
  <2> QED
    BY <2>7, <2>8, <2>9, Zenon
<1>4. ASSUME NEW j \in Nat \ {0}
      PROVE  LevelAt(v, j) \in Bit
  <2>1. CASE ~ (P < j /\ j <= P + B * M)
    BY <2>1 DEF LevelAt, Bit
  <2>2. CASE P < j /\ j <= P + B * M
    <3> DEFINE a == j - P - 1
               q == a \div M
    <3>1. a \in Nat /\ 0 * M <= a /\ a <= B * M - 1 /\ a <= B * M
      BY <1>1, <2>2
    <3> HIDE DEF a
    <3>2. q \in 0 .. B /\ a = M * q + (a % M) /\ a % M \in 0 .. M - 1
      BY <1>1, <3>1, DivideBetween
    <3> HIDE DEF q
    <3>3. q # B
      <4>1. M * B = B * M
        BY <1>1
      <4> QED
        BY <1>1, <3>1, <3>2, <4>1
    <3>4. B - 1 - q \in 0 .. B - 1
      BY <1>1, <3>2, <3>3
    <3>5. LevelAt(v, j) = BIT(v, B - 1 - q)
      BY <2>2 DEF LevelAt, a, q
    <3> QED
      BY <1>2, <3>4, <3>5
  <2> QED
    BY <2>1, <2>2
<1>5. /\ \A j \in 1 .. P : LevelAt(v, j) = 0
      /\ \A j \in EndOf(0) + 1 .. Span : LevelAt(v, j) = 0
      /\ \A j \in Int : j > Span => LevelAt(v, j) = 1
  <2>1. \A j \in 1 .. P : j <= Span /\ ~ (P < j)
    BY <1>1
  <2>2. \A j \in EndOf(0) + 1 .. Span : j <= Span /\ ~ (j <= P + B * M)
    BY <1>1
  <2>3. \A j \in Int : j > Span => ~ (j <= Span) /\ ~ (j <= P + B * M)
    BY <1>1
  <2> HIDE DEF L
  <2> QED
    BY <2>1, <2>2, <2>3 DEF LevelAt
<1> QED
  BY <1>2, <1>3, <1>4, <1>5

\* When the tag is set as decode is, its levels are the code words.
LEMMA WordLevels ==
    ASSUME opts \in Options, InRange
    PROVE  /\ B \in 1 .. 30 /\ Values = 0 .. 2 ^ B - 1 /\ 2 ^ B \in Nat
           /\ expected_len(opts) = Span + 2
           /\ \A v \in Values :
                 LET word == lev_word(opts, v)
                 IN  /\ word \in Seq(Bit) /\ Len(word) = Span + 2
                     /\ word[1] = 1 /\ word[Span + 2] = 1
                     /\ \A j \in 1 .. Span : word[j + 1] = LevelAt(v, j)
           /\ \A v, w \in Values : lev_word(opts, v) = lev_word(opts, w) => v = w
<1> DEFINE L == B * M
<1>1. /\ B \in 1 .. 30 /\ B \in 0 .. 30 /\ M \in Nat \ {0} /\ P \in Nat \ {0}
      /\ L \in Nat \ {0}
      /\ opts.bits_per_packet = B /\ opts.mpdus_per_bit = M
      /\ opts.preamble_mpdus = P
  BY OptionsAssumption, SettingsFacts DEF LegalOptions, InRange
<1>2. 2 ^ B \in Nat /\ Values = 0 .. 2 ^ B - 1
  BY <1>1, Powers DEF Values, num_words, num_values_of
<1>3. expected_len(opts) = Span + 2 /\ total_len(B, M, P) = Span + 2 /\ Span = P + L + P
  BY <1>1 DEF expected_len, total_len, Span
<1>4. \A v : lev_word(opts, v) = lev_string(B, M, P, v)
  BY <1>1 DEF lev_word
<1>5. ASSUME NEW v \in Values
      PROVE  LET word == lev_word(opts, v)
             IN  /\ word \in Seq(Bit) /\ Len(word) = Span + 2
                 /\ word[1] = 1 /\ word[Span + 2] = 1
                 /\ \A j \in 1 .. Span : word[j + 1] = LevelAt(v, j)
  <2> DEFINE word == lev_string(B, M, P, v)
             end == P + 1 + L
  <2>1. /\ word \in Seq(Bit) /\ Len(word) = Span + 2
        /\ word[1] = 1 /\ word[Span + 2] = 1
        /\ \A k \in 1 .. P : word[k + 1] = 0 /\ word[end + k] = 0
        /\ \A k \in 1 .. L : word[P + 1 + k] = message_bits(B, M, v)[k]
    <3>1. v \in 0 .. 2 ^ B - 1
      BY <1>2
    <3>2. LET last == P + 1 + B * M
          IN  /\ word \in Seq(Bit)
              /\ Len(word) = total_len(B, M, P)
              /\ last \in Nat /\ last + P + 1 = total_len(B, M, P) /\ last > P + 1
              /\ word[1] = 1 /\ word[Len(word)] = 1
              /\ \A k \in 1 .. P : word[k + 1] = 0 /\ word[last + k] = 0
              /\ \A k \in 1 .. B * M :
                    word[P + 1 + k] = message_bits(B, M, v)[k]
      <4>1. B \in 1 .. 30 /\ M \in Nat \ {0} /\ P \in Nat \ {0}
        BY <1>1
      <4> QED
        BY <3>1, <4>1, WordFacts, Zenon
    <3> HIDE DEF word
    <3> QED
      BY <1>3, <3>2
  <2>2. \A k \in 1 .. L :
            message_bits(B, M, v)[k] = (v \div 2 ^ (B - 1 - ((k - 1) \div M))) % 2
    BY <1>1, <1>2, MessageDigits
  <2> HIDE DEF word
  <2>3. ASSUME NEW j \in 1 .. Span PROVE word[j + 1] = LevelAt(v, j)
    <3>1. CASE j <= P
      <4>1. word[j + 1] = 0
        BY <1>1, <2>1, <3>1
      <4> QED
        BY <1>1, <3>1, <4>1 DEF LevelAt
    <3>2. CASE P < j /\ j <= P + L
      <4> DEFINE k == j - P
      <4>1. k \in 1 .. L /\ j + 1 = P + 1 + k
        BY <1>1, <3>2
      <4>2. LevelAt(v, j) = BIT(v, B - 1 - ((k - 1) \div M))
        BY <3>2 DEF LevelAt
      <4> HIDE DEF k
      <4> QED
        BY <2>1, <2>2, <4>1, <4>2, Zenon DEF BIT
    <3>3. CASE P + L < j
      <4>1. j - L - P \in 1 .. P /\ j + 1 = end + (j - L - P)
        BY <1>1, <1>3, <3>3
      <4>2. word[j + 1] = 0
        BY <2>1, <4>1
      <4>3. ~ (j <= P + B * M) /\ j <= Span
        BY <1>1, <3>3
      <4> QED
        BY <4>2, <4>3 DEF LevelAt
    <3> QED
      BY <1>1, <3>1, <3>2, <3>3
  <2> QED
    BY <1>4, <2>1, <2>3 DEF word
<1>6. ASSUME NEW v \in Values, NEW w \in Values, lev_word(opts, v) = lev_word(opts, w)
      PROVE  v = w
  <2>1. v \in 0 .. 2 ^ B - 1 /\ w \in 0 .. 2 ^ B - 1
    BY <1>2
  <2>2. lev_string(B, M, P, v) = lev_string(B, M, P, w)
    BY <1>4, <1>6, Zenon
  <2> QED
    BY <1>1, <2>1, <2>2, WordsDiffer, ZenonT(60)
<1> QED
  BY <1>1, <1>2, <1>3, <1>5, <1>6

\* What there is around the bits of a message that begins after the position o
\* of str.
Around(str, o, base) ==
    \A k \in (1 .. Len(str)) \ (o + P + 1 .. o + P + B * M) :
        str[k] = IF k <= o THEN base ELSE IF k <= o + Span THEN 0 ELSE 1

LEMMA FollowsAround ==
    ASSUME NEW str \in Seq(Bit), NEW v, NEW o \in Int, NEW base,
           Follows(str, v, o, base)
    PROVE  Around(str, o, base)
<1> DEFINE L == B * M
<1>1. P \in Nat \ {0} /\ L \in Nat \ {0} /\ Span \in Nat /\ Len(str) \in Nat
      /\ Span = 2 * P + L
  BY SettingsFacts DEF Span
<1> HIDE DEF L
<1>2. ASSUME NEW k \in (1 .. Len(str)) \ (o + P + 1 .. o + P + L)
      PROVE  str[k] = IF k <= o THEN base ELSE IF k <= o + Span THEN 0 ELSE 1
  <2>1. str[k] = IF k <= o THEN base ELSE LevelAt(v, k - o)
    BY DEF Follows
  <2>2. ~ (k <= o) => LevelAt(v, k - o) = IF k <= o + Span THEN 0 ELSE 1
    <3>1. ~ (P < k - o /\ k - o <= P + L) /\ (k - o <= Span <=> k <= o + Span)
      BY <1>1
    <3> QED
      BY <3>1 DEF LevelAt, L
  <2> QED
    BY <2>1, <2>2
<1> QED
  BY <1>2 DEF Around, L

\* A part that is as long as a packet, begins with a 1 that a 0 follows and
\* ends with a 1 that follows a 0, is where the message is, whatever its bits,
LEMMA OnlyPlace ==
    ASSUME NEW str \in Seq(Bit), NEW o \in Int, NEW base \in Bit,
           Around(str, o, base),
           NEW s \in 1 .. Len(str), NEW e \in 1 .. Len(str), s < e,
           str[s] = 1, str[s + 1] = 0, str[e - 1] = 0, str[e] = 1, e - s >= Span
    PROVE  s = o /\ e = o + Span + 1
<1> DEFINE L == B * M
<1>1. P \in Nat \ {0} /\ L \in Nat \ {0} /\ Span \in Nat /\ Len(str) \in Nat
      /\ Span = 2 * P + L
  BY SettingsFacts DEF Span
<1>2. /\ \A k \in 1 .. Len(str) : k <= o => str[k] = base
      /\ \A k \in 1 .. Len(str) : o < k /\ k <= o + P => str[k] = 0
      /\ \A k \in 1 .. Len(str) : o + P + L < k /\ k <= o + Span => str[k] = 0
      /\ \A k \in 1 .. Len(str) : o + Span < k => str[k] = 1
  <2>1. \A k \in (1 .. Len(str)) \ (o + P + 1 .. o + P + L) :
            str[k] = IF k <= o THEN base ELSE IF k <= o + Span THEN 0 ELSE 1
    BY DEF Around
  <2> HIDE DEF L
  <2> QED
    BY <1>1, <2>1
<1> HIDE DEF L
<1>3. s + 1 \in 1 .. Len(str) /\ e - 1 \in 1 .. Len(str)
  BY <1>1
<1>4. s >= o
  <2>1. ASSUME s < o PROVE FALSE
    <3>1. s + 1 <= o /\ s <= o
      BY <2>1
    <3>2. str[s] = base /\ str[s + 1] = base
      BY <1>2, <1>3, <3>1
    <3> QED
      BY <3>2
  <2> QED
    BY <2>1
<1>5. s = o
  <2>1. ASSUME s > o PROVE FALSE
    <3>1. s > o + P
      <4>1. s <= o + P => str[s] = 0
        BY <1>2, <2>1
      <4> QED
        BY <1>1, <4>1
    <3>2. e - 1 > o + Span
      BY <1>1, <3>1
    <3> QED
      BY <1>2, <1>3, <3>2
  <2> QED
    BY <1>4, <2>1
<1>6. e = o + Span + 1
  <2>1. e # o + Span
    <3>1. ASSUME e = o + Span PROVE FALSE
      <4>1. o + P + L < e
        BY <1>1, <3>1
      <4> QED
        BY <1>2, <3>1, <4>1
    <3> QED
      BY <3>1
  <2>2. ASSUME e > o + Span + 1 PROVE FALSE
    <3>1. e - 1 > o + Span
      BY <1>1, <2>2
    <3> QED
      BY <1>2, <1>3, <3>1
  <2> QED
    BY <1>1, <1>5, <2>1, <2>2
<1> QED
  BY <1>5, <1>6

\* and without errors it is the code word.
LEMMA OnlyMatch ==
    ASSUME opts \in Options, InRange, NEW str \in Seq(Bit), NEW v \in Values,
           NEW o \in Int, NEW base \in Bit, Follows(str, v, o, base),
           NEW s \in 1 .. Len(str), NEW e \in 1 .. Len(str), s < e,
           str[s] = 1, str[s + 1] = 0, str[e - 1] = 0, str[e] = 1, e - s >= Span
    PROVE  /\ s = o /\ e = o + Span + 1
           /\ SubSeq(str, s, e) = lev_word(opts, v)
<1> DEFINE at(k) == LevelAt(v, k)
<1>1. Span \in Nat \ {0} /\ Len(str) \in Nat
  BY SettingsFacts
<1>2. s = o /\ e = o + Span + 1
  BY FollowsAround, OnlyPlace
<1>3. \A k \in 1 .. Len(str) : str[k] = IF k <= o THEN base ELSE at(k - o)
  BY DEF Follows
<1> HIDE DEF at
<1>4. SubSeq(str, s, e) = lev_word(opts, v)
  <2> DEFINE part == SubSeq(str, s, e)
             word == lev_word(opts, v)
  <2>1. part \in Seq(Bit) /\ Len(part) = Span + 2
        /\ \A i \in 1 .. Span + 2 : part[i] = str[s + i - 1]
    BY <1>1, <1>2
  <2>2. word \in Seq(Bit) /\ Len(word) = Span + 2 /\ word[1] = 1 /\ word[Span + 2] = 1
        /\ \A j \in 1 .. Span : word[j + 1] = at(j)
    BY WordLevels DEF at
  <2> HIDE DEF part, word
  <2>3. ASSUME NEW i \in 1 .. Span + 2 PROVE part[i] = word[i]
    <3>1. CASE i = 1
      <4>1. s + 1 - 1 = s /\ 1 \in 1 .. Span + 2
        BY <1>1
      <4> QED
        BY <2>1, <2>2, <3>1, <4>1
    <3>2. CASE i = Span + 2
      <4>1. s + i - 1 = e
        BY <1>1, <1>2, <3>2
      <4> QED
        BY <2>1, <2>2, <3>2, <4>1
    <3>3. CASE i \in 2 .. Span + 1
      <4> DEFINE j == i - 1
      <4>1. j \in 1 .. Span /\ s + i - 1 \in 1 .. Len(str) /\ ~ (s + i - 1 <= o)
            /\ s + i - 1 - o = j /\ j + 1 = i
        BY <1>1, <1>2, <3>3
      <4> HIDE DEF j
      <4>2. part[i] = str[s + i - 1]
        BY <2>1
      <4>3. str[s + i - 1] = at(s + i - 1 - o)
        BY <1>3, <4>1, SMTT(30)
      <4>4. part[i] = at(j)
        BY <4>1, <4>2, <4>3, Zenon
      <4> QED
        BY <2>2, <4>1, <4>4
    <3> QED
      BY <1>1, <3>1, <3>2, <3>3
  <2>4. \A i \in 1 .. Len(part) : part[i] = word[i]
    BY <2>1, <2>3
  <2>5. part = word
    BY <2>1, <2>2, <2>4, SeqEqual
  <2> QED
    BY <2>5 DEF part, word
<1> QED
  BY <1>2, <1>4

\* The places of a match of one MPDU too many, or of one too few, when the k-th
\* MPDU of the A-MPDU is the only one that may be wrong: the part from s to e
\* begins or ends one MPDU before or after a message that begins after o.
Slipped(s, e, k, o) ==
    \/ s = o /\ e = o + Span + 1
    \/ k = o /\ s = o - 1 /\ e = o + Span + 1
    \/ k = o + 1 /\ s = k /\ e = o + Span + 1
    \/ k = o + Span /\ s = o /\ e = k
    \/ k = o + Span + 1 /\ s = o /\ e = o + Span + 2

\* With two 0s to each amble there are no others: to begin or end farther away
\* takes two errors.
LEMMA FewPlaces ==
    ASSUME P >= 3, NEW str \in Seq(Bit), NEW o \in 1 .. Len(str), NEW k \in Int,
           \A q \in (1 .. Len(str)) \ (o + P + 1 .. o + P + B * M) :
               q # k => str[q] = IF q <= o THEN 1 ELSE IF q <= o + Span THEN 0 ELSE 1,
           NEW s \in 1 .. Len(str), NEW e \in 1 .. Len(str), s < e, e - s >= Span,
           str[s] = 1, str[s + 1] = 0, str[s + 2] = 0,
           str[e - 2] = 0, str[e - 1] = 0, str[e] = 1
    PROVE  Slipped(s, e, k, o)
<1> DEFINE L == B * M
<1>1. P \in Nat /\ L \in Nat \ {0} /\ Span \in Nat /\ Len(str) \in Nat
      /\ Span = 2 * P + L
  BY SettingsFacts DEF Span
<1>2. /\ \A q \in 1 .. Len(str) : q <= o /\ q # k => str[q] = 1
      /\ \A q \in 1 .. Len(str) : o < q /\ q <= o + P /\ q # k => str[q] = 0
      /\ \A q \in 1 .. Len(str) :
             o + P + L < q /\ q <= o + Span /\ q # k => str[q] = 0
      /\ \A q \in 1 .. Len(str) : o + Span < q /\ q # k => str[q] = 1
  <2>1. \A q \in (1 .. Len(str)) \ (o + P + 1 .. o + P + L) :
            q # k => str[q] = IF q <= o THEN 1 ELSE IF q <= o + Span THEN 0 ELSE 1
    OBVIOUS
  <2> HIDE DEF L
  <2> QED
    BY <1>1, <2>1
<1> HIDE DEF L
<1>3. /\ s + 1 \in 1 .. Len(str) /\ s + 2 \in 1 .. Len(str)
      /\ e - 1 \in 1 .. Len(str) /\ e - 2 \in 1 .. Len(str)
  BY <1>1
<1>4. /\ e - 1 <= o + Span \/ e - 1 = k
      /\ e - 2 <= o + Span \/ e - 2 = k
  BY <1>1, <1>2, <1>3
<1>5. CASE s < o
  <2>1. s + 1 = k
    BY <1>2, <1>3, <1>5
  <2>2. s + 1 = o
    <3>1. s + 2 <= o => FALSE
      BY <1>2, <1>3, <2>1
    <3> QED
      BY <1>5, <3>1
  <2>3. e <= o + Span + 1
    BY <1>1, <1>4, <2>1
  <2>4. ~ (o + P + L < e /\ e <= o + Span)
    BY <1>1, <1>2, <2>1
  <2> QED
    BY <1>1, <2>1, <2>2, <2>3, <2>4 DEF Slipped
<1>6. CASE s = o
  <2>1. e <= o + Span + 2 /\ (e = o + Span + 2 => k = o + Span + 1)
    BY <1>1, <1>4, <1>6
  <2>2. e = o + Span => k = e
    BY <1>1, <1>2
  <2> QED
    BY <1>1, <1>6, <2>1, <2>2 DEF Slipped
<1>7. CASE s > o
  <2>1. s <= o + P
    BY <1>1, <1>4, <1>7
  <2>2. s = k
    BY <1>2, <1>7, <2>1
  <2>3. e <= o + Span + 1
    BY <1>1, <1>4, <2>2
  <2> QED
    BY <1>1, <1>7, <2>2, <2>3 DEF Slipped
<1> QED
  BY <1>5, <1>6, <1>7

\* A 1 or a 0 more, or less, at an end of the message is one edit of its word.
LEMMA SlipIsOneEdit ==
    ASSUME NEW a \in Seq(Bit), NEW h \in Seq(Bit), Len(a) = Len(h),
           NEW o \in 1 .. Len(a), o + Span + 1 \in 1 .. Len(a),
           a[o] = 1, a[o + Span + 1] = 1,
           NEW k \in Int, \A q \in 1 .. Len(a) : q # k => a[q] = h[q],
           NEW s \in 1 .. Len(h), NEW e \in 1 .. Len(h), s < e, h[s] = 1, h[e] = 1,
           Slipped(s, e, k, o)
    PROVE  LET part == SubSeq(h, s, e)
           IN  /\ part \in Seq(Bit) /\ part # << >>
               /\ s = o /\ e = o + Span + 1 => Len(part) = Span + 2
               /\ OneApart(part, SubSeq(a, o, o + Span + 1), Len(part), Span + 2)
<1> DEFINE part == SubSeq(h, s, e)
           word == SubSeq(a, o, o + Span + 1)
           n == Span + 2
           y == Len(part)
<1>1. Span \in Nat \ {0} /\ Len(a) \in Nat
  BY SettingsFacts
<1>2. /\ part \in Seq(Bit) /\ y = e - s + 1
      /\ \A i \in 1 .. y : s + i - 1 \in 1 .. Len(h) /\ part[i] = h[s + i - 1]
  OBVIOUS
<1>3. /\ word \in Seq(Bit) /\ Len(word) = n
      /\ \A i \in 1 .. n : o + i - 1 \in 1 .. Len(a) /\ word[i] = a[o + i - 1]
  BY <1>1
<1>4. part # << >> /\ (s = o /\ e = o + Span + 1 => y = n)
  <2>1. y # 0
    BY <1>2
  <2> HIDE DEF part
  <2> QED
    BY <1>1, <1>2, <2>1
<1> HIDE DEF part, word, y
<1>5. OneApart(part, word, y, n)
  <2>1. CASE s = o /\ e = o + Span + 1
    <3>1. y = n
      BY <1>1, <1>2, <2>1
    <3>2. \A i \in 1 .. n : o + i - 1 # k => part[i] = word[i]
      BY <1>1, <1>2, <1>3, <2>1, <3>1
    <3>3. AlmostAgree(part, word, n)
      <4>1. CASE k - o + 1 \in 0 .. n
        <5>1. \A i \in 1 .. n : i # k - o + 1 => part[i] = word[i]
          BY <3>2
        <5> QED
          BY <4>1, <5>1 DEF AlmostAgree
      <4>2. CASE k - o + 1 \notin 0 .. n
        <5>1. 0 \in 0 .. n /\ \A i \in 1 .. n : i # 0 => part[i] = word[i]
          BY <1>1, <3>2, <4>2
        <5> QED
          BY <5>1 DEF AlmostAgree
      <4> QED
        BY <4>1, <4>2
    <3> QED
      BY <3>1, <3>3 DEF OneApart
  <2>2. CASE k = o /\ s = o - 1 /\ e = o + Span + 1
    <3>1. y \in Nat /\ y = n + 1 /\ 2 \in 1 .. y
      BY <1>1, <1>2, <2>2
    <3>2. \A j \in 1 .. 2 - 1 : part[j] = word[j]
      BY <1>1, <1>2, <1>3, <2>2, <3>1
    <3>3. ASSUME NEW j \in 2 + 1 .. y PROVE part[j] = word[j - 1]
      <4>1. j \in 1 .. y /\ j - 1 \in 1 .. n /\ s + j - 1 = o + (j - 1) - 1
            /\ s + j - 1 # k
        BY <1>1, <2>2, <3>1
      <4> QED
        BY <1>2, <1>3, <4>1
    <3> QED
      BY <3>1, <3>2, <3>3 DEF OneApart, Longer
  <2>3. CASE k = o + 1 /\ s = k /\ e = o + Span + 1
    <3>1. y \in Nat /\ n = y + 1 /\ 2 \in 1 .. n
      BY <1>1, <1>2, <2>3
    <3>2. \A j \in 1 .. 2 - 1 : word[j] = part[j]
      BY <1>1, <1>2, <1>3, <2>3, <3>1
    <3>3. ASSUME NEW j \in 2 + 1 .. n PROVE word[j] = part[j - 1]
      <4>1. j \in 1 .. n /\ j - 1 \in 1 .. y /\ s + (j - 1) - 1 = o + j - 1
            /\ o + j - 1 # k
        BY <1>1, <2>3, <3>1
      <4> QED
        BY <1>2, <1>3, <4>1
    <3> QED
      BY <3>1, <3>2, <3>3 DEF OneApart, Longer
  <2>4. CASE k = o + Span /\ s = o /\ e = k
    <3>1. y \in Nat /\ n = y + 1 /\ n - 1 \in 1 .. n
      BY <1>1, <1>2, <2>4
    <3>2. ASSUME NEW j \in 1 .. (n - 1) - 1 PROVE word[j] = part[j]
      <4>1. j \in 1 .. n /\ j \in 1 .. y /\ s + j - 1 = o + j - 1 /\ o + j - 1 # k
        BY <1>1, <2>4, <3>1
      <4> QED
        BY <1>2, <1>3, <4>1
    <3>3. ASSUME NEW j \in (n - 1) + 1 .. n PROVE word[j] = part[j - 1]
      <4>1. j = n /\ j - 1 \in 1 .. y /\ j \in 1 .. n
            /\ s + (j - 1) - 1 = e /\ o + j - 1 = o + Span + 1
        BY <1>1, <2>4, <3>1
      <4> QED
        BY <1>2, <1>3, <4>1
    <3> QED
      BY <3>1, <3>2, <3>3 DEF OneApart, Longer
  <2>5. CASE k = o + Span + 1 /\ s = o /\ e = o + Span + 2
    <3>1. y \in Nat /\ y = n + 1 /\ n \in 1 .. y
      BY <1>1, <1>2, <2>5
    <3>2. ASSUME NEW j \in 1 .. n - 1 PROVE part[j] = word[j]
      <4>1. j \in 1 .. n /\ j \in 1 .. y /\ s + j - 1 = o + j - 1 /\ o + j - 1 # k
        BY <1>1, <2>5, <3>1
      <4> QED
        BY <1>2, <1>3, <4>1
    <3>3. ASSUME NEW j \in n + 1 .. y PROVE part[j] = word[j - 1]
      <4>1. j \in 1 .. y /\ j - 1 \in 1 .. n
            /\ s + j - 1 = e /\ o + (j - 1) - 1 = o + Span + 1
        BY <1>1, <2>5, <3>1
      <4> QED
        BY <1>2, <1>3, <4>1
    <3> QED
      BY <3>1, <3>2, <3>3 DEF OneApart, Longer
  <2> QED
    BY <2>1, <2>2, <2>3, <2>4, <2>5 DEF Slipped
<1> QED
  BY <1>2, <1>4, <1>5 DEF part, word, y

-----------------------------------------------------------------------------
(* What the filter hands over.                                              *)

\* A bounded set of natural numbers has a last.
LEMMA LastIsGreatest ==
    ASSUME NEW n \in Nat, NEW S, S \subseteq 0 .. n, S # {}
    PROVE  Last(S) \in S /\ \A j \in S : Last(S) >= j
<1> DEFINE T == {i \in 0 .. n : n - i \in S}
<1>1. T \subseteq Nat /\ T # {}
  <2>1. PICK s \in S : TRUE
    OBVIOUS
  <2>2. n - s \in T
    BY <2>1
  <2> QED
    BY <2>2
<1>2. First(T) \in T /\ \A j \in T : First(T) <= j
  <2> HIDE DEF T
  <2> QED
    BY <1>1, FirstIsLeast
<1>3. n - First(T) \in S /\ First(T) \in Nat
  BY <1>2
<1>4. ASSUME NEW j \in S PROVE n - First(T) >= j
  <2>1. n - j \in T
    OBVIOUS
  <2> QED
    BY <1>2, <1>3, <2>1
<1> QED
  BY <1>3, <1>4 DEF Last

\* What is accepted has a match that is long enough, and the match is the part
\* from its 1 to its last; the ambles are zeros where they must be.
LEMMA FilterFinds ==
    ASSUME opts \in Options, NEW str \in Seq(Bit), Accepted(str)
    PROVE  \E s, e \in 1 .. Len(str) :
               /\ s < e /\ Filter!Matched(str) = SubSeq(str, s, e)
               /\ str[s] = 1 /\ str[e] = 1
               /\ e - s + 1 >= expected_len(opts) - 1
               /\ opts.preamble_mpdus >= 2 => str[s + 1] = 0 /\ str[e - 1] = 0
               /\ opts.preamble_mpdus >= 3 => str[s + 2] = 0 /\ str[e - 2] = 0
<1> DEFINE p == opts.preamble_mpdus
           b == opts.bits_per_packet
           m == opts.mpdus_per_bit
<1>1. /\ p \in Nat \ {0} /\ b \in Nat \ {0} /\ m \in Nat \ {0} /\ b * m \in Nat \ {0}
      /\ expected_len(opts) = 2 + 2 * p + b * m
  <2>1. p \in Nat \ {0} /\ b \in Nat \ {0} /\ m \in Nat \ {0}
    <3>1. opts.preamble_mpdus \in Nat \ {0}
      BY OptionsFacts
    <3>2. opts.mpdus_per_bit \in Nat \ {0}
      BY OptionsFacts
    <3>3. opts.bits_per_packet \in 1 .. 30
      BY OptionsFacts
    <3>4. p \in Nat \ {0}
      BY <3>1
    <3>5. m \in Nat \ {0}
      BY <3>2
    <3>6. b \in 1 .. 30
      BY <3>3
    <3>7. b \in Nat \ {0}
      <4> HIDE DEF b
      <4> QED
        BY <3>6
    <3> HIDE DEF p, b, m
    <3> QED
      BY <3>4, <3>5, <3>7
  <2>2. b * m \in Nat \ {0}
    BY <2>1
  <2> QED
    BY <2>1, <2>2 DEF expected_len, total_len
<1> DEFINE F == Filter!Found(str)
           Starts == {x[1] : x \in F}
           s == First(Starts)
           Ends == {x[2] : x \in {y \in F : y[1] = s}}
           e == Last(Ends)
           part == SubSeq(str, s + 1, e + 1)
<1>2. F # {} /\ Len(Filter!Matched(str)) >= expected_len(opts) - 1
  BY <1>1 DEF Accepted, Filter!Verdict, Filter!is_packet_len_valid, Filter!expected_len
<1>3. Filter!Matched(str) = part
  BY Zenon DEF Filter!Matched, Filter!Leftmost, Filter!First, Filter!Last, First, Last
<1>4. \A x \in F : /\ x[1] \in 0 .. Len(str) - 1 /\ x[2] \in 0 .. Len(str) - 1
                   /\ x[1] < x[2] /\ Filter!Matches(str, x[1], x[2])
  BY DEF Filter!Found
<1> HIDE DEF F
<1>5. s \in Starts
  <2>1. Starts \subseteq Nat /\ Starts # {}
    BY <1>2, <1>4
  <2> HIDE DEF Starts
  <2> QED
    BY <2>1, FirstIsLeast
<1> HIDE DEF s
<1>6. e \in Ends
  <2>1. Ends \subseteq 0 .. Len(str) - 1 /\ Ends # {} /\ Len(str) - 1 \in Nat
    BY <1>4, <1>5
  <2> HIDE DEF Ends
  <2> QED
    BY <2>1, LastIsGreatest
<1> HIDE DEF e
<1>7. /\ s \in 0 .. Len(str) - 1 /\ e \in 0 .. Len(str) - 1
      /\ s < e /\ Filter!Matches(str, s, e)
  BY <1>4, <1>6
<1>8. PICK pre \in p - 1 .. p + 1, post \in p - 1 .. p + 1 :
          /\ str[s + 1] = 1 /\ str[e + 1] = 1
          /\ e - s - 1 - pre - post >= b * m - 1
          /\ \A k \in s + 1 .. s + pre : str[k + 1] = 0
          /\ \A k \in e - post .. e - 1 : str[k + 1] = 0
  BY <1>7 DEF Filter!Matches, Filter!PacketMatches
<1>9. ASSUME p >= 2
      PROVE  str[(s + 1) + 1] = 0 /\ str[(e + 1) - 1] = 0
  <2>1. s + 1 \in s + 1 .. s + pre /\ e - 1 \in e - post .. e - 1
        /\ (e - 1) + 1 = (e + 1) - 1
    BY <1>1, <1>7, <1>8, <1>9
  <2> QED
    BY <1>8, <2>1
<1>10. ASSUME p >= 3
      PROVE  str[(s + 1) + 2] = 0 /\ str[(e + 1) - 2] = 0
  <2>1. s + 2 \in s + 1 .. s + pre /\ e - 2 \in e - post .. e - 1
        /\ (s + 2) + 1 = (s + 1) + 2 /\ (e - 2) + 1 = (e + 1) - 2
    BY <1>1, <1>7, <1>8, <1>10
  <2> QED
    BY <1>8, <2>1
<1>11. s + 1 \in 1 .. Len(str) /\ e + 1 \in 1 .. Len(str) /\ s + 1 < e + 1
  BY <1>7
<1>12. (e + 1) - (s + 1) + 1 >= expected_len(opts) - 1
  <2>1. Len(part) = (e + 1) - (s + 1) + 1
    BY <1>11
  <2> QED
    BY <1>2, <1>3, <2>1
<1> DEFINE from == s + 1
           to == e + 1
<1>13. /\ from \in 1 .. Len(str) /\ to \in 1 .. Len(str)
       /\ from < to /\ Filter!Matched(str) = SubSeq(str, from, to)
       /\ str[from] = 1 /\ str[to] = 1
       /\ to - from + 1 >= expected_len(opts) - 1
       /\ opts.preamble_mpdus >= 2 => str[from + 1] = 0 /\ str[to - 1] = 0
       /\ opts.preamble_mpdus >= 3 => str[from + 2] = 0 /\ str[to - 2] = 0
  BY <1>3, <1>8, <1>9, <1>10, <1>11, <1>12, Zenon
<1> HIDE DEF from, to, part
<1> QED
  BY <1>13
-----------------------------------------------------------------------------
(* What holds of the link whatever the waits.                               *)

TagType ==
    /\ pc \in {"loop", "messages", "bits", "reset"}
    /\ value \in Nat /\ bits_left \in 0 .. B /\ level \in Bit /\ left \in Nat

HeardType ==
    /\ sent \in Seq(Bit) /\ heard \in Seq(Bit)
    /\ Len(sent) = Len(heard) /\ Len(heard) <= AMPDU_LEN

\* Without errors what is heard is what was sent.
NoErrors == MaxErrors = 0 => sent = heard

Typed == DecInv /\ TagType /\ HeardType /\ NoErrors

LEMMA TagTypeKept ==
    ASSUME TagType, InRange, opts \in Options, TagStep
    PROVE  TagType'
<1>1. B \in 1 .. 30 /\ P \in Nat /\ M \in Nat /\ rest_time \in Nat /\ wait_time \in Nat
      /\ startnum \in Nat
  BY WordLevels, SettingsFacts
<1>2. CASE Loop
  BY <1>1, <1>2 DEF Loop, TagType
<1>3. CASE SendPreamble
  BY <1>1, <1>3 DEF SendPreamble, TagType, p_bit_duration, Bit
<1>4. CASE SendBit
  <2>1. bits_left - 1 \in 0 .. B - 1 /\ bits_left - 1 \in 0 .. B
    BY <1>1, <1>4 DEF SendBit, TagType
  <2>2. BIT(value, bits_left - 1) \in Bit
    BY <1>1, <2>1, LevelFacts DEF TagType
  <2>3. DurationOf(BIT(value, bits_left - 1)) = M
    BY DEF DurationOf, m_bit_duration, zero_bit_duration
  <2> QED
    BY <1>1, <1>4, <2>1, <2>2, <2>3, Zenon DEF SendBit, TagType
<1>5. CASE SendPostamble
  BY <1>1, <1>5 DEF SendPostamble, TagType, p_bit_duration, PostambleLevel, Bit
<1>6. CASE Reset
  BY <1>1, <1>6 DEF Reset, TagType, DelayAfter, Bit
<1>7. CASE NextValue
  BY <1>1, <1>7 DEF NextValue, TagType
<1>8. CASE EndOfBurst
  BY <1>1, <1>8 DEF EndOfBurst, TagType
<1> QED
  BY <1>2, <1>3, <1>4, <1>5, <1>6, <1>7, <1>8 DEF TagStep

\* What is accepted fits the decoder's arrays.
LEMMA MatchedIsPacket ==
    ASSUME opts \in Options, HeardType, Accepted(heard)
    PROVE  IsPacket(Filter!Matched(heard))
<1>1. heard \in Seq(Bit) /\ Len(heard) \in 0 .. MAX_BITS
  BY SettingsFacts DEF HeardType
<1>2. PICK s, e \in 1 .. Len(heard) :
          s < e /\ Filter!Matched(heard) = SubSeq(heard, s, e)
  BY <1>1, FilterFinds
<1>3. SubSeq(heard, s, e) \in Seq(Bit) /\ Len(SubSeq(heard, s, e)) = e - s + 1
  BY <1>1, <1>2
<1>4. e - s + 1 \in 1 .. MAX_BITS
  BY <1>1, <1>2, SettingsFacts
<1> QED
  BY <1>2, <1>3, <1>4, Zenon DEF IsPacket

\* One MPDU more of the A-MPDU, as the tag makes it and as it is heard.
Adds(b) == sent' = Append(sent, level) /\ heard' = Append(heard, b)

LEMMA HeardTypeKept ==
    ASSUME HeardType, TagType, Len(heard) < AMPDU_LEN, NEW b \in Bit, Adds(b)
    PROVE  HeardType'
<1>1. /\ sent \in Seq(Bit) /\ heard \in Seq(Bit) /\ level \in Bit
      /\ Len(sent) = Len(heard)
  BY DEF HeardType, TagType
<1>2. /\ Append(sent, level) \in Seq(Bit) /\ Len(Append(sent, level)) = Len(sent) + 1
      /\ Append(heard, b) \in Seq(Bit) /\ Len(Append(heard, b)) = Len(heard) + 1
  BY <1>1
<1>3. Len(heard) + 1 <= AMPDU_LEN
  BY <1>1, SettingsFacts
<1> QED
  BY <1>1, <1>2, <1>3 DEF HeardType, Adds

LEMMA MpduAdds ==
    ASSUME Typed, Mpdu
    PROVE  \/ heard = << >> /\ UNCHANGED <<sent, heard>>
           \/ \E b \in Bit : Adds(b) /\ (MaxErrors = 0 => b = level)
<1>1. level \in Bit
  BY DEF Typed, TagType
<1>2. CASE heard = << >> /\ UNCHANGED <<sent, heard>>
  BY <1>2
<1>3. ASSUME NEW b \in IF Errors < MaxErrors THEN Bit ELSE {level},
             sent' = Append(sent, level), heard' = Append(heard, b)
      PROVE  b \in Bit /\ Adds(b) /\ (MaxErrors = 0 => b = level)
  <2>1. b \in Bit /\ Adds(b)
    BY <1>1, <1>3 DEF Adds
  <2>2. ASSUME MaxErrors = 0 PROVE b = level
    <3>1. {k \in DOMAIN sent : sent[k] # heard[k]} = {}
      BY <2>2 DEF Typed, NoErrors
    <3>2. Errors = 0
      BY <3>1, FS_EmptySet DEF Errors
    <3> QED
      BY <2>2, <3>2
  <2> QED
    BY <2>1, <2>2
<1> QED
  BY <1>2, <1>3 DEF Mpdu

LEMMA TypedKept ==
    ASSUME Typed, [LinkNext]_link_vars
    PROVE  Typed'
<1>1. opts \in Options
  BY DEF Typed, DecInv
<1> USE DEF Typed
<1>2. CASE Mpdu
  <2>1. DecInv'
    BY <1>2, StutterKeeps DEF Mpdu
  <2>2. TagType'
    BY <1>2 DEF Mpdu, MpduPasses, TagType
  <2>3. HeardType' /\ NoErrors'
    <3>1. CASE heard = << >> /\ UNCHANGED <<sent, heard>>
      BY <3>1 DEF HeardType, NoErrors
    <3>2. ASSUME NEW b \in Bit, Adds(b), MaxErrors = 0 => b = level
          PROVE  HeardType' /\ NoErrors'
      <4>1. HeardType'
        BY <1>2, <3>2, HeardTypeKept DEF Mpdu
      <4>2. NoErrors'
        BY <3>2 DEF NoErrors, Adds
      <4> QED
        BY <4>1, <4>2
    <3> QED
      BY <1>2, <3>1, <3>2, MpduAdds
  <2> QED
    BY <2>1, <2>2, <2>3
<1>3. CASE Tagging
  <2>1. DecInv' /\ HeardType' /\ NoErrors'
    BY <1>3, StutterKeeps DEF Tagging, HeardType, NoErrors
  <2>2. TagType'
    BY <1>1, <1>3, TagTypeKept DEF Tagging
  <2> QED
    BY <2>1, <2>2
<1>4. CASE Detect
  <2>1. DecInv'
    BY <1>1, <1>4, MatchedIsPacket, CallKeeps DEF Detect
  <2> QED
    BY <1>4, <2>1 DEF Detect, tag_vars, TagType, HeardType, NoErrors
<1>5. CASE Discard
  <2>1. DecInv'
    BY <1>5, StutterKeeps DEF Discard
  <2> QED
    BY <1>5, <2>1, SettingsFacts DEF Discard, tag_vars, TagType, HeardType, NoErrors
<1>6. CASE Noise
  <2>1. PICK str \in Packets(opts) : Call(str)
    BY <1>6 DEF Noise
  <2>2. IsPacket(str)
    BY <1>1, <2>1, PacketsAssumption DEF IsPacket
  <2>3. DecInv'
    BY <2>1, <2>2, CallKeeps
  <2> QED
    BY <1>6, <2>3 DEF Noise, tag_vars, TagType, HeardType, NoErrors
<1>7. CASE Decoding
  <2>1. DecInv'
    BY <1>7, StepsKeep DEF Decoding, Steps
  <2> QED
    BY <1>7, <2>1 DEF Decoding, tag_vars, TagType, HeardType, NoErrors
<1>8. CASE Done
  <2>1. DecInv'
    BY <1>8, StepsKeep DEF Done, Steps
  <2> QED
    BY <1>8, <2>1, SettingsFacts DEF Done, tag_vars, TagType, HeardType, NoErrors
<1>9. CASE UNCHANGED link_vars
  <2>1. DecInv'
    BY <1>9, StutterKeeps DEF link_vars
  <2> QED
    BY <1>9, <2>1 DEF link_vars, tag_vars, TagType, HeardType, NoErrors
<1> QED
  BY <1>2, <1>3, <1>4, <1>5, <1>6, <1>7, <1>8, <1>9 DEF LinkNext

LEMMA TypedHolds == LinkSpec => []Typed
<1>1. LinkInit => Typed
  <2> SUFFICES ASSUME LinkInit PROVE Typed
    OBVIOUS
  <2>1. DecInv
    BY DEF LinkInit, Init, Idle, DecInv, RoomForTies
  <2>2. TagType
    BY SettingsFacts DEF LinkInit, TagInit, TagType
  <2>3. HeardType /\ NoErrors
    BY SettingsFacts DEF LinkInit, HeardType, NoErrors
  <2> QED
    BY <2>1, <2>2, <2>3 DEF Typed
<1> QED
  BY <1>1, TypedKept, PTL DEF LinkSpec

-----------------------------------------------------------------------------
(* What an A-MPDU has of the messages when the waits are long.              *)

Sending == pc \in {"bits", "reset"}

\* The MPDUs of the message that have passed.
Passed == (IF pc = "bits" THEN EndOf(bits_left) ELSE Span) - left

\* What is sent is a value of its range; a delay is that of its phase, and the
\* level that of its bit.
InPhase ==
    /\ Sending => value \in Values
    /\ pc = "bits" => /\ left <= (IF bits_left = B THEN P ELSE M)
                      /\ level = (IF bits_left = B THEN 0 ELSE BIT(value, bits_left))
    /\ pc = "reset" => left <= P /\ level = 0

AllLevel == \A k \in 1 .. Len(sent) : sent[k] = level

\* A message began after the position o of the A-MPDU and has ended, and the
\* wait that is left covers the rest of the A-MPDU.
EndedAt(o) ==
    /\ level = 1 /\ value \in Values
    /\ o \in 1 - Span .. Len(sent) - Span
    /\ \E base \in Bit : Follows(sent, value, o, base)
    /\ left + (Len(sent) - (o + Span)) >= AMPDU_LEN

\* The A-MPDU has seen no more than one message.
Seen ==
    IF Sending
    THEN \E base \in Bit : Follows(sent, value, Len(sent) - Passed, base)
    ELSE AllLevel \/ \E o \in Int : EndedAt(o)

\* The packet is a part of the bitmap that is as long as a code word and
\* begins and ends like one.
PartOf(s, e) ==
    /\ s < e /\ e - s >= Span
    /\ packet = SubSeq(heard, s, e)
    /\ heard[s] = 1 /\ heard[s + 1] = 0 /\ heard[e - 1] = 0 /\ heard[e] = 1
    /\ P >= 3 => heard[s + 2] = 0 /\ heard[e - 2] = 0

Handed == status # "idle" => \E s, e \in 1 .. Len(heard) : PartOf(s, e)

LinkInv == InRange => InPhase /\ Seen /\ Handed

\* What the proofs of the steps need.
Setting == LongWaits /\ Typed /\ opts \in Options /\ InRange

LEMMA SettingGives ==
    ASSUME Setting
    PROVE  /\ B \in 1 .. 30 /\ P \in Nat /\ P >= 2 /\ M \in Nat \ {0}
           /\ B * M \in Nat \ {0} /\ Span = P + B * M + P
           /\ EndOf(B) = P /\ EndOf(0) = P + B * M
           /\ \A b \in 0 .. B : EndOf(b) \in P .. P + B * M
           /\ \A b \in 0 .. B - 1 : EndOf(b) = EndOf(b + 1) + M
           /\ wait_time \in Nat /\ AMPDU_LEN <= wait_time /\ AMPDU_LEN \in Nat \ {0}
           /\ rest_time \in Nat
           /\ Len(sent) \in Nat /\ Len(sent) = Len(heard) /\ Len(sent) <= AMPDU_LEN
           /\ level \in Bit /\ left \in Nat /\ value \in Nat /\ bits_left \in 0 .. B
           /\ Values \subseteq Nat
<1>1. B \in 1 .. 30 /\ Values = 0 .. 2 ^ B - 1 /\ 2 ^ B \in Nat
  BY WordLevels DEF Setting
<1>2. P >= 2 /\ AMPDU_LEN <= wait_time /\ TagType /\ HeardType
  BY DEF Setting, LongWaits, Typed
<1>3. Values \subseteq Nat
  BY <1>1
<1>4. Len(sent) \in Nat /\ Len(sent) = Len(heard) /\ Len(sent) <= AMPDU_LEN
      /\ level \in Bit /\ left \in Nat /\ value \in Nat /\ bits_left \in 0 .. B
  BY <1>2 DEF TagType, HeardType
<1> QED
  BY <1>1, <1>2, <1>3, <1>4, SettingsFacts, EndOfFacts

\* A message has at least begun, and not more than ended, while it is sent.
LEMMA PassedFacts ==
    ASSUME Setting, Sending, InPhase
    PROVE  Passed \in 0 .. Span
<1>1. /\ P \in Nat /\ M \in Nat \ {0} /\ B * M \in Nat /\ Span = P + B * M + P
      /\ EndOf(B) = P /\ left \in Nat
      /\ bits_left \in 0 .. B
      /\ \A b \in 0 .. B - 1 : EndOf(b) = EndOf(b + 1) + M
      /\ \A b \in 0 .. B : EndOf(b) \in P .. P + B * M
      /\ B \in 1 .. 30
  BY SettingGives
<1> DEFINE L == B * M
<1>2. CASE pc = "bits"
  <2>1. CASE bits_left = B
    BY <1>1, <1>2, <2>1 DEF Passed, InPhase
  <2>2. CASE bits_left # B
    <3>1. /\ bits_left \in 0 .. B - 1 /\ bits_left + 1 \in 0 .. B
          /\ left <= M
      BY <1>1, <1>2, <2>2 DEF InPhase
    <3>2. EndOf(bits_left) = EndOf(bits_left + 1) + M
          /\ EndOf(bits_left + 1) \in P .. P + B * M
      BY <1>1, <3>1
    <3> DEFINE now == EndOf(bits_left)
               before == EndOf(bits_left + 1)
    <3>3. now \in P .. P + L /\ before \in P .. P + L /\ now = before + M
          /\ L \in Nat /\ Span = P + L + P
      BY <1>1, <3>2
    <3>4. Passed = now - left
      BY <1>2 DEF Passed
    <3> HIDE DEF now, before, L
    <3> QED
      BY <1>1, <3>1, <3>3, <3>4
  <2> QED
    BY <2>1, <2>2
<1>3. CASE pc = "reset"
  <2>1. Passed = Span - left /\ left <= P
    BY <1>3 DEF Passed, InPhase
  <2> HIDE DEF L
  <2> QED
    BY <1>1, <2>1
<1> QED
  BY <1>2, <1>3 DEF Sending

\* The level of the next MPDU is the one the message has there.
LEMMA NextLevel ==
    ASSUME Setting, Sending, InPhase, left > 0
    PROVE  level = LevelAt(value, Passed + 1)
<1>1. /\ P \in Nat /\ M \in Nat \ {0}
      /\ EndOf(B) = P /\ left \in Nat /\ bits_left \in 0 .. B /\ B \in 1 .. 30
      /\ \A b \in 0 .. B - 1 : EndOf(b) = EndOf(b + 1) + M
      /\ \A b \in 0 .. B : EndOf(b) \in P .. P + B * M
      /\ value \in Nat /\ Span = P + B * M + P /\ EndOf(0) = P + B * M /\ B * M \in Nat
  BY SettingGives
<1>2. CASE pc = "bits" /\ bits_left = B
  <2>1. Passed + 1 \in 1 .. P /\ level = 0
    BY <1>1, <1>2 DEF Passed, InPhase
  <2> QED
    BY <1>1, <2>1, LevelFacts
<1>3. CASE pc = "bits" /\ bits_left # B
  <2>1. /\ bits_left \in 0 .. B - 1 /\ bits_left + 1 \in 0 .. B
        /\ left <= M /\ level = BIT(value, bits_left)
    BY <1>1, <1>3 DEF InPhase
  <2> DEFINE now == EndOf(bits_left)
             before == EndOf(bits_left + 1)
  <2>2. now = before + M /\ before \in Int /\ Passed = now - left
    BY <1>1, <1>3, <2>1 DEF Passed
  <2> HIDE DEF now, before
  <2>3. Passed + 1 \in before + 1 .. now
    BY <1>1, <2>1, <2>2
  <2>4. Passed + 1 \in EndOf(bits_left + 1) + 1 .. EndOf(bits_left)
    BY <2>3 DEF now, before
  <2>5. LevelAt(value, Passed + 1) = BIT(value, bits_left)
    BY <1>1, <2>1, <2>4, LevelFacts
  <2> QED
    BY <2>1, <2>5
<1>4. CASE pc = "reset"
  <2> DEFINE L == B * M
  <2>1. Passed = Span - left /\ left <= P /\ level = 0 /\ L \in Nat /\ EndOf(0) = P + L
        /\ Span = P + L + P
    BY <1>1, <1>4 DEF Passed, InPhase
  <2> HIDE DEF L
  <2>2. Passed + 1 \in EndOf(0) + 1 .. Span
    BY <1>1, <2>1
  <2>3. LevelAt(value, Passed + 1) = 0
    BY <1>1, <2>2, LevelFacts
  <2> QED
    BY <2>1, <2>3
<1> QED
  BY <1>2, <1>3, <1>4 DEF Sending

\* One level more that the message goes on with, or that was before it.
LEMMA FollowsOn ==
    ASSUME NEW str \in Seq(Bit), NEW v, NEW o \in Int, NEW base, NEW c \in Bit,
           Follows(str, v, o, base), Len(str) >= o,
           c = LevelAt(v, Len(str) + 1 - o)
    PROVE  Follows(Append(str, c), v, o, base)
<1> DEFINE n == Len(str)
           new == Append(str, c)
<1>1. n \in Nat /\ Len(new) = n + 1 /\ new[n + 1] = c
      /\ \A k \in 1 .. n : new[k] = str[k]
  OBVIOUS
<1>2. \A k \in 1 .. n : str[k] = IF k <= o THEN base ELSE LevelAt(v, k - o)
  BY DEF Follows
<1>3. ~ (n + 1 <= o) /\ c = LevelAt(v, n + 1 - o)
  BY <1>1
<1> HIDE DEF new, n
<1>4. ASSUME NEW k \in 1 .. n + 1
      PROVE  new[k] = IF k <= o THEN base ELSE LevelAt(v, k - o)
  <2>1. CASE k = n + 1
    <3>1. new[k] = LevelAt(v, k - o) /\ ~ (k <= o)
      BY <1>1, <1>3, <2>1
    <3> QED
      BY <3>1
  <2>2. CASE k \in 1 .. n
    BY <1>1, <1>2, <2>2, Zenon
  <2> QED
    BY <1>1, <2>1, <2>2
<1> QED
  BY <1>1, <1>4 DEF Follows, new

\* One MPDU more.
LEMMA MpduSees ==
    ASSUME Setting, InPhase, Seen, Mpdu
    PROVE  InPhase' /\ Seen'
<1>1. /\ left > 0 /\ left' = left - 1
      /\ UNCHANGED <<pc, value, bits_left, level, opts>>
  BY DEF Mpdu, MpduPasses, vars
<1>2. /\ P \in Nat /\ M \in Nat \ {0} /\ left \in Nat /\ Span \in Nat
      /\ Len(sent) \in Nat /\ Len(sent) = Len(heard) /\ level \in Bit
      /\ sent \in Seq(Bit) /\ value \in Nat /\ B \in 1 .. 30
      /\ AMPDU_LEN \in Nat
  BY SettingGives, SettingsFacts DEF Setting, Typed, HeardType
<1>3. Values' = Values /\ Sending' = Sending
  BY <1>1 DEF Values, Sending
<1>4. InPhase'
  <2>1. Sending' => value' \in Values'
    BY <1>1, <1>3 DEF InPhase
  <2>2. left' <= left
    BY <1>1, <1>2
  <2>3. \A x \in Nat : left <= x => left' <= x
    BY <1>1, <1>2
  <2>4. B \in Nat
    BY <1>2
  <2>5. pc' = "bits" => /\ left' <= (IF bits_left' = B THEN P ELSE M)
                        /\ level' = (IF bits_left' = B THEN 0
                                     ELSE BIT(value', bits_left'))
    BY <1>1, <1>2, <2>3 DEF InPhase
  <2>6. pc' = "reset" => left' <= P /\ level' = 0
    BY <1>1, <1>2, <2>3 DEF InPhase
  <2> QED
    BY <2>1, <2>5, <2>6 DEF InPhase
<1>5. (sent' = sent /\ sent = << >>) \/ sent' = Append(sent, level)
  <2>1. CASE heard = << >> /\ UNCHANGED <<sent, heard>>
    BY <1>2, <2>1
  <2> QED
    BY <2>1, MpduAdds DEF Setting, Adds
<1>6. CASE Sending
  <2>1. PICK base \in Bit : Follows(sent, value, Len(sent) - Passed, base)
    BY <1>6 DEF Seen
  <2> DEFINE o == Len(sent) - Passed
  <2>2. Passed \in 0 .. Span
    BY <1>6, PassedFacts
  <2>3. Passed' = Passed + 1
    <3>1. \A end \in Int : end - left' = (end - left) + 1
      BY <1>1, <1>2
    <3>2. EndOf(bits_left) \in Int /\ Span \in Int
      <4>1. bits_left \in 0 .. B /\ \A b \in 0 .. B : EndOf(b) \in P .. P + B * M
        BY SettingGives
      <4>2. EndOf(bits_left) \in P .. P + B * M
        BY <4>1
      <4> QED
        BY <1>2, <4>2
    <3>3. EndOf(bits_left)' = EndOf(bits_left) /\ Span' = Span
      BY <1>1 DEF EndOf, Span
    <3> QED
      BY <1>1, <3>1, <3>2, <3>3 DEF Passed
  <2>4. Follows(sent', value, Len(sent') - Passed', base)
    <3>1. CASE sent' = sent /\ sent = << >>
      BY <3>1 DEF Follows
    <3>2. CASE sent' = Append(sent, level)
      <4>1. level = LevelAt(value, Passed + 1)
        BY <1>1, <1>6, NextLevel
      <4>2. o \in Int /\ Len(sent) >= o /\ Len(sent) + 1 - o = Passed + 1
        BY <1>2, <2>2
      <4>3. Len(sent') - Passed' = o
        <5>1. Len(Append(sent, level)) = Len(sent) + 1
          BY <1>2
        <5> QED
          BY <1>2, <2>2, <2>3, <3>2, <5>1
      <4>4. Follows(sent, value, o, base)
        BY <2>1
      <4> HIDE DEF o
      <4>5. Follows(Append(sent, level), value, o, base)
        BY <1>2, <4>1, <4>2, <4>4, FollowsOn
      <4> QED
        BY <3>2, <4>3, <4>5
    <3> QED
      BY <1>5, <3>1, <3>2
  <2>5. Sending' /\ value' = value
    BY <1>1, <1>3, <1>6
  <2>6. Follows(sent', value', Len(sent') - Passed', base)
    BY <2>4, <2>5
  <2>7. Seen'
    BY <2>5, <2>6 DEF Seen
  <2> QED
    BY <1>4, <2>7
<1>7. CASE ~Sending /\ AllLevel
  <2>1. AllLevel'
    <3>1. CASE sent' = sent
      BY <1>1, <1>7, <3>1 DEF AllLevel
    <3>2. CASE sent' = Append(sent, level)
      <4>1. \A k \in 1 .. Len(sent) + 1 : Append(sent, level)[k] = level
        BY <1>2, <1>7 DEF AllLevel
      <4>2. Len(Append(sent, level)) = Len(sent) + 1 /\ level' = level
        BY <1>1, <1>2
      <4> QED
        BY <3>2, <4>1, <4>2 DEF AllLevel
    <3> QED
      BY <1>5, <3>1, <3>2
  <2> QED
    BY <1>3, <1>4, <1>7, <2>1 DEF Seen
<1>8. ASSUME ~Sending, NEW o \in Int, EndedAt(o)
      PROVE  Seen'
  <2>1. PICK base \in Bit : Follows(sent, value, o, base)
    BY <1>8 DEF EndedAt
  <2>2. /\ level = 1 /\ value \in Values /\ o \in 1 - Span .. Len(sent) - Span
        /\ left + (Len(sent) - (o + Span)) >= AMPDU_LEN
    BY <1>8 DEF EndedAt
  <2>3. sent # << >>
    <3>1. ASSUME Len(sent) = 0 PROVE FALSE
      BY <1>2, <2>2, <3>1
    <3> QED
      BY <3>1
  <2>4. sent' = Append(sent, level) /\ Len(sent') = Len(sent) + 1
    <3>1. Len(Append(sent, level)) = Len(sent) + 1
      BY <1>2
    <3> QED
      BY <1>5, <2>3, <3>1
  <2>5. level = LevelAt(value, Len(sent) + 1 - o)
    <3>1. Len(sent) + 1 - o > Span /\ Len(sent) + 1 - o \in Int
      BY <1>2, <2>2
    <3> DEFINE j == Len(sent) + 1 - o
    <3> HIDE DEF j
    <3>2. j > Span /\ j \in Int
      BY <3>1 DEF j
    <3>3. LevelAt(value, j) = 1
      BY <1>2, <3>2, LevelFacts
    <3> QED
      BY <2>2, <3>3 DEF j
  <2>6. Follows(sent', value, o, base)
    <3>1. Len(sent) >= o
      BY <1>2, <2>2
    <3> QED
      BY <1>2, <2>1, <2>4, <2>5, <3>1, FollowsOn
  <2>7. /\ o \in 1 - Span .. Len(sent') - Span
        /\ left' + (Len(sent') - (o + Span)) >= AMPDU_LEN
    BY <1>1, <1>2, <2>2, <2>4
  <2>8. Span' = Span /\ AMPDU_LEN' = AMPDU_LEN
    BY DEF Span
  <2>9. EndedAt(o)'
    BY <1>1, <1>3, <2>2, <2>6, <2>7, <2>8 DEF EndedAt
  <2> QED
    BY <1>3, <1>8, <2>9 DEF Seen
<1> QED
  BY <1>4, <1>6, <1>7, <1>8 DEF Seen

\* A delay that has run out leaves no message that has ended: the A-MPDU is
\* not longer than the wait.
LEMMA NoneEnded ==
    ASSUME Setting, left = 0, NEW o \in Int, EndedAt(o)
    PROVE  FALSE
<1>1. /\ o \in 1 - Span .. Len(sent) - Span
      /\ left + (Len(sent) - (o + Span)) >= AMPDU_LEN
  BY DEF EndedAt
<1>2. Span \in Nat /\ Len(sent) \in Nat /\ Len(sent) <= AMPDU_LEN /\ AMPDU_LEN \in Nat
  BY SettingGives, SettingsFacts
<1> QED
  BY <1>1, <1>2

LEMMA TaggingSees ==
    ASSUME Setting, InPhase, Seen, Tagging
    PROVE  InPhase' /\ Seen'
<1>1. left = 0 /\ UNCHANGED <<sent, opts>>
  BY DEF Tagging, TagStep, vars
<1>2. /\ P \in Nat /\ M \in Nat \ {0} /\ Span \in Nat /\ B \in 1 .. 30
      /\ B * M \in Nat \ {0} /\ Span = P + B * M + P
      /\ EndOf(B) = P /\ EndOf(0) = P + B * M
      /\ \A b \in 0 .. B - 1 : EndOf(b) = EndOf(b + 1) + M
      /\ \A b \in 0 .. B : EndOf(b) \in P .. P + B * M
      /\ Len(sent) \in Nat /\ Len(sent) <= AMPDU_LEN /\ level \in Bit
      /\ wait_time \in Nat /\ AMPDU_LEN <= wait_time /\ AMPDU_LEN \in Nat \ {0}
      /\ value \in Nat /\ bits_left \in 0 .. B
  BY SettingGives, SettingsFacts
<1>3. Values' = Values /\ Len(sent') = Len(sent)
  BY <1>1 DEF Values
<1>4. ~Sending => AllLevel
  BY <1>1, NoneEnded DEF Seen
<1>5. ASSUME ~Sending, ~Sending', level' = level
      PROVE  InPhase' /\ Seen'
  <2>1. AllLevel'
    BY <1>1, <1>4, <1>5 DEF AllLevel
  <2>2. InPhase'
    BY <1>5 DEF InPhase, Sending
  <2> QED
    BY <1>5, <2>1, <2>2 DEF Seen
\* The message goes on where the last delay has brought it.
<1>6. ASSUME Sending, Sending', value' = value, Passed' = Passed
      PROVE  Seen'
  <2>1. PICK base \in Bit : Follows(sent, value, Len(sent) - Passed, base)
    BY <1>6 DEF Seen
  <2>2. Follows(sent', value', Len(sent') - Passed', base)
    BY <1>1, <1>3, <1>6, <2>1
  <2> QED
    BY <1>6, <2>2 DEF Seen
<1>7. CASE Loop
  <2>1. ~Sending /\ ~Sending' /\ level' = level
    BY <1>7 DEF Loop, Sending
  <2> QED
    BY <1>5, <2>1
<1>8. CASE NextValue
  <2>1. ~Sending /\ ~Sending' /\ level' = level
    BY <1>8 DEF NextValue, Sending
  <2> QED
    BY <1>5, <2>1
<1>9. CASE EndOfBurst
  <2>1. ~Sending /\ ~Sending' /\ level' = level
    BY <1>9 DEF EndOfBurst, Sending
  <2> QED
    BY <1>5, <2>1
<1>10. CASE SendPreamble
  <2>1. /\ ~Sending /\ Sending' /\ pc' = "bits" /\ bits_left' = B /\ level' = 0
        /\ left' = P /\ value' = value /\ value <= lastnum
    BY <1>10 DEF SendPreamble, Sending, p_bit_duration
  <2>2. value \in Values
    <3>1. startnum \in Nat /\ sizeofarray \in Nat /\ startnum + sizeofarray <= 2 ^ B
          /\ Values = 0 .. 2 ^ B - 1 /\ 2 ^ B \in Nat
      BY SettingsFacts, WordLevels DEF Setting, LongWaits
    <3> DEFINE power == 2 ^ B
    <3> HIDE DEF power
    <3>2. value \in 0 .. power - 1
      BY <1>2, <2>1, <3>1 DEF lastnum, power
    <3> QED
      BY <3>1, <3>2 DEF power
  <2>3. InPhase'
    <3>1. left' <= P
      BY <1>2, <2>1
    <3> QED
      BY <1>3, <2>1, <2>2, <3>1 DEF InPhase
  <2>4. Passed' = 0
    <3>1. Passed' = P - P
      BY <1>2, <2>1 DEF Passed, EndOf
    <3> QED
      BY <1>2, <3>1
  <2>5. Follows(sent', value', Len(sent') - Passed', level)
    <3>1. Len(sent') - Passed' = Len(sent)
      BY <1>2, <1>3, <2>4
    <3>2. \A k \in 1 .. Len(sent) : k <= Len(sent) /\ sent[k] = level
      BY <1>2, <1>4, <2>1 DEF AllLevel
    <3>3. Follows(sent, value', Len(sent), level)
      BY <3>2 DEF Follows
    <3> QED
      BY <1>1, <3>1, <3>3
  <2> QED
    BY <1>2, <2>1, <2>3, <2>5 DEF Seen
<1>11. CASE SendBit
  <2>1. /\ pc = "bits" /\ pc' = "bits" /\ bits_left > 0 /\ bits_left' = bits_left - 1
        /\ level' = BIT(value, bits_left - 1) /\ left' = M /\ value' = value
    BY <1>11 DEF SendBit, DurationOf, m_bit_duration, zero_bit_duration
  <2>2. Sending /\ Sending'
    BY <2>1 DEF Sending
  <2>3. bits_left' \in 0 .. B - 1 /\ bits_left' + 1 = bits_left /\ bits_left' # B
    BY <1>2, <2>1
  <2>4. InPhase'
    <3>1. left' <= M
      BY <1>2, <2>1
    <3> QED
      BY <1>3, <2>1, <2>2, <2>3, <3>1 DEF InPhase
  <2>5. Passed' = Passed
    <3>1. EndOf(bits_left') = EndOf(bits_left) + M
      BY <1>2, <2>3
    <3>2. EndOf(bits_left) \in Int
      <4>1. EndOf(bits_left) \in P .. P + B * M
        BY <1>2
      <4> QED
        BY <4>1
    <3>3. EndOf(bits_left)' = EndOf(bits_left')
      BY DEF EndOf
    <3>4. Passed' = EndOf(bits_left') - M
      BY <2>1, <3>3 DEF Passed
    <3>5. Passed = EndOf(bits_left) - 0
      BY <1>1, <2>1 DEF Passed
    <3> QED
      BY <1>2, <3>1, <3>2, <3>4, <3>5
  <2> QED
    BY <1>6, <2>1, <2>2, <2>4, <2>5
<1>12. CASE SendPostamble
  <2>1. /\ pc = "bits" /\ pc' = "reset" /\ bits_left = 0 /\ level' = 0 /\ left' = P
        /\ value' = value
    BY <1>12 DEF SendPostamble, p_bit_duration, PostambleLevel
  <2>2. Sending /\ Sending'
    BY <2>1 DEF Sending
  <2>3. InPhase'
    <3>1. left' <= P
      BY <1>2, <2>1
    <3> QED
      BY <1>3, <2>1, <2>2, <3>1 DEF InPhase
  <2>4. Passed' = Passed
    <3> DEFINE L == B * M
    <3>1. Passed' = Span - P /\ Passed = EndOf(0) - 0
      BY <1>1, <2>1 DEF Passed, Span
    <3>2. L \in Nat /\ Span = P + L + P /\ EndOf(0) = P + L
      BY <1>2
    <3> HIDE DEF L
    <3> QED
      BY <1>2, <3>1, <3>2
  <2> QED
    BY <1>6, <2>1, <2>2, <2>3, <2>4
<1>13. CASE Reset
  <2>1. /\ pc = "reset" /\ pc' = "messages" /\ level' = 1 /\ left' = wait_time
        /\ value' = value
    BY <1>13 DEF Reset, DelayAfter
  <2>2. Sending /\ ~Sending' /\ Passed = Span
    <3>1. Passed = Span - 0
      BY <1>1, <2>1 DEF Passed
    <3> QED
      BY <1>2, <2>1, <3>1 DEF Sending
  <2>3. InPhase'
    BY <2>1, <2>2 DEF InPhase
  <2>4. CASE Len(sent) = 0
    <3>1. AllLevel'
      BY <1>3, <2>4 DEF AllLevel
    <3> QED
      BY <2>2, <2>3, <3>1 DEF Seen
  <2>5. CASE Len(sent) # 0
    <3>0. PICK o \in Int : o = Len(sent) - Span
      <4>1. Len(sent) - Span \in Int
        BY <1>2
      <4> QED
        BY <4>1, Zenon
    <3>1. PICK base \in Bit : Follows(sent, value, o, base)
      BY <2>2, <3>0 DEF Seen
    <3>2. /\ o \in 1 - Span .. Len(sent) - Span /\ o \in Int
          /\ wait_time + (Len(sent) - (o + Span)) >= AMPDU_LEN
      BY <1>2, <2>5, <3>0
    <3>3. value \in Values
      BY <2>2 DEF InPhase
    <3>4. Span' = Span
      BY DEF Span
    <3>5. Follows(sent', value', o, base)
      BY <1>1, <2>1, <3>1
    <3>6. EndedAt(o)'
      BY <1>1, <1>3, <2>1, <3>2, <3>3, <3>4, <3>5 DEF EndedAt
    <3> QED
      BY <2>2, <2>3, <3>2, <3>6 DEF Seen
  <2> QED
    BY <2>4, <2>5
<1> QED
  BY <1>7, <1>8, <1>9, <1>10, <1>11, <1>12, <1>13 DEF Tagging, TagStep

\* detect_with_lev is called with what the filter has found.
LEMMA DetectHands ==
    ASSUME Setting, Detect
    PROVE  Handed'
<1>1. /\ packet' = Filter!Matched(heard) /\ Accepted(heard)
      /\ UNCHANGED <<opts, sent, heard>>
  BY DEF Detect, Call
<1>2. heard \in Seq(Bit) /\ opts \in Options /\ InRange /\ P >= 2
      /\ opts.preamble_mpdus = P
  BY DEF Setting, LongWaits, Typed, HeardType, InRange
<1>3. PICK s, e \in 1 .. Len(heard) :
          /\ s < e /\ Filter!Matched(heard) = SubSeq(heard, s, e)
          /\ heard[s] = 1 /\ heard[e] = 1
          /\ e - s + 1 >= expected_len(opts) - 1
          /\ heard[s + 1] = 0 /\ heard[e - 1] = 0
          /\ P >= 3 => heard[s + 2] = 0 /\ heard[e - 2] = 0
  BY <1>1, <1>2, FilterFinds
<1>4. e - s >= Span
  <2>1. expected_len(opts) = Span + 2 /\ Span \in Nat /\ Len(heard) \in Nat
    BY <1>2, WordLevels, SettingsFacts
  <2> QED
    BY <1>3, <2>1
<1>5. heard' = heard /\ packet' = SubSeq(heard, s, e) /\ Span' = Span
  BY <1>1, <1>3 DEF Span
<1>6. PartOf(s, e)'
  BY <1>3, <1>4, <1>5 DEF PartOf
<1> QED
  BY <1>5, <1>6 DEF Handed

\* An A-MPDU of two levels has seen the message.
LEMMA SeenMessage ==
    ASSUME Setting, InPhase, Seen,
           NEW i \in 1 .. Len(sent), NEW j \in 1 .. Len(sent), sent[i] # sent[j]
    PROVE  /\ value \in Values
           /\ \E o \in Int : \E base \in Bit : Follows(sent, value, o, base)
<1>1. CASE Sending
  <2>1. PICK base \in Bit : Follows(sent, value, Len(sent) - Passed, base)
    BY <1>1 DEF Seen
  <2>2. value \in Values /\ Len(sent) - Passed \in Int
    BY <1>1, PassedFacts, SettingGives DEF InPhase
  <2> QED
    BY <2>1, <2>2
<1>2. CASE ~Sending
  <2>1. ~ AllLevel
    BY DEF AllLevel
  <2>2. PICK o \in Int : EndedAt(o)
    BY <1>2, <2>1 DEF Seen
  <2> QED
    BY <2>2 DEF EndedAt
<1> QED
  BY <1>1, <1>2

\* A message that the A-MPDU covers is the one it has seen, at its place.
LEMMA CoveredIsSeen ==
    ASSUME Setting, InPhase, Seen, NEW v \in Values, Covered(v)
    PROVE  /\ value = v
           /\ \E o \in Int : \E base \in Bit :
                 /\ Follows(sent, value, o, base)
                 /\ DataOf(value) = o + P + 1 .. o + P + B * M
                 /\ o \in 1 .. Len(sent) /\ o + Span + 1 \in 1 .. Len(sent)
                 /\ sent[o] = 1 /\ sent[o + Span + 1] = 1
                 /\ SubSeq(sent, o, o + Span + 1) = lev_word(opts, value)
<1> DEFINE word == lev_word(opts, v)
           Found == Occurrences(sent, word)
<1>1. /\ sent \in Seq(Bit) /\ opts \in Options /\ InRange
      /\ Span \in Nat /\ P \in Nat \ {0} /\ Len(sent) \in Nat
  BY SettingsFacts DEF Setting, Typed, HeardType
<1>2. /\ word \in Seq(Bit) /\ Len(word) = Span + 2
      /\ word[1] = 1 /\ word[Span + 2] = 1 /\ word[2] = 0 /\ word[Span + 1] = 0
  <2>1. /\ word \in Seq(Bit) /\ Len(word) = Span + 2
        /\ word[1] = 1 /\ word[Span + 2] = 1
        /\ \A j \in 1 .. Span : word[j + 1] = LevelAt(v, j)
    BY <1>1, WordLevels
  <2>2. LevelAt(v, 1) = 0 /\ LevelAt(v, Span) = 0 /\ 1 \in 1 .. Span /\ Span \in 1 .. Span
    <3>1. Span = P + B * M + P /\ B * M \in Nat
      BY SettingsFacts, EndOfFacts
    <3> QED
      BY <1>1, <3>1 DEF LevelAt
  <2>3. word[1 + 1] = 0 /\ word[Span + 1] = 0
    BY <2>1, <2>2
  <2> QED
    BY <2>1, <2>3
<1> HIDE DEF word
<1>3. ASSUME NEW i \in Found
      PROVE  /\ i \in Nat /\ i + 1 \in 1 .. Len(sent) /\ i + 2 \in 1 .. Len(sent)
             /\ i + Span + 2 \in 1 .. Len(sent)
             /\ SubSeq(sent, i + 1, i + Span + 2) = word
             /\ sent[i + 1] = 1 /\ sent[i + 2] = 0
             /\ sent[i + Span + 1] = 0 /\ sent[i + Span + 2] = 1
  <2>1. i \in 0 .. Len(sent) - (Span + 2) /\ SubSeq(sent, i + 1, i + (Span + 2)) = word
    BY <1>2 DEF Occurrences
  <2>2. i + (Span + 2) = i + Span + 2 /\ i + Span + 2 \in 1 .. Len(sent)
    BY <1>1, <2>1
  <2>3. \A k \in 1 .. Span + 2 : word[k] = sent[i + k]
    BY <1>1, <2>1, <2>2
  <2>4. 1 \in 1 .. Span + 2 /\ 2 \in 1 .. Span + 2 /\ Span + 1 \in 1 .. Span + 2
        /\ Span + 2 \in 1 .. Span + 2
    BY <1>1
  <2>5. i + (Span + 1) = i + Span + 1
    BY <1>1, <2>1
  <2> QED
    BY <1>1, <1>2, <2>1, <2>2, <2>3, <2>4, <2>5
<1>4. PICK i \in Found : TRUE
  BY DEF Covered, word
<1>5. PICK o \in Int, base \in Bit : value \in Values /\ Follows(sent, value, o, base)
  <2>1. /\ i + 1 \in 1 .. Len(sent) /\ i + 2 \in 1 .. Len(sent)
        /\ sent[i + 1] # sent[i + 2]
    BY <1>3, <1>4
  <2> QED
    BY <2>1, SeenMessage
<1>6. ASSUME NEW k \in Found
      PROVE  /\ k + 1 = o /\ word = lev_word(opts, value)
             /\ o \in 1 .. Len(sent) /\ o + Span + 1 \in 1 .. Len(sent)
             /\ sent[o] = 1 /\ sent[o + Span + 1] = 1
             /\ SubSeq(sent, o, o + Span + 1) = lev_word(opts, value)
  <2> DEFINE s == k + 1
             e == k + Span + 2
  <2>1. /\ k \in Nat /\ s \in 1 .. Len(sent) /\ e \in 1 .. Len(sent)
        /\ SubSeq(sent, s, e) = word
        /\ sent[k + 1] = 1 /\ sent[k + 2] = 0
        /\ sent[k + Span + 1] = 0 /\ sent[k + Span + 2] = 1
    BY <1>3
  <2>2. s < e /\ e - s >= Span /\ s + 1 = k + 2 /\ e - 1 = k + Span + 1
    BY <1>1, <2>1
  <2>3. sent[s] = 1 /\ sent[s + 1] = 0 /\ sent[e - 1] = 0 /\ sent[e] = 1
    BY <2>1, <2>2
  <2> HIDE DEF s, e
  <2>4. /\ s = o /\ e = o + Span + 1
        /\ SubSeq(sent, s, e) = lev_word(opts, value)
    <3>1. ASSUME NEW x \in 1 .. Len(sent), NEW y \in 1 .. Len(sent),
                 x < y, y - x >= Span,
                 sent[x] = 1, sent[x + 1] = 0, sent[y - 1] = 0, sent[y] = 1
          PROVE  /\ x = o /\ y = o + Span + 1
                 /\ SubSeq(sent, x, y) = lev_word(opts, value)
      BY <1>1, <1>5, <3>1, OnlyMatch
    <3> QED
      BY <2>1, <2>2, <2>3, <3>1, Zenon
  <2>5. /\ o \in 1 .. Len(sent) /\ o + Span + 1 \in 1 .. Len(sent)
        /\ sent[o] = 1 /\ sent[o + Span + 1] = 1
    BY <2>1, <2>3, <2>4, Zenon
  <2>6. SubSeq(sent, o, o + Span + 1) = lev_word(opts, value)
    BY <2>4, Zenon
  <2> QED
    BY <2>1, <2>4, <2>5, <2>6 DEF s
<1>7. value = v
  BY <1>1, <1>4, <1>5, <1>6, WordLevels DEF word
<1>8. DataOf(value) = o + P + 1 .. o + P + B * M
  <2>1. Found # {} /\ \A k \in Found : k = o - 1
    BY <1>3, <1>4, <1>6, SMTT(30)
  <2>2. First(Found) = o - 1
    <3>1. First(Found) \in Found
      <4>1. Found \subseteq Nat
        BY <1>3
      <4> HIDE DEF Found
      <4> QED
        BY <2>1, <4>1, FirstIsLeast
    <3> QED
      BY <2>1, <3>1
  <2>3. DataOf(value) = First(Found) + P + 2 .. First(Found) + P + 1 + B * M
    BY <1>7 DEF DataOf, word
  <2>4. B * M \in Nat
    BY SettingsFacts
  <2> HIDE DEF Found
  <2> QED
    BY <1>1, <2>2, <2>3, <2>4
<1> QED
  BY <1>4, <1>5, <1>6, <1>7, <1>8

\* What is decoded without errors is the whole of a message.
Whole ==
    sent = heard /\ status # "idle" =>
        value \in Values /\ packet = lev_word(opts, value) /\ Covered(value)

LEMMA HandedIsWhole ==
    ASSUME Setting, InPhase, Seen, Handed
    PROVE  Whole
<1> SUFFICES ASSUME sent = heard, status # "idle"
             PROVE  /\ value \in Values /\ packet = lev_word(opts, value)
                    /\ Covered(value)
  BY DEF Whole
<1>1. /\ sent \in Seq(Bit) /\ opts \in Options /\ InRange
      /\ Span \in Nat /\ Len(sent) \in Nat
  BY SettingsFacts DEF Setting, Typed, HeardType
<1>2. PICK s, e \in 1 .. Len(sent) :
          /\ s < e /\ e - s >= Span /\ packet = SubSeq(sent, s, e)
          /\ sent[s] = 1 /\ sent[s + 1] = 0 /\ sent[e - 1] = 0 /\ sent[e] = 1
  BY DEF Handed, PartOf
<1>3. PICK o \in Int, base \in Bit : value \in Values /\ Follows(sent, value, o, base)
  <2>1. s + 1 \in 1 .. Len(sent) /\ sent[s] # sent[s + 1]
    BY <1>1, <1>2
  <2> QED
    BY <2>1, SeenMessage
<1>4. /\ s = o /\ e = o + Span + 1
      /\ SubSeq(sent, s, e) = lev_word(opts, value)
  BY <1>1, <1>2, <1>3, OnlyMatch
<1>5. Len(lev_word(opts, value)) = Span + 2
  BY <1>1, <1>3, WordLevels
<1> DEFINE i == s - 1
<1>6. i \in 0 .. Len(sent) - (Span + 2) /\ i + 1 = s /\ i + (Span + 2) = e
  BY <1>1, <1>2, <1>4
<1> HIDE DEF i
<1>7. i \in Occurrences(sent, lev_word(opts, value))
  BY <1>4, <1>5, <1>6 DEF Occurrences
<1> QED
  BY <1>2, <1>3, <1>4, <1>7 DEF Covered

LEMMA LinkInvKept ==
    ASSUME LongWaits, Typed, LinkInv, [LinkNext]_link_vars
    PROVE  LinkInv'
<1>1. opts' = opts
  BY DEF LinkNext, link_vars, vars, Mpdu, Tagging, Detect, Discard, Noise, Decoding,
         Done, Call, Compare, Decide, Return
<1>2. InRange' = InRange
  BY <1>1 DEF InRange
<1> SUFFICES ASSUME InRange
             PROVE  InPhase' /\ Seen' /\ Handed'
  BY <1>2 DEF LinkInv
<1>3. Setting /\ InPhase /\ Seen /\ Handed
  BY DEF Setting, Typed, DecInv, LinkInv
\* Where the tag stays, what is sent stays or is forgotten.
<1>4. ASSUME UNCHANGED tag_vars, sent' = sent \/ sent' = << >>
      PROVE  InPhase' /\ Seen'
  <2>1. InPhase'
    BY <1>1, <1>3, <1>4 DEF tag_vars, InPhase, Sending, Values
  <2>2. CASE sent' = sent
    <3>1. /\ Sending' = Sending /\ Passed' = Passed /\ AllLevel' = AllLevel
          /\ Span' = Span /\ value' = value
      BY <1>4, <2>2 DEF tag_vars, Sending, Passed, AllLevel, Span, EndOf
    <3>2. \A o : EndedAt(o)' <=> EndedAt(o)
      BY <1>1, <1>4, <2>2 DEF tag_vars, EndedAt, Span, Values
    <3>3. CASE Sending
      <4>1. PICK base \in Bit : Follows(sent, value, Len(sent) - Passed, base)
        BY <1>3, <3>3 DEF Seen
      <4>2. Follows(sent', value', Len(sent') - Passed', base)
        BY <2>2, <3>1, <4>1
      <4> QED
        BY <2>1, <3>1, <3>3, <4>2 DEF Seen
    <3>4. CASE ~Sending
      <4>1. AllLevel \/ \E o \in Int : EndedAt(o)
        BY <1>3, <3>4 DEF Seen
      <4> QED
        BY <2>1, <3>1, <3>2, <3>4, <4>1 DEF Seen
    <3> QED
      BY <3>3, <3>4
  <2>3. CASE sent' = << >>
    <3>1. Len(sent') = 0
      BY <2>3
    <3>2. AllLevel' /\ \A v, o, base : Follows(sent', v, o, base)
      BY <3>1 DEF AllLevel, Follows
    <3>3. 0 \in Bit
      BY DEF Bit
    <3> QED
      BY <2>1, <3>2, <3>3 DEF Seen
  <2> QED
    BY <1>4, <2>1, <2>2, <2>3
<1>5. status' = "idle" => Handed'
  BY DEF Handed
<1>6. CASE Mpdu
  <2>1. status' = "idle"
    BY <1>6 DEF Mpdu, vars
  <2> QED
    BY <1>3, <1>5, <1>6, <2>1, MpduSees
<1>7. CASE Tagging
  <2>1. status' = "idle"
    BY <1>7 DEF Tagging, vars
  <2> QED
    BY <1>3, <1>5, <1>7, <2>1, TaggingSees
<1>8. CASE Detect
  <2>1. InPhase' /\ Seen'
    BY <1>4, <1>8 DEF Detect
  <2> QED
    BY <1>3, <1>8, <2>1, DetectHands
<1>9. CASE Discard
  BY <1>4, <1>5, <1>9 DEF Discard, BlockAck, vars
<1>10. CASE Noise
  BY <1>10 DEF Noise
<1>11. CASE Decoding
  <2>1. InPhase' /\ Seen'
    BY <1>4, <1>11 DEF Decoding
  <2>2. UNCHANGED <<packet, opts, value, sent, heard>> /\ status # "idle"
    BY <1>11 DEF Decoding, Compare, Decide, tag_vars
  <2>3. Handed'
    BY <1>3, <2>2 DEF Handed, PartOf, Span
  <2> QED
    BY <2>1, <2>3
<1>12. CASE Done
  BY <1>4, <1>5, <1>12 DEF Done, Return
<1>13. CASE UNCHANGED link_vars
  <2>1. InPhase' /\ Seen'
    BY <1>4, <1>13 DEF link_vars
  <2>2. UNCHANGED <<packet, opts, value, sent, heard, status>>
    BY <1>13 DEF link_vars, vars, tag_vars
  <2>3. Handed'
    BY <1>3, <2>2 DEF Handed, PartOf, Span
  <2> QED
    BY <2>1, <2>3
<1> QED
  BY <1>6, <1>7, <1>8, <1>9, <1>10, <1>11, <1>12, <1>13 DEF LinkNext

LEMMA LinkInvHolds == LongWaits => (LinkSpec => []LinkInv)
<1> SUFFICES ASSUME LongWaits PROVE LinkSpec => []LinkInv
  OBVIOUS
<1>1. LinkInit => LinkInv
  <2> SUFFICES ASSUME LinkInit, InRange PROVE InPhase /\ Seen /\ Handed
    BY DEF LinkInv
  <2>1. pc = "loop" /\ sent = << >> /\ status = "idle"
    BY DEF LinkInit, TagInit, Init, Idle
  <2> QED
    BY <2>1 DEF InPhase, Seen, Sending, AllLevel, Handed
<1>2. Typed /\ LinkInv /\ [LinkNext]_link_vars => LinkInv'
  BY LinkInvKept
<1> QED
  BY <1>1, <1>2, TypedHolds, PTL DEF LinkSpec

\* A word is nearest to its own value only.
LEMMA WordIsNearest ==
    ASSUME opts \in Options, InRange, NEW v \in Values, packet = lev_word(opts, v)
    PROVE  \A w \in Nearest : w = v
<1>1. /\ \A w \in Values : lev_word(opts, w) \in Seq(Bit)
                          /\ Len(lev_word(opts, w)) = Span + 2
      /\ \A w \in Values : lev_word(opts, v) = lev_word(opts, w) => w = v
      /\ expected_len(opts) = Span + 2
  BY WordLevels
<1>2. ASSUME NEW w \in Values
      PROVE  Away(w) \in Nat /\ (Away(w) = 0 <=> w = v)
  <2>1. packet \in Seq(Bit) /\ ~ Extended(opts, packet)
    BY <1>1 DEF Extended
  <2>2. Away(w) = levenshtein(packet, lev_word(opts, w)) /\ Away(w) \in Nat
    BY <2>1, AwayOfWord
  <2>3. Away(w) = 0 <=> packet = lev_word(opts, w)
    BY <1>1, <2>1, <2>2, NoDistance
  <2> QED
    BY <1>1, <2>2, <2>3
<1>3. ASSUME NEW w \in Nearest PROVE w = v
  <2>1. w \in Values /\ Away(w) <= Away(v)
    BY DEF Nearest
  <2>2. Away(v) = 0
    BY <1>2
  <2>3. Away(w) = 0
    BY <1>2, <2>1, <2>2
  <2> QED
    BY <1>2, <2>1, <2>3
<1> QED
  BY <1>3

\* With one error at most only one MPDU is heard wrong.
LEMMA ErrorIsAlone ==
    ASSUME HeardType, Errors <= 1,
           NEW i \in 1 .. Len(sent), NEW j \in 1 .. Len(sent),
           sent[i] # heard[i], sent[j] # heard[j]
    PROVE  i = j
<1> DEFINE S == {k \in DOMAIN sent : sent[k] # heard[k]}
<1>1. DOMAIN sent = 1 .. Len(sent) /\ Len(sent) \in Nat
  BY DEF HeardType
<1>2. i \in S /\ j \in S /\ S \subseteq 1 .. Len(sent) /\ Cardinality(S) <= 1
  BY <1>1 DEF Errors
<1> HIDE DEF S
<1>3. IsFiniteSet(S)
  <2>1. IsFiniteSet(1 .. Len(sent))
    BY <1>1, FS_Interval
  <2> QED
    BY <1>2, <2>1, FS_Subset
<1>4. ASSUME i # j PROVE FALSE
  <2>1. i \in S \ {j} /\ IsFiniteSet(S \ {j}) /\ Cardinality(S \ {j}) = Cardinality(S) - 1
    BY <1>2, <1>3, <1>4, FS_RemoveElement
  <2>2. Cardinality(S) \in Nat /\ Cardinality(S \ {j}) \in Nat
    BY <1>3, <2>1, FS_CardinalityType
  <2>3. Cardinality(S \ {j}) = 0
    BY <1>2, <2>1, <2>2
  <2> QED
    BY <2>1, <2>3, FS_EmptySet
<1> QED
  BY <1>4

\* With one error at most there is no other place than one where sent and heard
\* differ.
LEMMA OneWrong ==
    ASSUME HeardType, Errors <= 1
    PROVE  \E k \in Int : \A q \in 1 .. Len(sent) : q # k => sent[q] = heard[q]
<1>1. CASE \E i \in 1 .. Len(sent) : sent[i] # heard[i]
  <2>1. PICK i \in 1 .. Len(sent) : sent[i] # heard[i]
    BY <1>1
  <2>2. \A q \in 1 .. Len(sent) : q # i => sent[q] = heard[q]
    BY <2>1, ErrorIsAlone
  <2> QED
    BY <2>2
<1>2. CASE ~ \E i \in 1 .. Len(sent) : sent[i] # heard[i]
  BY <1>2
<1> QED
  BY <1>1, <1>2

\* With one error among the bits of the message what the filter hands over is
\* one edit away from the code word.
LEMMA ErrorIsOneEdit ==
    ASSUME Setting, InPhase, Seen, Handed, status # "idle",
           NEW v \in Values, Covered(v), Errors <= 1, ~AmbleHit(value)
    PROVE  /\ value = v
           /\ packet \in Seq(Bit) /\ Len(packet) = expected_len(opts)
           /\ OneApart(packet, lev_word(opts, value), Len(packet), expected_len(opts))
<1>1. /\ sent \in Seq(Bit) /\ heard \in Seq(Bit) /\ Len(sent) = Len(heard)
      /\ HeardType /\ opts \in Options /\ InRange
      /\ Span \in Nat /\ Len(sent) \in Nat
  BY SettingsFacts DEF Setting, Typed, HeardType
<1>2. PICK o \in Int, base \in Bit :
          /\ value = v
          /\ Follows(sent, value, o, base)
          /\ DataOf(value) = o + P + 1 .. o + P + B * M
          /\ o \in 1 .. Len(sent) /\ o + Span + 1 \in 1 .. Len(sent)
          /\ sent[o] = 1 /\ sent[o + Span + 1] = 1
          /\ SubSeq(sent, o, o + Span + 1) = lev_word(opts, value)
  BY CoveredIsSeen
<1>3. Covered(value) /\ value \in Values /\ \A k \in 1 .. Len(sent) :
          k \notin o + P + 1 .. o + P + B * M => sent[k] = heard[k]
  <2>1. Covered(value) /\ value \in Values
    BY <1>2
  <2>2. \A k \in DOMAIN sent \ DataOf(value) : sent[k] = heard[k]
    BY <2>1 DEF AmbleHit
  <2>3. DOMAIN sent = 1 .. Len(sent)
    BY <1>1
  <2> QED
    BY <1>2, <2>1, <2>2, <2>3, Zenon
<1>4. Around(heard, o, base)
  <2>1. Around(sent, o, base)
    BY <1>1, <1>2, FollowsAround
  <2> QED
    BY <1>1, <1>3, <2>1 DEF Around
<1>5. PICK s, e \in 1 .. Len(heard) : PartOf(s, e)
  BY DEF Handed
<1>6. s = o /\ e = o + Span + 1
  BY <1>1, <1>4, <1>5, OnlyPlace DEF PartOf
<1>7. PICK k \in Int : \A q \in 1 .. Len(sent) : q # k => sent[q] = heard[q]
  BY <1>1, OneWrong
<1>8. /\ packet \in Seq(Bit) /\ Len(packet) = Span + 2
      /\ OneApart(packet, SubSeq(sent, o, o + Span + 1), Len(packet), Span + 2)
  <2> DEFINE part == SubSeq(heard, s, e)
  <2>1. s < e /\ heard[s] = 1 /\ heard[e] = 1 /\ packet = part
    BY <1>5 DEF PartOf
  <2>2. Slipped(s, e, k, o)
    BY <1>6 DEF Slipped
  <2>3. /\ part \in Seq(Bit)
        /\ s = o /\ e = o + Span + 1 => Len(part) = Span + 2
        /\ OneApart(part, SubSeq(sent, o, o + Span + 1), Len(part), Span + 2)
    BY <1>1, <1>2, <1>7, <2>1, <2>2, SlipIsOneEdit, Zenon
  <2> QED
    BY <1>6, <2>1, <2>3
<1> QED
  BY <1>1, <1>2, <1>3, <1>8, WordLevels

\* So is what it hands over with one error anywhere, when an amble has three
\* MPDUs, whether or not it is of the length of the word.
LEMMA AnyErrorIsOneEdit ==
    ASSUME Setting, P >= 3, InPhase, Seen, Handed, status # "idle",
           NEW v \in Values, Covered(v), Errors <= 1
    PROVE  /\ value = v /\ packet \in Seq(Bit) /\ packet # << >>
           /\ OneApart(packet, lev_word(opts, value), Len(packet), expected_len(opts))
<1>1. /\ sent \in Seq(Bit) /\ heard \in Seq(Bit) /\ Len(sent) = Len(heard)
      /\ HeardType /\ opts \in Options /\ InRange
      /\ Span \in Nat \ {0} /\ Len(sent) \in Nat
  BY SettingsFacts DEF Setting, Typed, HeardType
<1>2. PICK o \in Int, base \in Bit :
          /\ value = v
          /\ Follows(sent, value, o, base)
          /\ o \in 1 .. Len(sent) /\ o + Span + 1 \in 1 .. Len(sent)
          /\ sent[o] = 1 /\ sent[o + Span + 1] = 1
          /\ SubSeq(sent, o, o + Span + 1) = lev_word(opts, value)
  BY CoveredIsSeen
<1>3. Around(sent, o, base)
  BY <1>1, <1>2, FollowsAround
<1>4. expected_len(opts) = Span + 2
  BY <1>1, WordLevels
<1>5. base = 1
  <2>1. o \in (1 .. Len(sent)) \ (o + P + 1 .. o + P + B * M)
    BY <1>2, SettingsFacts
  <2> QED
    BY <1>2, <1>3, <2>1 DEF Around
<1>6. PICK k \in Int : \A q \in 1 .. Len(sent) : q # k => sent[q] = heard[q]
  BY <1>1, OneWrong
<1>7. \A q \in (1 .. Len(heard)) \ (o + P + 1 .. o + P + B * M) :
          q # k => heard[q] = IF q <= o THEN 1 ELSE IF q <= o + Span THEN 0 ELSE 1
  BY <1>1, <1>3, <1>5, <1>6 DEF Around
<1>8. PICK s, e \in 1 .. Len(heard) : PartOf(s, e)
  BY DEF Handed
<1>9. Slipped(s, e, k, o)
  BY <1>1, <1>2, <1>7, <1>8, FewPlaces DEF PartOf
<1>10. /\ packet \in Seq(Bit) /\ packet # << >>
       /\ OneApart(packet, SubSeq(sent, o, o + Span + 1), Len(packet), Span + 2)
  <2> DEFINE part == SubSeq(heard, s, e)
  <2>1. s < e /\ heard[s] = 1 /\ heard[e] = 1 /\ packet = part
    BY <1>8 DEF PartOf
  <2>2. /\ part \in Seq(Bit) /\ part # << >>
        /\ OneApart(part, SubSeq(sent, o, o + Span + 1), Len(part), Span + 2)
    BY <1>1, <1>2, <1>6, <1>9, <2>1, SlipIsOneEdit, Zenon
  <2> QED
    BY <2>1, <2>2
<1> QED
  BY <1>2, <1>4, <1>10

\* No more MPDUs are wrong than may be.
LEMMA FewErrors == LinkSpec => [](Errors <= MaxErrors)
<1> DEFINE Wrong == {k \in DOMAIN sent : sent[k] # heard[k]}
           Few == Errors <= MaxErrors
<1>1. LinkInit => Few
  <2> SUFFICES ASSUME LinkInit PROVE Few
    OBVIOUS
  <2>1. Wrong = {}
    BY DEF LinkInit
  <2> QED
    BY <2>1, FS_EmptySet, LinkAssumption DEF Errors
<1>2. Typed /\ Few /\ [LinkNext]_link_vars => Few'
  <2> SUFFICES ASSUME Typed, Few, [LinkNext]_link_vars PROVE Few'
    OBVIOUS
  <2>1. CASE UNCHANGED <<sent, heard>>
    BY <2>1 DEF Errors
  <2>2. CASE sent' = << >> /\ heard' = << >>
    <3>1. Wrong' = {}
      BY <2>2
    <3> QED
      BY <3>1, FS_EmptySet, LinkAssumption DEF Errors
  <2>3. ASSUME Mpdu, NEW b \in IF Errors < MaxErrors THEN Bit ELSE {level},
               sent' = Append(sent, level), heard' = Append(heard, b)
        PROVE  Few'
    <3> DEFINE n == Len(sent) + 1
    <3>1. /\ sent \in Seq(Bit) /\ heard \in Seq(Bit) /\ Len(sent) = Len(heard)
          /\ Len(sent) \in Nat
      BY DEF Typed, HeardType
    <3>2. /\ DOMAIN sent' = DOMAIN sent \cup {n} /\ n \notin DOMAIN sent
          /\ \A k \in DOMAIN sent : sent'[k] = sent[k] /\ heard'[k] = heard[k]
          /\ sent'[n] = level /\ heard'[n] = b
      BY <2>3, <3>1
    <3>3. IsFiniteSet(Wrong) /\ n \notin Wrong
      <4>1. IsFiniteSet(DOMAIN sent)
        BY <3>1, FS_Interval
      <4> QED
        BY <3>2, <4>1, FS_Subset
    <3> HIDE DEF n
    <3>4. CASE b = level
      <4>1. Wrong' = Wrong
        BY <3>2, <3>4
      <4> QED
        BY <4>1 DEF Errors
    <3>5. CASE b # level
      <4>1. Wrong' = Wrong \cup {n}
        BY <3>2, <3>5
      <4>2. Errors < MaxErrors
        BY <2>3, <3>5
      <4>3. Cardinality(Wrong \cup {n}) = Cardinality(Wrong) + 1
            /\ Cardinality(Wrong) \in Nat
        BY <3>3, FS_AddElement, FS_CardinalityType
      <4>4. Errors = Cardinality(Wrong) /\ Errors' = Cardinality(Wrong')
        BY DEF Errors
      <4> HIDE DEF Wrong
      <4> QED
        BY <4>1, <4>2, <4>3, <4>4, LinkAssumption
    <3> QED
      BY <3>4, <3>5
  <2>4. CASE Mpdu
    BY <2>1, <2>3, <2>4 DEF Mpdu
  <2>5. CASE Tagging \/ Detect \/ Noise \/ Decoding
    BY <2>1, <2>5 DEF Tagging, Detect, Noise, Decoding
  <2>6. CASE Discard \/ Done
    BY <2>2, <2>6 DEF Discard, Done
  <2>7. CASE UNCHANGED link_vars
    BY <2>1, <2>7 DEF link_vars
  <2> QED
    BY <2>4, <2>5, <2>6, <2>7 DEF LinkNext
<1> HIDE DEF Few
<1>3. LinkSpec => []Few
  BY <1>1, <1>2, TypedHolds, PTL DEF LinkSpec
<1> QED
  BY <1>3 DEF Few

-----------------------------------------------------------------------------
(* The theorems.                                                            *)

\* Without an error in the A-MPDU the value that is decoded is the one that
\* was sent.
ExactlyDecoded ==
    status = "matched" /\ InRange /\ sent = heard => decoded = value

LEMMA DecodesExactly ==
    ASSUME LongWaits, Typed, LinkInv
    PROVE  ExactlyDecoded
<1> SUFFICES ASSUME status = "matched", InRange, sent = heard
             PROVE  decoded = value
  BY DEF ExactlyDecoded
<1>1. value \in Values /\ packet = lev_word(opts, value) /\ opts \in Options
  <2>1. Setting /\ InPhase /\ Seen /\ Handed
    BY DEF LinkInv, Setting, Typed, DecInv
  <2> QED
    BY <2>1, HandedIsWhole DEF Whole, Setting
<1>2. decoded \in Nearest
  BY DecidesNearest DEF Typed, DecodesNearest
<1> QED
  BY <1>1, <1>2, WordIsNearest

\* What is decoded is nearest to what the filter hands over, whatever the
\* link and the noise do (decode-algs.c:27-42, 73-152, 161-176).
THEOREM LinkDecodesNearest == LinkSpec => []DecodesNearest
<1>1. Typed => DecodesNearest
  BY DecidesNearest DEF Typed
<1> QED
  BY TypedHolds, <1>1, PTL

\* A packet that the filter accepts never makes detect_with_lev write past its
\* arrays, when they have the room that RoomIsEnough asks for
\* (filter.c:319-345, decode-algs.c:97-120).
THEOREM LinkHasRoom == LinkSpec => []RoomForTies
<1>1. Typed => RoomForTies
  BY DEF Typed, DecInv
<1> QED
  BY TypedHolds, <1>1, PTL

\* When a wait is as long as an A-MPDU, an A-MPDU without errors is a packet
\* only if it covers a whole message: what an end of it cuts off is no packet
\* (filter.c:319-345, helperfunctions.h:135-192, tag.ino:11-17).
THEOREM CutMessagesDiscarded == LongWaits => (LinkSpec => []CutIsDiscarded)
<1> SUFFICES ASSUME LongWaits PROVE LinkSpec => []CutIsDiscarded
  OBVIOUS
<1>1. Typed /\ LinkInv => CutIsDiscarded
  <2> SUFFICES ASSUME Typed, LinkInv, InRange PROVE CutIsDiscarded
    BY DEF CutIsDiscarded
  <2>1. Setting /\ InPhase /\ Seen /\ Handed
    BY DEF LinkInv, Setting, Typed, DecInv
  <2> QED
    BY <2>1, HandedIsWhole DEF Whole, CutIsDiscarded
<1> QED
  BY LinkInvHolds, TypedHolds, <1>1, PTL

\* Then the value that is decoded without errors is the one the tag has sent,
\* whenever the A-MPDU began (helperfunctions.h:135-192, regexes.c:95-121,
\* decode-algs.c:49-179);
THEOREM ExactIsDecoded == LongWaits => (LinkSpec => []ExactlyDecoded)
<1> SUFFICES ASSUME LongWaits PROVE LinkSpec => []ExactlyDecoded
  OBVIOUS
<1>1. Typed /\ LinkInv => ExactlyDecoded
  BY DecodesExactly
<1> QED
  BY LinkInvHolds, TypedHolds, <1>1, PTL

\* on a link that makes no errors that is every value.
THEOREM FaithfulLinkDecodes ==
    LongWaits /\ MaxErrors = 0 => (LinkSpec => []SentIsDecoded)
<1> SUFFICES ASSUME LongWaits, MaxErrors = 0 PROVE LinkSpec => []SentIsDecoded
  OBVIOUS
<1>1. Typed /\ LinkInv => SentIsDecoded
  BY DecodesExactly DEF ExactlyDecoded, SentIsDecoded, Typed, NoErrors
<1> QED
  BY LinkInvHolds, TypedHolds, <1>1, PTL

\* One error among the bits of a message is corrected, when a bit has three
\* MPDUs or more: what is decoded of an A-MPDU that covers a message is what
\* the tag has sent, with one MPDU lost or got through by chance that is none
\* of the ambles' or between the messages (helperfunctions.h:135-192,
\* regexes.c:95-121, decode-algs.c:49-179).
THEOREM LinkCorrectsOneError ==
    LongWaits /\ M >= 3 =>
        (LinkSpec => [](Errors <= 1 /\ ~AmbleHit(value) => SentIsDecoded))
<1> SUFFICES ASSUME LongWaits, M >= 3
             PROVE  LinkSpec => [](Errors <= 1 /\ ~AmbleHit(value) => SentIsDecoded)
  OBVIOUS
<1>1. Typed /\ LinkInv => (Errors <= 1 /\ ~AmbleHit(value) => SentIsDecoded)
  <2> SUFFICES ASSUME Typed, LinkInv, Errors <= 1, ~AmbleHit(value),
                      status = "matched", InRange, NEW v \in Values, Covered(v)
               PROVE  decoded = value
    BY DEF SentIsDecoded
  <2>1. Setting /\ InPhase /\ Seen /\ Handed
    BY DEF LinkInv, Setting, Typed, DecInv
  <2>2. /\ value = v
        /\ packet \in Seq(Bit) /\ Len(packet) = expected_len(opts)
        /\ OneApart(packet, lev_word(opts, value), Len(packet), expected_len(opts))
    BY <2>1, ErrorIsOneEdit
  <2>3. ~ Extended(opts, packet) /\ opts \in Options /\ opts.mpdus_per_bit >= 3
    BY <2>1, <2>2 DEF Extended, Setting, InRange
  <2>4. Len(lev_word(opts, value)) = expected_len(opts)
    BY <2>2, <2>3, OptionsFacts DEF Values
  <2>5. decoded \in Nearest
    BY DecidesNearest DEF Typed, DecodesNearest
  <2> QED
    BY <2>2, <2>3, <2>4, <2>5, OneEditWins
<1> QED
  BY LinkInvHolds, TypedHolds, <1>1, PTL

\* One error is corrected wherever it is, when a bit and an amble have three
\* MPDUs or more, as tag.ino has them: also an MPDU of an amble, or one beside
\* the message, lost or got through by chance leaves the decoder a packet that
\* is nearest to the value sent (helperfunctions.h:135-192, regexes.c:95-121,
\* filter.c:319-345, decode-algs.c:49-179).
THEOREM LinkCorrectsAnyError ==
    LongWaits /\ P >= 3 /\ M >= 3 /\ MaxErrors <= 1 => (LinkSpec => []SentIsDecoded)
<1> SUFFICES ASSUME LongWaits, P >= 3, M >= 3, MaxErrors <= 1
             PROVE  LinkSpec => []SentIsDecoded
  OBVIOUS
<1>1. Typed /\ LinkInv /\ Errors <= MaxErrors => SentIsDecoded
  <2> SUFFICES ASSUME Typed, LinkInv, Errors <= MaxErrors,
                      status = "matched", InRange, NEW v \in Values, Covered(v)
               PROVE  decoded = value
    BY DEF SentIsDecoded
  <2>1. Setting /\ InPhase /\ Seen /\ Handed
    BY DEF LinkInv, Setting, Typed, DecInv
  <2>2. Errors <= 1
    <3>1. Errors \in Nat
      <4> DEFINE Wrong == {k \in DOMAIN sent : sent[k] # heard[k]}
      <4>1. DOMAIN sent = 1 .. Len(sent) /\ Len(sent) \in Nat
            /\ Wrong \subseteq DOMAIN sent
        BY DEF Typed, HeardType
      <4> HIDE DEF Wrong
      <4>2. IsFiniteSet(DOMAIN sent)
        BY <4>1, FS_Interval
      <4>3. IsFiniteSet(Wrong)
        BY <4>1, <4>2, FS_Subset
      <4>4. Cardinality(Wrong) \in Nat
        BY <4>3, FS_CardinalityType
      <4> QED
        BY <4>4 DEF Errors, Wrong
    <3> QED
      BY <3>1, LinkAssumption
  <2>3. /\ value = v /\ packet \in Seq(Bit) /\ packet # << >>
        /\ OneApart(packet, lev_word(opts, value), Len(packet), expected_len(opts))
    BY <2>1, <2>2, AnyErrorIsOneEdit
  <2>4. opts \in Options /\ opts.mpdus_per_bit >= 3
        /\ Len(lev_word(opts, value)) = expected_len(opts)
    BY <2>1, <2>3, OptionsFacts DEF Setting, InRange, Values
  <2>5. decoded \in Nearest
    BY DecidesNearest DEF Typed, DecodesNearest
  <2>6. CASE ~ Extended(opts, packet)
    BY <2>3, <2>4, <2>5, <2>6, OneEditWins
  <2>7. CASE Extended(opts, packet)
    BY <2>3, <2>4, <2>5, <2>7, OneEditWinsExtended
  <2> QED
    BY <2>6, <2>7
<1> QED
  BY LinkInvHolds, TypedHolds, FewErrors, <1>1, PTL
===============================================================================
