------------------------------ MODULE ReportProofs ----------------------------
(***************************************************************************)
(* Theorems of Report, for every set of options, of lines and of outcomes, *)
(* and every number of lines: the types, the sums of the intervals and of  *)
(* the histograms, the columns of the report, the value it says was        *)
(* expected and when it crashes.  Of Lemmas only the induction is used.    *)
(***************************************************************************)
EXTENDS Report, Lemmas

\* What SameSoFar and the counts of the expected values have in common.
ExpectedInv ==
    /\ \A v, w \in Values :
          v # w => expected_counts[v] + expected_counts[w] <= line_count
    /\ all_expected_the_same => expected_counts[expected_num] = line_count
    /\ ~all_expected_the_same =>
          \A v \in Values : expected_counts[v] < line_count
    /\ opts.expected_in_file =>
          prev_expected = IF line_count = 0 THEN -1 ELSE expected_num
    /\ ~opts.expected_in_file =>
          /\ all_expected_the_same
          /\ \/ line_count = 0
             \/ expected_num = IF opts.expected_value # -1
                               THEN opts.expected_value ELSE 0

\* A line that is read leaves a value to count.
LEMMA ReadIsValue ==
    ASSUME TypeOK, NEW l \in Lines, Read(l) = "read", SetRead(l)
    PROVE  /\ r_sent' \in Lens /\ r_delta_sec' \in Nat
           /\ expected_num' \in Values
           /\ prev_expected' \in Values \cup {-1}
           /\ all_expected_the_same' \in BOOLEAN
<1>1. /\ l.sent \in Lens /\ l.sec \in Nat
      /\ l.expected \in Values \cup {NoName} /\ 0 \in Values
  BY LinesAssumption, ValuesAssumption DEF Values
<1>2. /\ opts.expected_value \in Values \cup {-1}
      /\ opts.expected_in_file \in BOOLEAN
  BY OptionsAssumption DEF TypeOK, LegalOptions
<1>3. opts.expected_in_file => l.expected \in Values
  BY <1>1 DEF Read, ReadBoth
<1>4. r_sent' \in Lens /\ r_delta_sec' \in Nat
  BY <1>1 DEF SetRead, TypeOK
<1>5. expected_num' \in Values
  BY <1>1, <1>2, <1>3 DEF SetRead
<1>6. prev_expected' \in Values \cup {-1} /\ all_expected_the_same' \in BOOLEAN
  BY <1>2, <1>3 DEF SetRead, SameSoFar, TypeOK
<1>7. QED
  BY <1>4, <1>5, <1>6

\* Incremented adds one at x and changes nothing else.
LEMMA IncrementedIs ==
    ASSUME NEW S, NEW f \in [S -> Nat], NEW x \in S
    PROVE  /\ Incremented(f, x) \in [S -> Nat]
           /\ Incremented(f, x)[x] = f[x] + 1
           /\ \A y \in S : y # x => Incremented(f, x)[y] = f[y]
BY DEF Incremented

\* Adding to one place keeps the type.
LEMMA AddedType ==
    ASSUME NEW S, NEW f \in [S -> Nat], NEW x \in S, NEW d \in Nat
    PROVE  [f EXCEPT ![x] = @ + d] \in [S -> Nat]
<1>1. f[x] + d \in Nat
  OBVIOUS
<1>2. QED
  BY <1>1

\* What the line and its packet add to the counters of the interval.
LEMMA CountedIs ==
    ASSUME TypeOK, NEW len \in Nat, NEW sec \in Nat, NEW kind
    PROVE  LET now == Counted(len, sec, kind) IN
           /\ now \in IntervalCounters
           /\ now.packets = dt.packets + (IF kind = "packet" THEN 1 ELSE 0)
           /\ now.per_packet = dt.per_packet
                               + (IF kind = "none" THEN 0 ELSE 1)
           /\ now.blockacks = dt.blockacks + 1
           /\ now.rate_gap = dt.rate_gap + sec
<1> DEFINE p == IF kind = "packet" THEN 1 ELSE 0
           q == IF kind = "none" THEN 0 ELSE 1
           r == IF len = opts.max_mpdus_p_ampdu THEN 1 ELSE 0
<1>1. p \in Nat /\ q \in Nat /\ r \in Nat
  OBVIOUS
<1>2. Counted(len, sec, kind) =
        [packets |-> dt.packets + p, per_packet |-> dt.per_packet + q,
         blockacks |-> dt.blockacks + 1, rate_gap |-> dt.rate_gap + sec,
         ampdu_len |-> dt.ampdu_len + len, len_one |-> dt.len_one + r]
  BY DEF Counted
<1>3. dt \in IntervalCounters
  BY DEF TypeOK
<1> HIDE DEF p, q, r
<1>4. Counted(len, sec, kind) \in IntervalCounters
  BY <1>1, <1>2, <1>3 DEF IntervalCounters
<1>5. QED
  BY <1>2, <1>4 DEF p, q

\* Folding adds.
LEMMA FoldedIs ==
    ASSUME NEW a \in IntervalCounters, NEW b \in IntervalCounters
    PROVE  /\ Folded(a, b) \in IntervalCounters
           /\ Folded(a, b).packets = a.packets + b.packets
           /\ Folded(a, b).per_packet = a.per_packet + b.per_packet
           /\ Folded(a, b).blockacks = a.blockacks + b.blockacks
           /\ Folded(a, b).rate_gap = a.rate_gap + b.rate_gap
BY DEF Folded, IntervalCounters

\* Folding and clearing the frequencies keeps their types.
LEMMA FoldedLensType ==
    ASSUME NEW a \in [Lens -> Nat], NEW b \in [Lens -> Nat]
    PROVE  FoldedLens(a, b) \in [Lens -> Nat] /\ ClearedLens(b) \in [Lens -> Nat]
<1>1. \A n \in Lens : a[n] \in Nat /\ a[n] + b[n] \in Nat /\ b[n] \in Nat
  OBVIOUS
<1>2. QED
  BY <1>1 DEF FoldedLens, ClearedLens

LEMMA NoIntervalType == NoInterval \in IntervalCounters
BY DEF NoInterval, IntervalCounters

\* The end of a line keeps the types of the intervals, and their sum is that of
\* before with what the line added.
LEMMA IntervalIs ==
    ASSUME TypeOK, NEW now \in IntervalCounters, NEW fs \in [Lens -> Nat],
           NEW kind, Interval(now, fs, kind)
    PROVE  /\ dt' \in IntervalCounters /\ cumm' \in IntervalCounters
           /\ t_f' \in [Lens -> Nat] /\ cumm_t_f' \in [Lens -> Nat]
           /\ cumm'.packets + dt'.packets = cumm.packets + now.packets
           /\ cumm'.per_packet + dt'.per_packet
              = cumm.per_packet + now.per_packet
           /\ cumm'.blockacks + dt'.blockacks = cumm.blockacks + now.blockacks
           /\ cumm'.rate_gap + dt'.rate_gap = cumm.rate_gap + now.rate_gap
<1>1. cumm \in IntervalCounters /\ cumm_t_f \in [Lens -> Nat]
  BY DEF TypeOK
<1>2. CASE kind = "packet" /\ now.rate_gap >= opts.rate_gap_thold
  <2>1. /\ cumm' = Folded(cumm, now) /\ dt' = NoInterval
        /\ cumm_t_f' = FoldedLens(cumm_t_f, fs) /\ t_f' = ClearedLens(fs)
    BY <1>2 DEF Interval
  <2>2. /\ t_f' \in [Lens -> Nat] /\ cumm_t_f' \in [Lens -> Nat]
    BY <2>1, <1>1, FoldedLensType
  <2>3. /\ dt' \in IntervalCounters /\ cumm' \in IntervalCounters
        /\ cumm'.packets = cumm.packets + now.packets
        /\ cumm'.per_packet = cumm.per_packet + now.per_packet
        /\ cumm'.blockacks = cumm.blockacks + now.blockacks
        /\ cumm'.rate_gap = cumm.rate_gap + now.rate_gap
    BY <2>1, <1>1, FoldedIs, NoIntervalType
  <2>4. /\ dt'.packets = 0 /\ dt'.per_packet = 0 /\ dt'.blockacks = 0
        /\ dt'.rate_gap = 0
    BY <2>1 DEF NoInterval
  <2>5. QED
    BY <2>2, <2>3, <2>4 DEF IntervalCounters
<1>3. CASE ~(kind = "packet" /\ now.rate_gap >= opts.rate_gap_thold)
  BY <1>1, <1>3 DEF Interval
<1>4. QED
  BY <1>2, <1>3

-----------------------------------------------------------------------------
(* One line.                                                                *)

\* What a line that is counted changes, in the terms of the lemmas above.
LEMMA CountSums ==
    ASSUME TypeOK, NEW l \in Lines, NEW u \in Outcomes, Count(l, u)
    PROVE  /\ dt' \in IntervalCounters /\ cumm' \in IntervalCounters
           /\ t_f' \in [Lens -> Nat] /\ cumm_t_f' \in [Lens -> Nat]
           /\ cumm'.packets + dt'.packets = cumm.packets + dt.packets
                  + (IF u.kind = "packet" THEN 1 ELSE 0)
           /\ cumm'.per_packet + dt'.per_packet
              = cumm.per_packet + dt.per_packet
                  + (IF u.kind = "none" THEN 0 ELSE 1)
           /\ cumm'.blockacks + dt'.blockacks
              = cumm.blockacks + dt.blockacks + 1
           /\ cumm'.rate_gap + dt'.rate_gap
              = cumm.rate_gap + dt.rate_gap + r_delta_sec'
<1> DEFINE now == Counted(r_sent', r_delta_sec', u.kind)
           fs  == Incremented(t_f, r_sent')
           p == IF u.kind = "packet" THEN 1 ELSE 0
           q == IF u.kind = "none" THEN 0 ELSE 1
<1>1. r_sent' \in Lens /\ r_sent' \in Nat /\ r_delta_sec' \in Nat
  BY ReadIsValue, LengthAssumption DEF Count, Lens
<1>2. /\ now \in IntervalCounters
      /\ now.packets = dt.packets + p
      /\ now.per_packet = dt.per_packet + q
      /\ now.blockacks = dt.blockacks + 1
      /\ now.rate_gap = dt.rate_gap + r_delta_sec'
  BY <1>1, CountedIs
<1>3. fs \in [Lens -> Nat]
  BY <1>1, IncrementedIs DEF TypeOK
<1>4. Interval(now, fs, u.kind)
  BY DEF Count
<1>5. p \in Nat /\ q \in Nat
  OBVIOUS
<1> HIDE DEF now, fs
<1>6. /\ dt' \in IntervalCounters /\ cumm' \in IntervalCounters
      /\ t_f' \in [Lens -> Nat] /\ cumm_t_f' \in [Lens -> Nat]
      /\ cumm'.packets + dt'.packets = cumm.packets + now.packets
      /\ cumm'.per_packet + dt'.per_packet
         = cumm.per_packet + now.per_packet
      /\ cumm'.blockacks + dt'.blockacks = cumm.blockacks + now.blockacks
      /\ cumm'.rate_gap + dt'.rate_gap = cumm.rate_gap + now.rate_gap
  BY <1>2, <1>3, <1>4, IntervalIs
<1>7. /\ dt.packets \in Nat /\ dt.per_packet \in Nat /\ dt.blockacks \in Nat
      /\ dt.rate_gap \in Nat /\ cumm.packets \in Nat
      /\ cumm.per_packet \in Nat /\ cumm.blockacks \in Nat
      /\ cumm.rate_gap \in Nat
  BY DEF TypeOK, IntervalCounters
<1> HIDE DEF p, q
<1>8. /\ cumm'.packets + dt'.packets = cumm.packets + dt.packets + p
      /\ cumm'.per_packet + dt'.per_packet = cumm.per_packet + dt.per_packet + q
      /\ cumm'.blockacks + dt'.blockacks = cumm.blockacks + dt.blockacks + 1
      /\ cumm'.rate_gap + dt'.rate_gap
         = cumm.rate_gap + dt.rate_gap + r_delta_sec'
  BY <1>1, <1>2, <1>5, <1>6, <1>7
<1>9. QED
  BY <1>6, <1>8 DEF p, q

\* What a packet changes keeps the types and the columns of the report.
LEMMA DetectedKeeps ==
    ASSUME TypeOK, PercentagesInRange, NEW u \in Outcomes, Detected(u),
           expected_num' \in Values, line_count' = line_count + 1,
           expected_counts' = Incremented(expected_counts, expected_num')
    PROVE  /\ packet_count' \in Nat /\ total_matches' \in Nat
           /\ expected_counts' \in [Values -> Nat]
           /\ packet_counts' \in [Values -> Nat]
           /\ match_counts' \in [Values -> Nat]
           /\ counts' \in [Values -> Nat] /\ error_counts' \in [Values -> Nat]
           /\ num_ties' \in [Values -> Nat]
           /\ total_edit_dist' \in [Values -> Nat]
           /\ len_count' \in [Lens -> Nat] /\ correct_by_len' \in [Lens -> Nat]
           /\ PercentagesInRange'
<1>0. /\ expected_counts \in [Values -> Nat] /\ packet_counts \in [Values -> Nat]
      /\ match_counts \in [Values -> Nat] /\ counts \in [Values -> Nat]
      /\ error_counts \in [Values -> Nat] /\ num_ties \in [Values -> Nat]
      /\ total_edit_dist \in [Values -> Nat]
      /\ len_count \in [Lens -> Nat] /\ correct_by_len \in [Lens -> Nat]
      /\ line_count \in Nat /\ packet_count \in Nat /\ total_matches \in Nat
  BY DEF TypeOK
<1>1. /\ expected_counts' \in [Values -> Nat]
      /\ expected_counts'[expected_num'] = expected_counts[expected_num'] + 1
      /\ \A v \in Values :
            v # expected_num' => expected_counts'[v] = expected_counts[v]
  <2> DEFINE e == expected_num'
             f == expected_counts
  <2>1. e \in Values /\ f \in [Values -> Nat]
    BY <1>0
  <2>2. expected_counts' = Incremented(f, e)
    OBVIOUS
  <2> HIDE DEF e, f
  <2>3. /\ expected_counts' \in [Values -> Nat]
        /\ expected_counts'[e] = f[e] + 1
        /\ \A v \in Values : v # e => expected_counts'[v] = f[v]
    BY <2>1, <2>2, IncrementedIs
  <2>4. QED
    BY <2>3 DEF e, f
<1>2. CASE u.kind # "packet"
  <2>1. UNCHANGED <<packet_counts, packet_count, total_matches, match_counts,
                    counts, error_counts, num_ties, total_edit_dist, len_count,
                    correct_by_len>>
    BY <1>2 DEF Detected
  <2>2. \A i \in Values : /\ packet_counts[i] <= expected_counts'[i]
                          /\ expected_counts'[i] <= line_count'
    <3> SUFFICES ASSUME NEW i \in Values
                 PROVE  /\ packet_counts[i] <= expected_counts'[i]
                        /\ expected_counts'[i] <= line_count'
      OBVIOUS
    <3>1. /\ packet_counts[i] \in Nat /\ expected_counts[i] \in Nat
          /\ packet_counts[i] <= expected_counts[i]
          /\ expected_counts[i] <= line_count
      BY <1>0 DEF PercentagesInRange
    <3>2. expected_counts'[i] \in {expected_counts[i], expected_counts[i] + 1}
      BY <1>1
    <3>3. QED
      BY <1>0, <3>1, <3>2
  <2>3. PercentagesInRange'
    BY <2>1, <2>2 DEF PercentagesInRange
  <2>4. QED
    BY <1>0, <1>1, <2>1, <2>3
<1>3. CASE u.kind = "packet"
  <2>1. /\ u.len \in Lens /\ u.num \in Values /\ u.ties \in Nat /\ u.dist \in Nat
    BY OutcomesAssumption
  <2>2. /\ packet_counts' \in [Values -> Nat]
        /\ packet_counts'[expected_num'] = packet_counts[expected_num'] + 1
        /\ \A v \in Values :
              v # expected_num' => packet_counts'[v] = packet_counts[v]
    BY <1>0, <1>3, IncrementedIs DEF Detected
  <2>3. /\ match_counts' \in [Values -> Nat]
        /\ match_counts'[u.num] = match_counts[u.num] + 1
        /\ \A v \in Values : v # u.num => match_counts'[v] = match_counts[v]
    BY <1>0, <1>3, <2>1, IncrementedIs DEF Detected
  <2>4. /\ len_count' \in [Lens -> Nat]
        /\ len_count'[u.len] = len_count[u.len] + 1
        /\ \A n \in Lens : n # u.len => len_count'[n] = len_count[n]
    BY <1>0, <1>3, <2>1, IncrementedIs DEF Detected
  <2>5. packet_count' = packet_count + 1 /\ total_matches' = total_matches + 1
    BY <1>3 DEF Detected
  <2>6. num_ties' \in [Values -> Nat] /\ total_edit_dist' \in [Values -> Nat]
    <3>1. \/ UNCHANGED <<num_ties, total_edit_dist>>
          \/ /\ num_ties' = [num_ties EXCEPT ![u.num] = @ + u.ties]
             /\ total_edit_dist' = [total_edit_dist EXCEPT ![u.num] = @ + u.dist]
      BY <1>3 DEF Detected
    <3>2. /\ [num_ties EXCEPT ![u.num] = @ + u.ties] \in [Values -> Nat]
          /\ [total_edit_dist EXCEPT ![u.num] = @ + u.dist] \in [Values -> Nat]
      BY <1>0, <2>1, AddedType
    <3>3. QED
      BY <1>0, <3>1, <3>2
  <2>7. CASE is_expected(u.num)
    <3>1. /\ counts' = Incremented(counts, u.num)
          /\ correct_by_len' = Incremented(correct_by_len, u.len)
          /\ error_counts' = error_counts /\ u.num = expected_num'
      BY <1>3, <2>7 DEF Detected, is_expected
    <3>2. /\ counts' \in [Values -> Nat]
          /\ counts'[u.num] = counts[u.num] + 1
          /\ \A v \in Values : v # u.num => counts'[v] = counts[v]
      BY <1>0, <2>1, <3>1 DEF Incremented
    <3>3. /\ correct_by_len' \in [Lens -> Nat]
          /\ correct_by_len'[u.len] = correct_by_len[u.len] + 1
          /\ \A n \in Lens : n # u.len => correct_by_len'[n] = correct_by_len[n]
      BY <1>0, <2>1, <3>1 DEF Incremented
    <3>4. \A i \in Values :
            /\ match_counts'[i] = counts'[i] + error_counts'[i]
            /\ counts'[i] <= packet_counts'[i]
            /\ packet_counts'[i] <= expected_counts'[i]
            /\ match_counts'[i] <= total_matches'
            /\ expected_counts'[i] <= line_count'
      BY <1>0, <1>1, <2>1, <2>2, <2>3, <2>5, <3>1, <3>2 DEF PercentagesInRange
    <3>5. \A n \in Lens :
            correct_by_len'[n] <= len_count'[n] /\ len_count'[n] <= packet_count'
      BY <1>0, <2>1, <2>4, <2>5, <3>3 DEF PercentagesInRange
    <3>6. PercentagesInRange'
      BY <3>4, <3>5 DEF PercentagesInRange
    <3>7. QED
      BY <1>0, <1>1, <2>2, <2>3, <2>4, <2>5, <2>6, <3>1, <3>2, <3>3, <3>6
  <2>8. CASE ~is_expected(u.num)
    <3>1. /\ error_counts' = Incremented(error_counts, u.num)
          /\ counts' = counts /\ correct_by_len' = correct_by_len
      BY <1>3, <2>8 DEF Detected
    <3>2. /\ error_counts' \in [Values -> Nat]
          /\ error_counts'[u.num] = error_counts[u.num] + 1
          /\ \A v \in Values : v # u.num => error_counts'[v] = error_counts[v]
      BY <1>0, <2>1, <3>1 DEF Incremented
    <3>3. \A i \in Values :
            /\ match_counts'[i] = counts'[i] + error_counts'[i]
            /\ counts'[i] <= packet_counts'[i]
            /\ packet_counts'[i] <= expected_counts'[i]
            /\ match_counts'[i] <= total_matches'
            /\ expected_counts'[i] <= line_count'
      BY <1>0, <1>1, <2>1, <2>2, <2>3, <2>5, <3>1, <3>2 DEF PercentagesInRange
    <3>4. \A n \in Lens :
            correct_by_len'[n] <= len_count'[n] /\ len_count'[n] <= packet_count'
      BY <1>0, <2>1, <2>4, <2>5, <3>1 DEF PercentagesInRange
    <3>5. PercentagesInRange'
      BY <3>3, <3>4 DEF PercentagesInRange
    <3>6. QED
      BY <1>0, <1>1, <2>2, <2>3, <2>4, <2>5, <2>6, <3>1, <3>2, <3>5
  <2>9. QED
    BY <2>7, <2>8
<1>4. QED
  BY <1>2, <1>3

-----------------------------------------------------------------------------
(* The invariant.                                                           *)

IInv == TypeOK /\ IntervalsAddUp /\ PercentagesInRange /\ ExpectedInv

\* One more line expecting e keeps what SameSoFar stands for.
LEMMA ExpectedKeeps ==
    ASSUME IInv, NEW l \in Lines, Read(l) = "read", SetRead(l),
           line_count' = line_count + 1, opts' = opts,
           expected_counts' = Incremented(expected_counts, expected_num')
    PROVE  ExpectedInv'
<1> DEFINE e == expected_num'
           f == expected_counts
           n == line_count
<1>1. /\ e \in Values /\ f \in [Values -> Nat] /\ n \in Nat
      /\ expected_num \in Values /\ -1 \notin Values
      /\ \A v \in Values : f[v] \in Nat /\ f[v] <= n
      /\ opts.expected_in_file \in BOOLEAN /\ all_expected_the_same \in BOOLEAN
  <2>1. e \in Values
    BY ReadIsValue DEF IInv
  <2>2. /\ f \in [Values -> Nat] /\ n \in Nat /\ expected_num \in Values
        /\ all_expected_the_same \in BOOLEAN /\ opts \in Options
    BY DEF IInv, TypeOK
  <2>3. \A v \in Values : f[v] <= n
    BY DEF IInv, PercentagesInRange
  <2>4. -1 \notin Values /\ opts.expected_in_file \in BOOLEAN
    BY <2>2, OptionsAssumption DEF Values, LegalOptions
  <2>5. QED
    BY <2>1, <2>2, <2>3, <2>4
<1>2. expected_counts' = Incremented(f, e) /\ line_count' = n + 1
  OBVIOUS
<1>3. /\ \A v, w \in Values : v # w => f[v] + f[w] <= n
      /\ all_expected_the_same => f[expected_num] = n
      /\ ~all_expected_the_same => \A v \in Values : f[v] < n
      /\ opts.expected_in_file =>
            prev_expected = IF n = 0 THEN -1 ELSE expected_num
      /\ ~opts.expected_in_file =>
            /\ all_expected_the_same
            /\ \/ n = 0
               \/ expected_num = IF opts.expected_value # -1
                                 THEN opts.expected_value ELSE 0
  BY DEF IInv, ExpectedInv
<1>4. opts.expected_in_file =>
        /\ prev_expected' = e
        /\ all_expected_the_same' =
              (all_expected_the_same /\ prev_expected \in {-1, e})
  BY DEF SetRead, SameSoFar
<1>5. ~opts.expected_in_file =>
        /\ e = IF opts.expected_value # -1 THEN opts.expected_value ELSE 0
        /\ all_expected_the_same' = all_expected_the_same
  BY DEF SetRead
<1>6. all_expected_the_same' <=> all_expected_the_same /\ (n = 0 \/ e = expected_num)
  <2> HIDE DEF e, f, n
  <2>1. CASE opts.expected_in_file
    <3>1. n = 0 => prev_expected = -1
      BY <2>1, <1>3
    <3>2. n # 0 => prev_expected = expected_num /\ prev_expected # -1
      BY <2>1, <1>1, <1>3
    <3>3. prev_expected \in {-1, e} <=> (n = 0 \/ e = expected_num)
      BY <3>1, <3>2
    <3>4. QED
      BY <2>1, <3>3, <1>4
  <2>2. CASE ~opts.expected_in_file
    <3>1. all_expected_the_same /\ all_expected_the_same' = all_expected_the_same
      BY <2>2, <1>3, <1>5
    <3>2. n = 0 \/ e = expected_num
      BY <2>2, <1>3, <1>5
    <3>3. QED
      BY <3>1, <3>2
  <2>3. QED
    BY <2>1, <2>2
<1> HIDE DEF e, f, n
<1>7. /\ expected_counts'[e] = f[e] + 1
      /\ \A v \in Values : v # e => expected_counts'[v] = f[v]
  BY <1>1, <1>2, IncrementedIs
<1>8. \A v, w \in Values :
        v # w => expected_counts'[v] + expected_counts'[w] <= n + 1
  BY <1>1, <1>3, <1>7
<1>9. all_expected_the_same' => expected_counts'[e] = n + 1
  BY <1>1, <1>3, <1>6, <1>7
<1>10. ~all_expected_the_same' =>
          \A v \in Values : expected_counts'[v] < n + 1
  <2> SUFFICES ASSUME ~all_expected_the_same', NEW v \in Values
               PROVE  expected_counts'[v] < n + 1
    OBVIOUS
  <2>1. CASE ~all_expected_the_same
    BY <2>1, <1>1, <1>3, <1>7
  <2>2. CASE all_expected_the_same
    <3>1. n > 0 /\ e # expected_num /\ f[expected_num] = n
      BY <2>2, <1>1, <1>3, <1>6
    <3>2. CASE v = expected_num
      BY <3>1, <3>2, <1>1, <1>7
    <3>3. CASE v # expected_num
      <4>1. f[v] = 0
        BY <3>1, <3>3, <1>1, <1>3
      <4>2. QED
        BY <3>1, <4>1, <1>1, <1>7
    <3>4. QED
      BY <3>2, <3>3
  <2>3. QED
    BY <2>1, <2>2
<1>11. /\ opts'.expected_in_file => prev_expected' = e /\ n + 1 # 0
       /\ ~opts'.expected_in_file =>
             /\ all_expected_the_same'
             /\ e = IF opts'.expected_value # -1 THEN opts'.expected_value ELSE 0
  BY <1>1, <1>3, <1>4, <1>5
<1>12. QED
  BY <1>2, <1>8, <1>9, <1>10, <1>11 DEF ExpectedInv, e

\* What ExpectedInv says depends on these variables only.
LEMMA ExpectedUnchanged ==
    ASSUME ExpectedInv, UNCHANGED <<opts, expected_counts, line_count,
               expected_num, prev_expected, all_expected_the_same>>
    PROVE  ExpectedInv'
BY DEF ExpectedInv

LEMMA InitIInv == Init => IInv
<1> SUFFICES ASSUME Init PROVE IInv
  OBVIOUS
<1>1. 0 \in Values /\ 0 \in Lens /\ -1 \notin Values
  BY ValuesAssumption, LengthAssumption DEF Values, Lens
<1>2. Zero(Values) \in [Values -> Nat] /\ Zero(Lens) \in [Lens -> Nat]
  BY DEF Zero
<1>3. TypeOK
  BY <1>1, <1>2, NoIntervalType DEF Init, TypeOK
<1>4. IntervalsAddUp
  <2>1. /\ Whole.packets = 0 /\ Whole.per_packet = 0 /\ Whole.blockacks = 0
        /\ Whole.rate_gap = 0
    BY DEF Init, Whole, Folds, Folded, NoInterval
  <2>2. QED
    BY <2>1 DEF Init, IntervalsAddUp
<1>5. PercentagesInRange
  BY DEF Init, PercentagesInRange, Zero
<1>6. ExpectedInv
  BY <1>1 DEF Init, ExpectedInv, Zero
<1>7. QED
  BY <1>3, <1>4, <1>5, <1>6 DEF IInv

LEMMA CountIInv ==
    ASSUME IInv, status = "running", input_left' = input_left - 1,
           input_left > 0, NEW l \in Lines, NEW u \in Outcomes, Count(l, u)
    PROVE  IInv'
<1>1. TypeOK /\ IntervalsAddUp /\ PercentagesInRange /\ Read(l) = "read"
      /\ SetRead(l) /\ Detected(u)
  BY DEF IInv, Count
<1>2. /\ line_count' = line_count + 1 /\ delta_sec' = delta_sec + r_delta_sec'
      /\ expected_counts' = Incremented(expected_counts, expected_num')
      /\ opts' = opts /\ status' = "running"
  BY DEF Count
<1>3. /\ r_sent' \in Lens /\ r_delta_sec' \in Nat
      /\ expected_num' \in Values /\ prev_expected' \in Values \cup {-1}
      /\ all_expected_the_same' \in BOOLEAN
  BY <1>1, ReadIsValue
<1>4. /\ packet_count' \in Nat /\ total_matches' \in Nat
      /\ expected_counts' \in [Values -> Nat]
      /\ packet_counts' \in [Values -> Nat]
      /\ match_counts' \in [Values -> Nat]
      /\ counts' \in [Values -> Nat] /\ error_counts' \in [Values -> Nat]
      /\ num_ties' \in [Values -> Nat] /\ total_edit_dist' \in [Values -> Nat]
      /\ len_count' \in [Lens -> Nat] /\ correct_by_len' \in [Lens -> Nat]
      /\ PercentagesInRange'
  BY <1>1, <1>2, <1>3, DetectedKeeps
<1>5. /\ dt' \in IntervalCounters /\ cumm' \in IntervalCounters
      /\ t_f' \in [Lens -> Nat] /\ cumm_t_f' \in [Lens -> Nat]
  BY <1>1, CountSums
<1>6. TypeOK'
  <2>1. /\ opts' \in Options /\ status' \in {"running"}
        /\ input_left' \in 0 .. MaxLines
        /\ line_count' \in Nat /\ delta_sec' \in Nat
    <3>1. /\ opts \in Options /\ input_left \in 0 .. MaxLines
          /\ line_count \in Nat /\ delta_sec \in Nat
      BY <1>1 DEF TypeOK
    <3>2. /\ opts' \in Options /\ status' \in {"running"}
      BY <1>2, <3>1
    <3>3. input_left' \in 0 .. MaxLines
      <4>1. MaxLines \in Nat /\ input_left' = input_left - 1 /\ input_left > 0
        BY LinesAssumption
      <4>2. QED
        BY <3>1, <4>1
    <3>4. line_count' \in Nat /\ delta_sec' \in Nat
      <4>1. /\ line_count' = line_count + 1 /\ r_delta_sec' \in Nat
            /\ delta_sec' = delta_sec + r_delta_sec'
        BY <1>2, <1>3
      <4>2. line_count \in Nat /\ delta_sec \in Nat
        BY <3>1
      <4>3. \A a, b \in Nat : a + b \in Nat /\ a + 1 \in Nat
        OBVIOUS
      <4>4. QED
        BY <4>1, <4>2, <4>3, Zenon
    <3>5. QED
      BY <3>2, <3>3, <3>4
  <2>2. QED
    BY <1>3, <1>4, <1>5, <2>1 DEF TypeOK
<1>7. IntervalsAddUp'
  <2> DEFINE p == IF u.kind = "packet" THEN 1 ELSE 0
             q == IF u.kind = "none" THEN 0 ELSE 1
  <2>1. /\ cumm'.packets + dt'.packets = cumm.packets + dt.packets + p
        /\ cumm'.per_packet + dt'.per_packet
           = cumm.per_packet + dt.per_packet + q
        /\ cumm'.blockacks + dt'.blockacks = cumm.blockacks + dt.blockacks + 1
        /\ cumm'.rate_gap + dt'.rate_gap
           = cumm.rate_gap + dt.rate_gap + r_delta_sec'
    BY <1>1, CountSums
  <2>2. packet_count' = packet_count + p /\ total_matches' = total_matches + p
    BY <1>1 DEF Detected, TypeOK
  <2>3. /\ cumm \in IntervalCounters /\ dt \in IntervalCounters
        /\ packet_count \in Nat /\ total_matches \in Nat /\ line_count \in Nat
        /\ delta_sec \in Nat
    BY <1>1 DEF TypeOK
  <2>4. p \in {0, 1} /\ q \in {0, 1} /\ p <= q
    OBVIOUS
  <2> HIDE DEF p, q
  <2>5. /\ cumm.blockacks + dt.blockacks = line_count
        /\ cumm.packets + dt.packets = packet_count
        /\ total_matches = packet_count
        /\ cumm.rate_gap + dt.rate_gap = delta_sec
        /\ cumm.per_packet + dt.per_packet \in packet_count .. line_count
    <3>1. Whole = Folded(cumm, dt)
      BY DEF Whole, Folds
    <3>2. QED
      BY <1>1, <3>1, <2>3, FoldedIs DEF IntervalsAddUp
  <2>6. Whole' = Folded(cumm', dt')
    BY <1>2 DEF Whole, Folds
  <2>7. /\ Whole'.blockacks = line_count + 1
        /\ Whole'.packets = packet_count + p
        /\ Whole'.rate_gap = delta_sec + r_delta_sec'
        /\ Whole'.per_packet = cumm.per_packet + dt.per_packet + q
    BY <1>5, <2>1, <2>3, <2>5, <2>6, FoldedIs
  <2>8. cumm.per_packet + dt.per_packet + q
        \in packet_count + p .. line_count + 1
    BY <2>3, <2>4, <2>5
  <2>9. QED
    BY <1>2, <2>2, <2>5, <2>7, <2>8 DEF IntervalsAddUp
<1>8. ExpectedInv'
  BY <1>1, <1>2, ExpectedKeeps
<1>9. QED
  BY <1>4, <1>6, <1>7, <1>8 DEF IInv

LEMMA FinishIInv == ASSUME IInv, Finish PROVE IInv'
<1>1. /\ UNCHANGED <<opts, input_left, reading, totals, per_value, len_count,
                     correct_by_len, dt>>
      /\ status = "running" /\ status' \in {"reported", "crashed"}
  BY DEF Finish, Ends
<1>2. /\ UNCHANGED <<r_sent, r_delta_sec, expected_num, prev_expected,
                     all_expected_the_same>>
      /\ UNCHANGED <<line_count, packet_count, total_matches, delta_sec>>
      /\ UNCHANGED <<expected_counts, packet_counts, match_counts, counts,
                     error_counts, num_ties, total_edit_dist>>
  BY <1>1 DEF reading, totals, per_value
<1>3. /\ cumm \in IntervalCounters /\ dt \in IntervalCounters
      /\ t_f \in [Lens -> Nat] /\ cumm_t_f \in [Lens -> Nat]
  BY DEF IInv, TypeOK
<1>4. \/ /\ Intervals /\ ~opts.quiet_mode
         /\ cumm' = Folded(cumm, dt) /\ cumm_t_f' = FoldedLens(cumm_t_f, t_f)
         /\ t_f' = ClearedLens(t_f)
      \/ /\ ~(Intervals /\ ~opts.quiet_mode)
         /\ UNCHANGED <<cumm, cumm_t_f, t_f>>
  BY DEF Finish
<1>5. /\ cumm' \in IntervalCounters
      /\ t_f' \in [Lens -> Nat] /\ cumm_t_f' \in [Lens -> Nat]
  BY <1>3, <1>4, FoldedIs, FoldedLensType
<1>6. TypeOK'
  BY <1>1, <1>2, <1>5 DEF IInv, TypeOK
<1>7. Whole' = Whole
  BY <1>1, <1>4 DEF Whole, Folds, Intervals
<1>8. IntervalsAddUp'
  BY <1>2, <1>7 DEF IInv, IntervalsAddUp
<1>9. PercentagesInRange'
  BY <1>1, <1>2 DEF IInv, PercentagesInRange
<1>10. ExpectedInv'
  BY <1>1, <1>2, ExpectedUnchanged DEF IInv
<1>11. QED
  BY <1>6, <1>8, <1>9, <1>10 DEF IInv

\* A step that leaves the counters alone, and does not report.
LEMMA StillIInv ==
    ASSUME IInv, UNCHANGED <<opts, reading, counters>>,
           input_left' \in 0 .. MaxLines,
           \/ status' = status
           \/ status = "running" /\ status' \in {"exited", "aborted"}
    PROVE  IInv'
<1>1. /\ UNCHANGED <<r_sent, r_delta_sec, expected_num, prev_expected,
                     all_expected_the_same>>
      /\ UNCHANGED <<line_count, packet_count, total_matches, delta_sec>>
      /\ UNCHANGED <<expected_counts, packet_counts, match_counts, counts,
                     error_counts, num_ties, total_edit_dist>>
      /\ UNCHANGED <<len_count, correct_by_len, t_f, cumm_t_f, dt, cumm, opts>>
  BY DEF reading, counters, totals, per_value, per_len
<1>2. TypeOK'
  BY <1>1 DEF IInv, TypeOK
<1>3. Whole' = Whole
  BY <1>1 DEF Whole, Folds, Intervals
<1>4. IntervalsAddUp'
  BY <1>1, <1>3 DEF IInv, IntervalsAddUp
<1>5. PercentagesInRange'
  BY <1>1 DEF IInv, PercentagesInRange
<1>6. ExpectedInv'
  BY <1>1, ExpectedUnchanged DEF IInv
<1>7. QED
  BY <1>2, <1>4, <1>5, <1>6 DEF IInv

LEMMA NextIInv == IInv /\ [Next]_vars => IInv'
<1> SUFFICES ASSUME IInv, [Next]_vars PROVE IInv'
  OBVIOUS
<1>1. input_left \in 0 .. MaxLines /\ MaxLines \in Nat
  BY LinesAssumption DEF IInv, TypeOK
<1>2. CASE Line
  <2>1. /\ input_left > 0 /\ input_left' = input_left - 1
        /\ status = "running"
    BY <1>2 DEF Line
  <2>2. input_left' \in 0 .. MaxLines
    BY <1>1, <2>1
  <2>3. PICK l \in Lines : \/ Skip(l) \/ Refuse(l)
                           \/ \E u \in Outcomes : Count(l, u)
    BY <1>2 DEF Line
  <2>4. CASE Skip(l)
    BY <2>2, <2>4, StillIInv DEF Skip
  <2>5. CASE Refuse(l)
    BY <2>1, <2>2, <2>5, StillIInv DEF Refuse
  <2>6. CASE \E u \in Outcomes : Count(l, u)
    BY <2>1, <2>6, CountIInv
  <2>7. QED
    BY <2>3, <2>4, <2>5, <2>6
<1>3. CASE Finish
  BY <1>3, FinishIInv
<1>4. CASE UNCHANGED vars
  <2>1. UNCHANGED <<opts, status, input_left, reading, counters>>
    BY <1>4 DEF vars
  <2>2. input_left' \in 0 .. MaxLines
    BY <1>1, <2>1
  <2>3. QED
    BY <2>1, <2>2, StillIInv
<1>5. QED
  BY <1>2, <1>3, <1>4 DEF Next

LEMMA ReportInvariant == Spec => []IInv
<1>1. Init => IInv
  BY InitIInv
<1>2. IInv /\ [Next]_vars => IInv'
  BY NextIInv
<1>3. QED
  BY <1>1, <1>2, PTL DEF Spec

-----------------------------------------------------------------------------
(* Theorems.                                                                *)

\* Every counter of decode stays in its range, whatever the input.
THEOREM ReportTypes == Spec => []TypeOK
<1>1. IInv => TypeOK
  BY DEF IInv
<1>2. QED
  BY <1>1, ReportInvariant, PTL

\* The intervals of -R lose and repeat nothing (decode-algs.c:214-232,
\* decode.c:605-613), for every threshold and every order of packets and lines.
THEOREM IntervalsSum == Spec => []IntervalsAddUp
<1>1. IInv => IntervalsAddUp
  BY DEF IInv
<1>2. QED
  BY <1>1, ReportInvariant, PTL

\* The columns of the report agree and no percentage is over 100
\* (decode.c:646-677).
THEOREM ReportColumns == Spec => []PercentagesInRange
<1>1. IInv => PercentagesInRange
  BY DEF IInv
<1>2. QED
  BY <1>1, ReportInvariant, PTL

\* The report names an expected value exactly when all the lines have it
\* (decode.c:303-310, 711-715).
THEOREM OneValueExpected == Spec => []AllExpectedAreOne
<1>1. IInv => AllExpectedAreOne
  <2> SUFFICES ASSUME IInv PROVE AllExpectedAreOne
    OBVIOUS
  <2>1. /\ expected_num \in Values /\ all_expected_the_same \in BOOLEAN
        /\ line_count \in Nat /\ expected_counts[expected_num] \in Nat
    BY DEF IInv, TypeOK
  <2>2. QED
    BY <2>1 DEF IInv, ExpectedInv, AllExpectedAreOne
<1>2. QED
  BY <1>1, ReportInvariant, PTL

-----------------------------------------------------------------------------
(* The histograms.                                                          *)

LEMMA FiniteDomains == IsFiniteSet(Values) /\ IsFiniteSet(Lens)
BY FS_Interval, ValuesAssumption, LengthAssumption DEF Values, Lens

\* A count more at one place makes the sum one more.
LEMMA IncrementedSum ==
    ASSUME NEW S, IsFiniteSet(S), NEW f \in [S -> Nat], NEW x \in S
    PROVE  /\ SumFunction(Incremented(f, x)) = SumFunction(f) + 1
           /\ SumFunction(f) \in Int
BY SumOneMore DEF Incremented

\* The lengths of the A-MPDUs so far, and these weighted.
Frequencies == [n \in Lens |-> Frequency(n)]
Weights     == [n \in Lens |-> n * Frequency(n)]

LEMMA FrequencyType ==
    ASSUME TypeOK
    PROVE  Frequencies \in [Lens -> Nat] /\ Weights \in [Lens -> Nat]
<1>1. ASSUME NEW n \in Lens PROVE n \in Nat /\ Frequency(n) \in Nat
  <2>1. n \in Nat
    BY LengthAssumption DEF Lens
  <2>2. t_f \in [Lens -> Nat] /\ cumm_t_f \in [Lens -> Nat]
    BY DEF TypeOK
  <2>3. t_f[n] \in Nat /\ cumm_t_f[n] \in Nat
    BY <2>2
  <2> QED
    BY <2>1, <2>3 DEF Frequency
<1>2. \A n \in Lens : n * Frequency(n) \in Nat
  <2>1. \A a, b \in Nat : a * b \in Nat
    OBVIOUS
  <2> QED
    BY <1>1, <2>1
<1> QED
  BY <1>1, <1>2 DEF Frequencies, Weights

\* The end of an interval moves the lengths from t_f to cumm_t_f.
LEMMA IntervalMoves ==
    ASSUME TypeOK, NEW now \in IntervalCounters, NEW fs \in [Lens -> Nat],
           NEW kind, Interval(now, fs, kind)
    PROVE  /\ \A n \in Lens : t_f'[n] + cumm_t_f'[n] = fs[n] + cumm_t_f[n]
           /\ cumm'.ampdu_len + dt'.ampdu_len = cumm.ampdu_len + now.ampdu_len
           /\ cumm'.len_one + dt'.len_one = cumm.len_one + now.len_one
<1>1. cumm \in IntervalCounters /\ cumm_t_f \in [Lens -> Nat]
  BY DEF TypeOK
<1>2. CASE kind = "packet" /\ now.rate_gap >= opts.rate_gap_thold
  <2>1. /\ cumm' = Folded(cumm, now) /\ dt' = NoInterval
        /\ cumm_t_f' = FoldedLens(cumm_t_f, fs) /\ t_f' = ClearedLens(fs)
    BY <1>2 DEF Interval
  <2>2. \A n \in Lens : t_f'[n] + cumm_t_f'[n] = fs[n] + cumm_t_f[n]
    BY <1>1, <2>1 DEF FoldedLens, ClearedLens
  <2>3. /\ cumm'.ampdu_len = cumm.ampdu_len + now.ampdu_len
        /\ cumm'.len_one = cumm.len_one + now.len_one
        /\ dt'.ampdu_len = 0 /\ dt'.len_one = 0
    BY <2>1 DEF Folded, NoInterval
  <2>4. /\ cumm.ampdu_len + now.ampdu_len \in Nat
        /\ cumm.len_one + now.len_one \in Nat
    BY <1>1 DEF IntervalCounters
  <2> QED
    BY <2>2, <2>3, <2>4
<1>3. CASE ~(kind = "packet" /\ now.rate_gap >= opts.rate_gap_thold)
  BY <1>1, <1>3 DEF Interval
<1> QED
  BY <1>2, <1>3

\* A line of r_sent' MPDUs is one more of that length.
LEMMA LineAdds ==
    ASSUME TypeOK, NEW l \in Lines, NEW u \in Outcomes, Count(l, u)
    PROVE  /\ r_sent' \in Lens /\ r_sent' \in Nat
           /\ Frequencies' = Incremented(Frequencies, r_sent')
           /\ cumm'.ampdu_len + dt'.ampdu_len
                 = cumm.ampdu_len + dt.ampdu_len + r_sent'
           /\ cumm'.len_one + dt'.len_one
                 = cumm.len_one + dt.len_one
                      + (IF r_sent' = opts.max_mpdus_p_ampdu THEN 1 ELSE 0)
<1> DEFINE now == Counted(r_sent', r_delta_sec', u.kind)
           fs  == Incremented(t_f, r_sent')
           x   == r_sent'
           one == IF x = opts.max_mpdus_p_ampdu THEN 1 ELSE 0
<1>1. x \in Lens /\ x \in Nat /\ r_delta_sec' \in Nat
  BY ReadIsValue, LengthAssumption DEF Count, Lens
<1>2. /\ now \in IntervalCounters
      /\ now.ampdu_len = dt.ampdu_len + x
      /\ now.len_one = dt.len_one + one
  <2>1. now \in IntervalCounters
    BY <1>1, CountedIs
  <2> QED
    BY <2>1 DEF Counted
<1>3. /\ fs \in [Lens -> Nat] /\ t_f \in [Lens -> Nat] /\ cumm_t_f \in [Lens -> Nat]
      /\ fs[x] = t_f[x] + 1 /\ \A n \in Lens : n # x => fs[n] = t_f[n]
  <2>1. t_f \in [Lens -> Nat] /\ cumm_t_f \in [Lens -> Nat]
    BY DEF TypeOK
  <2> QED
    BY <1>1, <2>1, IncrementedIs
<1>4. Interval(now, fs, u.kind)
  BY DEF Count
<1>5. one \in Nat
  OBVIOUS
<1> HIDE DEF now, fs
<1>6. /\ \A n \in Lens : t_f'[n] + cumm_t_f'[n] = fs[n] + cumm_t_f[n]
      /\ cumm'.ampdu_len + dt'.ampdu_len = cumm.ampdu_len + now.ampdu_len
      /\ cumm'.len_one + dt'.len_one = cumm.len_one + now.len_one
  BY <1>2, <1>3, <1>4, IntervalMoves
<1>7. /\ dt.ampdu_len \in Nat /\ dt.len_one \in Nat
      /\ cumm.ampdu_len \in Nat /\ cumm.len_one \in Nat
  BY DEF TypeOK, IntervalCounters
<1> HIDE DEF one
<1>8. /\ cumm'.ampdu_len + dt'.ampdu_len = cumm.ampdu_len + dt.ampdu_len + x
      /\ cumm'.len_one + dt'.len_one = cumm.len_one + dt.len_one + one
  BY <1>1, <1>2, <1>5, <1>6, <1>7
<1>9. Frequencies' = Incremented(Frequencies, x)
  <2> HIDE DEF x
  <2>1. \A n \in Lens : t_f[n] \in Nat /\ cumm_t_f[n] \in Nat /\ fs[n] \in Nat
    BY <1>3
  <2>2. \A n \in Lens : t_f'[n] + cumm_t_f'[n]
                           = IF n = x THEN (t_f[n] + cumm_t_f[n]) + 1
                             ELSE t_f[n] + cumm_t_f[n]
    BY <1>3, <1>6, <2>1
  <2>3. Incremented(Frequencies, x) =
           [n \in Lens |-> IF n = x THEN (t_f[n] + cumm_t_f[n]) + 1
                           ELSE t_f[n] + cumm_t_f[n]]
    BY <1>1 DEF Incremented, Frequencies, Frequency
  <2>4. Frequencies' = [n \in Lens |-> t_f'[n] + cumm_t_f'[n]]
    BY DEF Frequencies, Frequency
  <2> QED
    BY <2>2, <2>3, <2>4
<1> QED
  BY <1>1, <1>8, <1>9 DEF x, one

\* What Detected adds to the histograms.
LEMMA DetectedSums ==
    ASSUME IInv, IInv', HistogramsAddUp, NEW l \in Lines, NEW u \in Outcomes, Count(l, u)
    PROVE  /\ SumFunction(expected_counts') = line_count'
           /\ SumFunction(packet_counts') = packet_count'
           /\ SumFunction(match_counts') = total_matches'
           /\ SumFunction(len_count') = packet_count'
           /\ SumFunction(correct_by_len') = SumFunction(counts')
<1>1. /\ u.num \in Values /\ u.len \in Lens /\ expected_num' \in Values
      /\ IsFiniteSet(Values) /\ IsFiniteSet(Lens)
  BY FiniteDomains, OutcomesAssumption DEF IInv, TypeOK
<1>2. /\ expected_counts \in [Values -> Nat] /\ packet_counts \in [Values -> Nat]
      /\ match_counts \in [Values -> Nat] /\ counts \in [Values -> Nat]
      /\ len_count \in [Lens -> Nat] /\ correct_by_len \in [Lens -> Nat]
      /\ line_count \in Nat /\ packet_count \in Nat /\ total_matches \in Nat
  BY DEF IInv, TypeOK
<1>3. /\ SumFunction(expected_counts) = line_count
      /\ SumFunction(packet_counts) = packet_count
      /\ SumFunction(match_counts) = total_matches
      /\ SumFunction(len_count) = packet_count
      /\ SumFunction(correct_by_len) = SumFunction(counts)
  BY DEF HistogramsAddUp
<1>4. SumFunction(expected_counts') = line_count'
  <2>1. expected_counts' = Incremented(expected_counts, expected_num')
        /\ line_count' = line_count + 1
    BY DEF Count
  <2> QED
    BY <1>1, <1>2, <1>3, <2>1, IncrementedSum
<1>5. CASE u.kind # "packet"
  <2>1. UNCHANGED <<packet_counts, packet_count, total_matches, match_counts,
                    counts, len_count, correct_by_len>>
    BY <1>5 DEF Count, Detected
  <2> QED
    BY <1>3, <1>4, <2>1
<1>6. CASE u.kind = "packet"
  <2>1. /\ packet_counts' = Incremented(packet_counts, expected_num')
        /\ packet_count' = packet_count + 1
        /\ len_count' = Incremented(len_count, u.len)
        /\ match_counts' = Incremented(match_counts, u.num)
        /\ total_matches' = total_matches + 1
        /\ \/ /\ counts' = Incremented(counts, u.num)
              /\ correct_by_len' = Incremented(correct_by_len, u.len)
           \/ UNCHANGED <<counts, correct_by_len>>
    BY <1>6 DEF Count, Detected
  <2>2. SumFunction(packet_counts') = packet_count'
    BY <1>1, <1>2, <1>3, <2>1, IncrementedSum
  <2>3. SumFunction(match_counts') = total_matches'
    BY <1>1, <1>2, <1>3, <2>1, IncrementedSum
  <2>4. SumFunction(len_count') = packet_count'
    BY <1>1, <1>2, <1>3, <2>1, IncrementedSum
  <2>5. CASE UNCHANGED <<counts, correct_by_len>>
    BY <1>3, <1>4, <2>2, <2>3, <2>4, <2>5
  <2>6. CASE /\ counts' = Incremented(counts, u.num)
             /\ correct_by_len' = Incremented(correct_by_len, u.len)
    <3>1. SumFunction(counts') = SumFunction(counts) + 1
      BY <1>1, <1>2, <2>6, IncrementedSum
    <3>2. SumFunction(correct_by_len') = SumFunction(correct_by_len) + 1
      BY <1>1, <1>2, <2>6, IncrementedSum
    <3> QED
      BY <1>3, <1>4, <2>2, <2>3, <2>4, <3>1, <3>2
  <2> QED
    BY <2>1, <2>5, <2>6
<1> QED
  BY <1>5, <1>6

LEMMA CountHistograms ==
    ASSUME IInv, IInv', HistogramsAddUp, status = "running",
           NEW l \in Lines, NEW u \in Outcomes, Count(l, u)
    PROVE  HistogramsAddUp'
<1> DEFINE x == r_sent'
           m == opts.max_mpdus_p_ampdu
           one == IF x = m THEN 1 ELSE 0
<1>1. /\ TypeOK /\ TypeOK' /\ opts' = opts /\ status' = "running"
      /\ line_count' = line_count + 1
  BY DEF IInv, Count
<1>2. /\ x \in Lens /\ x \in Nat
      /\ Frequencies' = Incremented(Frequencies, x)
      /\ cumm'.ampdu_len + dt'.ampdu_len = cumm.ampdu_len + dt.ampdu_len + x
      /\ cumm'.len_one + dt'.len_one = cumm.len_one + dt.len_one + one
  BY <1>1, LineAdds
<1>3. /\ Frequencies \in [Lens -> Nat] /\ Frequencies' \in [Lens -> Nat]
      /\ Weights \in [Lens -> Nat] /\ Weights' \in [Lens -> Nat]
      /\ IsFiniteSet(Lens) /\ line_count \in Nat
  <2>1. Frequencies \in [Lens -> Nat] /\ Weights \in [Lens -> Nat]
    BY <1>1, FrequencyType
  <2>2. Frequencies' \in [Lens -> Nat]
    BY <1>2, <2>1, IncrementedIs
  <2>3. Weights' \in [Lens -> Nat]
    <3>1. \A n \in Lens : n \in Nat /\ Frequencies'[n] \in Nat
      BY <2>2, LengthAssumption DEF Lens
    <3>2. \A a, b \in Nat : a * b \in Nat
      OBVIOUS
    <3>3. \A n \in Lens : n * Frequencies'[n] \in Nat
      BY <3>1, <3>2
    <3>4. Weights' = [n \in Lens |-> n * Frequencies'[n]]
      BY DEF Weights, Frequencies
    <3> QED
      BY <3>3, <3>4
  <2> QED
    BY <1>1, <2>1, <2>2, <2>3, FiniteDomains DEF TypeOK
<1>4. /\ SumFunction(Frequencies) = line_count
      /\ SumFunction(Weights) = Whole.ampdu_len
      /\ Whole.len_one = IF m \in Lens THEN Frequency(m) ELSE 0
  BY DEF HistogramsAddUp, Frequencies, Weights
<1>5. /\ Frequencies'[x] = Frequencies[x] + 1
      /\ \A n \in Lens : n # x => Frequencies'[n] = Frequencies[n]
  <2>1. Frequencies \in [Lens -> Nat] /\ x \in Lens
    BY <1>2, <1>3
  <2> HIDE DEF x
  <2>2. /\ Incremented(Frequencies, x)[x] = Frequencies[x] + 1
        /\ \A n \in Lens : n # x => Incremented(Frequencies, x)[n] = Frequencies[n]
    BY <2>1, IncrementedIs
  <2>3. Frequencies' = Incremented(Frequencies, x)
    BY <1>2 DEF x
  <2> QED
    BY <2>2, <2>3
<1>6. /\ \A n \in Lens : Frequencies[n] = Frequency(n) 
      /\ \A n \in Lens : Weights[n] = n * Frequencies[n] /\ Weights'[n] = n * Frequencies'[n]
  BY DEF Frequencies, Weights
<1>7. /\ Whole.ampdu_len = cumm.ampdu_len + dt.ampdu_len
      /\ Whole.len_one = cumm.len_one + dt.len_one
      /\ Whole'.ampdu_len = cumm'.ampdu_len + dt'.ampdu_len
      /\ Whole'.len_one = cumm'.len_one + dt'.len_one
  BY <1>1 DEF Whole, Folds, Folded
<1>8. /\ cumm.ampdu_len + dt.ampdu_len \in Nat /\ cumm.len_one + dt.len_one \in Nat
  BY <1>1 DEF TypeOK, IntervalCounters
<1>9. SumFunction(Frequencies') = line_count'
  BY <1>1, <1>2, <1>3, <1>4, IncrementedSum
<1> HIDE DEF x, m, one
<1>10. SumFunction(Weights') = Whole'.ampdu_len
  <2>1. SameBut(Weights, Weights', Lens, x)
    BY <1>5, <1>6 DEF SameBut
  <2>2. Weights'[x] = Weights[x] + x
    <3>1. Weights'[x] = x * (Frequencies[x] + 1) /\ Weights[x] = x * Frequencies[x]
      BY <1>2, <1>5, <1>6
    <3>2. Frequencies[x] \in Nat
      BY <1>2, <1>3
    <3>3. \A a, b \in Nat : a * (b + 1) = a * b + a
      OBVIOUS
    <3> QED
      BY <1>2, <3>1, <3>2, <3>3
  <2>3. Weights \in [Lens -> Int] /\ Weights' \in [Lens -> Int] /\ Weights[x] \in Int
    BY <1>2, <1>3
  <2>4. /\ SumFunction(Weights') = SumFunction(Weights) - Weights[x] + Weights'[x]
        /\ SumFunction(Weights) \in Int
    BY <1>2, <1>3, <2>1, <2>3, SumChanges
  <2>5. SumFunction(Weights') = SumFunction(Weights) + x
    BY <1>2, <2>2, <2>3, <2>4
  <2> QED
    BY <1>2, <1>4, <1>7, <2>5
<1>11. Whole'.len_one = IF m \in Lens THEN Frequencies'[m] ELSE 0
  <2>1. Whole'.len_one = Whole.len_one + one
    BY <1>2, <1>7
  <2>2. CASE m \in Lens
    <3>1. Frequencies'[m] = Frequency(m) + one
      <4>1. CASE m = x
        BY <1>5, <1>6, <2>2, <4>1 DEF one
      <4>2. CASE m # x
        <5>1. Frequencies'[m] = Frequency(m) /\ Frequency(m) \in Nat
          BY <1>3, <1>5, <1>6, <2>2, <4>2
        <5> QED
          BY <4>2, <5>1 DEF one
      <4> QED
        BY <4>1, <4>2
    <3> QED
      BY <1>4, <2>1, <2>2, <3>1
  <2>3. CASE m \notin Lens
    BY <1>2, <1>4, <2>1, <2>3 DEF one
  <2> QED
    BY <2>2, <2>3
<1>12. /\ SumFunction(expected_counts') = line_count'
       /\ SumFunction(packet_counts') = packet_count'
       /\ SumFunction(match_counts') = total_matches'
       /\ SumFunction(len_count') = packet_count'
       /\ SumFunction(correct_by_len') = SumFunction(counts')
  BY DetectedSums
<1>13. opts'.max_mpdus_p_ampdu = m
  BY <1>1 DEF m
<1> QED
  BY <1>9, <1>10, <1>11, <1>12, <1>13
     DEF HistogramsAddUp, Frequencies, Weights, Frequency

\* The histograms depend on these alone.
LEMMA HistogramsUnchanged ==
    ASSUME HistogramsAddUp, Frequencies' = Frequencies, Whole' = Whole,
           UNCHANGED <<opts, line_count, packet_count, total_matches,
                       expected_counts, packet_counts, match_counts, counts,
                       len_count, correct_by_len>>
    PROVE  HistogramsAddUp'
<1>1. /\ SumFunction(Frequencies) = line_count
      /\ SumFunction([n \in Lens |-> n * Frequencies[n]]) = Whole.ampdu_len
      /\ Whole.len_one = IF opts.max_mpdus_p_ampdu \in Lens
                         THEN Frequencies[opts.max_mpdus_p_ampdu] ELSE 0
  <2>1. /\ \A n \in Lens : Frequencies[n] = Frequency(n)
        /\ [n \in Lens |-> n * Frequency(n)] = [n \in Lens |-> n * Frequencies[n]]
    BY DEF Frequencies
  <2> QED
    BY <2>1 DEF HistogramsAddUp, Frequencies
<1>2. /\ Frequencies' = [n \in Lens |-> t_f'[n] + cumm_t_f'[n]]
      /\ \A n \in Lens : Frequencies'[n] = t_f'[n] + cumm_t_f'[n]
  BY DEF Frequencies, Frequency
<1>3. [n \in Lens |-> n * (t_f'[n] + cumm_t_f'[n])] = [n \in Lens |-> n * Frequencies[n]]
  BY <1>2
<1>4. /\ SumFunction([n \in Lens |-> t_f'[n] + cumm_t_f'[n]]) = line_count'
      /\ SumFunction([n \in Lens |-> n * (t_f'[n] + cumm_t_f'[n])]) = Whole'.ampdu_len
      /\ Whole'.len_one = IF opts'.max_mpdus_p_ampdu \in Lens
                          THEN t_f'[opts'.max_mpdus_p_ampdu]
                                  + cumm_t_f'[opts'.max_mpdus_p_ampdu]
                          ELSE 0
  BY <1>1, <1>2, <1>3
<1> QED
  BY <1>4 DEF HistogramsAddUp, Frequency

LEMMA FinishHistograms ==
    ASSUME IInv, HistogramsAddUp, Finish PROVE HistogramsAddUp'
<1>1. /\ UNCHANGED <<opts, input_left, reading, totals, per_value, len_count,
                     correct_by_len, dt>>
      /\ status = "running" /\ status' \in {"reported", "crashed"}
  BY DEF Finish, Ends
<1>2. UNCHANGED <<opts, line_count, packet_count, total_matches,
                  expected_counts, packet_counts, match_counts, counts,
                  len_count, correct_by_len>>
  BY <1>1 DEF totals, per_value
<1>3. \/ /\ Intervals /\ ~opts.quiet_mode
         /\ cumm' = Folded(cumm, dt) /\ cumm_t_f' = FoldedLens(cumm_t_f, t_f)
         /\ t_f' = ClearedLens(t_f)
      \/ /\ ~(Intervals /\ ~opts.quiet_mode)
         /\ UNCHANGED <<cumm, cumm_t_f, t_f>>
  BY DEF Finish
<1>4. Whole' = Whole
  BY <1>1, <1>3 DEF Whole, Folds, Intervals
<1>5. t_f \in [Lens -> Nat] /\ cumm_t_f \in [Lens -> Nat]
  BY DEF IInv, TypeOK
<1>6. \A n \in Lens : t_f'[n] + cumm_t_f'[n] = t_f[n] + cumm_t_f[n]
  BY <1>3, <1>5 DEF FoldedLens, ClearedLens
<1>7. Frequencies' = Frequencies
  BY <1>6 DEF Frequencies, Frequency
<1> QED
  BY <1>2, <1>4, <1>7, HistogramsUnchanged

LEMMA InitHistograms == ASSUME Init PROVE HistogramsAddUp
<1>1. IsFiniteSet(Values) /\ IsFiniteSet(Lens)
  BY FiniteDomains
<1>2. /\ Frequencies \in [Lens -> Int] /\ \A n \in Lens : Frequencies[n] = 0
      /\ Weights \in [Lens -> Int] /\ \A n \in Lens : Weights[n] = 0
  <2>1. \A n \in Lens : Frequency(n) = 0
    BY DEF Init, Zero, Frequency
  <2>2. \A n \in Lens : n \in Nat
    BY LengthAssumption DEF Lens
  <2>3. \A n \in Lens : n * Frequency(n) = 0
    BY <2>1, <2>2
  <2> QED
    BY <2>1, <2>3 DEF Frequencies, Weights
<1>3. SumFunction(Frequencies) = 0 /\ SumFunction(Weights) = 0
  BY <1>1, <1>2, SumOfZeros
<1>4. /\ Zero(Values) \in [Values -> Int] /\ \A v \in Values : Zero(Values)[v] = 0
      /\ Zero(Lens) \in [Lens -> Int] /\ \A n \in Lens : Zero(Lens)[n] = 0
  BY DEF Zero
<1>5. SumFunction(Zero(Values)) = 0 /\ SumFunction(Zero(Lens)) = 0
  BY <1>1, <1>4, SumOfZeros
<1>6. Whole.ampdu_len = 0 /\ Whole.len_one = 0
  BY DEF Init, Whole, Folds, Folded, NoInterval
<1>7. opts.max_mpdus_p_ampdu \in Lens => Frequency(opts.max_mpdus_p_ampdu) = 0
  BY DEF Init, Zero, Frequency
<1>8. /\ expected_counts = Zero(Values) /\ packet_counts = Zero(Values)
      /\ match_counts = Zero(Values) /\ counts = Zero(Values)
      /\ len_count = Zero(Lens) /\ correct_by_len = Zero(Lens)
      /\ line_count = 0 /\ packet_count = 0 /\ total_matches = 0
  BY DEF Init
<1> QED
  BY <1>3, <1>5, <1>6, <1>7, <1>8 DEF HistogramsAddUp, Frequencies, Weights

LEMMA StillHistograms ==
    ASSUME HistogramsAddUp, UNCHANGED <<opts, reading, counters>>,
           \/ status' = status
           \/ status = "running" /\ status' \in {"exited", "aborted"}
    PROVE  HistogramsAddUp'
<1>1. /\ UNCHANGED <<line_count, packet_count, total_matches, delta_sec>>
      /\ UNCHANGED <<expected_counts, packet_counts, match_counts, counts,
                     error_counts, num_ties, total_edit_dist>>
      /\ UNCHANGED <<len_count, correct_by_len, t_f, cumm_t_f, dt, cumm, opts>>
  BY DEF counters, totals, per_value, per_len
<1>2. Whole' = Whole
  BY <1>1 DEF Whole, Folds, Intervals
<1>3. Frequencies' = Frequencies
  BY <1>1 DEF Frequencies, Frequency
<1> QED
  BY <1>1, <1>2, <1>3, HistogramsUnchanged

\* Every histogram of the report holds every line, or packet, once
\* (decode.c:379 and 614-620, decode-algs.c:192-198), whatever the order of the
\* lines, the ends of the intervals and the lengths of the tables.
THEOREM HistogramsSum == Spec => []HistogramsAddUp
<1>1. Init => HistogramsAddUp
  BY InitHistograms
<1>2. IInv /\ IInv' /\ HistogramsAddUp /\ [Next]_vars => HistogramsAddUp'
  <2> SUFFICES ASSUME IInv, IInv', HistogramsAddUp, [Next]_vars
               PROVE  HistogramsAddUp'
    OBVIOUS
  <2>1. CASE Line
    <3>1. status = "running"
      BY <2>1 DEF Line
    <3>2. PICK l \in Lines : \/ Skip(l) \/ Refuse(l)
                             \/ \E u \in Outcomes : Count(l, u)
      BY <2>1 DEF Line
    <3>3. CASE Skip(l)
      BY <3>3, StillHistograms DEF Skip
    <3>4. CASE Refuse(l)
      BY <3>1, <3>4, StillHistograms DEF Refuse
    <3>5. CASE \E u \in Outcomes : Count(l, u)
      BY <3>1, <3>5, CountHistograms
    <3> QED
      BY <3>2, <3>3, <3>4, <3>5
  <2>2. CASE Finish
    BY <2>2, FinishHistograms
  <2>3. CASE UNCHANGED vars
    BY <2>3, StillHistograms DEF vars
  <2> QED
    BY <2>1, <2>2, <2>3 DEF Next
<1> QED
  BY <1>1, <1>2, ReportInvariant, PTL DEF Spec

-----------------------------------------------------------------------------
(* The end.                                                                 *)

\* decode divides by 0 of an empty input only, or reads before the names with
\* -k and no expected value (decode.c:679-683, 807).
THEOREM CrashesOnlyWhenEmpty == Spec => []CrashesWhenEmpty
<1>1. Init => CrashesWhenEmpty
  BY DEF Init, CrashesWhenEmpty
<1>2. IInv /\ CrashesWhenEmpty /\ [Next]_vars => CrashesWhenEmpty'
  <2> SUFFICES ASSUME IInv, CrashesWhenEmpty, [Next]_vars
               PROVE  CrashesWhenEmpty'
    OBVIOUS
  <2>1. CASE Line
    <3>1. status' # "crashed"
      BY <2>1 DEF Line, Skip, Refuse, Count
    <3> QED
      BY <3>1 DEF CrashesWhenEmpty
  <2>2. CASE Finish
    <3>1. /\ opts' = opts /\ line_count' = line_count
          /\ status = "running" /\ status' \in Ends
      BY <2>2 DEF Finish, totals
    <3>2. CASE DividesByZero /\ ~opts.quiet_mode
      <4>1. cumm' = Folded(cumm, dt) /\ cumm'.blockacks = 0
        BY <2>2, <3>2 DEF Finish, DividesByZero
      <4>2. Whole = cumm'
        BY <3>1, <4>1 DEF Whole, Folds
      <4>3. line_count = 0
        BY <4>1, <4>2 DEF IInv, IntervalsAddUp
      <4> QED
        BY <3>1, <4>3 DEF CrashesWhenEmpty
    <3>3. CASE ~(DividesByZero /\ ~opts.quiet_mode)
      <4>1. status' = "crashed" => ReadsBeforeNames
        BY <3>1, <3>3 DEF Ends
      <4> QED
        BY <3>1, <4>1 DEF CrashesWhenEmpty, ReadsBeforeNames
    <3> QED
      BY <3>2, <3>3
  <2>3. CASE UNCHANGED vars
    BY <2>3 DEF vars, totals, counters, CrashesWhenEmpty, ReadsBeforeNames
  <2> QED
    BY <2>1, <2>2, <2>3 DEF Next
<1> QED
  BY <1>1, <1>2, ReportInvariant, PTL DEF Spec
===============================================================================
