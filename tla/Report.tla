--------------------------------- MODULE Report -------------------------------
(***************************************************************************)
(* What decode counts of its input: the reading of a line in one of its    *)
(* formats (decode.c:273-373), the counters of main (decode.c:375-464),    *)
(* those of a decoded packet with the interval statistics of -R            *)
(* (decode-algs.c:153-281), and the report (decode.c:585-820).             *)
(*                                                                         *)
(* What is_packet (PacketFilter) and the loop of detect_with_lev (Decoder) *)
(* make of a bitmap is an outcome here, any that they may have: no         *)
(* regular expression matches ("none"), one does but a filter rejects the  *)
(* bitmap ("match"), or it is a packet, of len bits, that is decoded to    *)
(* num.  The bitmap is left out, the name of a value is the value, and     *)
(* times are integers.                                                     *)
(***************************************************************************)
EXTENDS Integers, Functions

CONSTANTS
    Options,      \* the options decode may be started with
    Lines,        \* the lines the input may hold
    Outcomes,     \* what may become of a bitmap
    num_values,   \* the values are 0 .. num_values - 1
    NoName,       \* an expected string that is no value's
    AMPDU_LEN,    \* the length of the tables
    Len32, Len64, \* the two lengths of -N that have formats: 32 and 64
    MaxLines      \* bound of the model: the lines of the input

Values == 0 .. num_values - 1
Lens   == 0 .. AMPDU_LEN

INT_MAX == 2147483647

\* -e and -E, -N, -R, -k, -v and -q.  process_options refuses an expected
\* value when the input has its own.
LegalOptions ==
    {o \in [expected_in_file : BOOLEAN, expected_value : {-1} \cup Values,
            max_mpdus_p_ampdu : Nat, rate_gap_thold : 0 .. INT_MAX,
            print_bit_error_rate : BOOLEAN, quiet_mode : BOOLEAN] :
        o.expected_in_file => o.expected_value = -1}

ASSUME ValuesAssumption   == num_values \in Nat \ {0} /\ NoName \notin Values
ASSUME LengthAssumption   == AMPDU_LEN \in Nat \ {0}
ASSUME OptionsAssumption  == Options \subseteq LegalOptions
ASSUME LinesAssumption ==
    /\ MaxLines \in Nat
    /\ Lines \subseteq [fields : Nat, expected : Values \cup {NoName},
                        sent : Lens, sec : Nat]
ASSUME OutcomesAssumption ==
    Outcomes \subseteq [kind : {"none", "match", "packet"}, len : Lens,
                        num : Values, ties : Nat, dist : Nat]

VARIABLES
    opts, status,     \* "running", "exited", "aborted", "reported", or
                      \* "crashed" by a division by 0
    input_left,       \* the lines of the input that are not read
    r_sent, r_delta_sec,           \* 0: the empty string
    expected_num, prev_expected, all_expected_the_same,
    line_count, packet_count, total_matches, delta_sec,
    expected_counts, packet_counts, match_counts, counts, error_counts,
    num_ties, total_edit_dist,
    len_count, correct_by_len,
    t_f, cumm_t_f,    \* by the length: index n is t_f[n - 1] of the code, so
                      \* that 0 is the int before the array
    dt, cumm          \* the counters dt_... and delta_..., and cumm_...

reading  == <<r_sent, r_delta_sec, expected_num, prev_expected,
              all_expected_the_same>>
per_value == <<expected_counts, packet_counts, match_counts, counts,
               error_counts, num_ties, total_edit_dist>>
per_len  == <<len_count, correct_by_len, t_f, cumm_t_f>>
totals   == <<line_count, packet_count, total_matches, delta_sec>>
counters == <<totals, per_value, per_len, dt, cumm>>
vars     == <<opts, status, input_left, reading, counters>>

Zero(S) == [x \in S |-> 0]
NoInterval == [packets |-> 0, per_packet |-> 0, blockacks |-> 0,
               rate_gap |-> 0, ampdu_len |-> 0, len_one |-> 0]

Init ==
    /\ opts \in Options
    /\ status = "running"
    /\ input_left \in 0 .. MaxLines
    /\ r_sent = 0 /\ r_delta_sec = 0
    /\ expected_num = 0 /\ prev_expected = -1
    /\ all_expected_the_same = TRUE
    /\ line_count = 0 /\ packet_count = 0 /\ total_matches = 0
    /\ delta_sec = 0
    /\ expected_counts = Zero(Values) /\ packet_counts = Zero(Values)
    /\ match_counts = Zero(Values)
    /\ counts = Zero(Values) /\ error_counts = Zero(Values)
    /\ num_ties = Zero(Values) /\ total_edit_dist = Zero(Values)
    /\ len_count = Zero(Lens) /\ correct_by_len = Zero(Lens)
    /\ t_f = Zero(Lens) /\ cumm_t_f = Zero(Lens)
    /\ dt = NoInterval /\ cumm = NoInterval

-----------------------------------------------------------------------------
(* Plausible slips, kept for the mutation checks.                           *)

\* Comparing with the last line only.
SameAsTheLast(e) == prev_expected \in {-1, e}

\* Counting a packet as correct whatever its value.
AnyIsExpected(num) == opts.expected_in_file \/ opts.expected_value # -1

\* Forgetting one of the six counters.
FoldedWithoutPackets(a, b) ==
    [packets    |-> a.packets,
     per_packet |-> a.per_packet + b.per_packet,
     blockacks  |-> a.blockacks + b.blockacks,
     rate_gap   |-> a.rate_gap + b.rate_gap,
     ampdu_len  |-> a.ampdu_len + b.ampdu_len,
     len_one    |-> a.len_one + b.len_one]

\* No t_f[i - 1] = 0.
LensKept(b) == b

-----------------------------------------------------------------------------
(* Reading a line.                                                          *)

\* The input has the bitmap and the expected string: the rest is ignored.
ReadBoth(l) ==
    IF l.fields < 2 THEN "exit"
    ELSE IF l.expected = NoName THEN "abort" ELSE "read"

\* It has not: how many fields there are tells the format, with A-MPDUs of 32
\* MPDUs; with those of 64 there is one format.
ReadFields(l) ==
    IF opts.max_mpdus_p_ampdu = Len32
    THEN CASE l.fields = 0 -> "skip"
           [] l.fields \in {1, 8, 11} -> "read"
           [] OTHER -> "exit"
    ELSE IF opts.max_mpdus_p_ampdu # Len64 THEN "abort"
    ELSE IF l.fields >= 6 THEN "read" ELSE "exit"

Read(l) == IF opts.expected_in_file THEN ReadBoth(l) ELSE ReadFields(l)

\* Whether the line sets r_sent and r_delta_sec; otherwise they keep what an
\* earlier line has set.
HasTimes(l) == ~opts.expected_in_file /\ l.fields > 1

Skip(l) ==
    /\ Read(l) = "skip"
    /\ UNCHANGED <<opts, status, reading, counters>>

Refuse(l) ==
    /\ Read(l) \in {"exit", "abort"}
    /\ status' = IF Read(l) = "exit" THEN "exited" ELSE "aborted"
    /\ UNCHANGED <<opts, reading, counters>>

\* All the expected values, up to e, are the same.
SameSoFar(e) == all_expected_the_same /\ prev_expected \in {-1, e}

\* The variables that reading sets.
SetRead(l) ==
    /\ r_sent' = IF HasTimes(l) THEN l.sent ELSE r_sent
    /\ r_delta_sec' = IF HasTimes(l) THEN l.sec ELSE r_delta_sec
    /\ expected_num' = IF opts.expected_in_file THEN l.expected
                       ELSE IF opts.expected_value # -1
                       THEN opts.expected_value ELSE 0
    /\ IF opts.expected_in_file
       THEN /\ prev_expected' = l.expected
            /\ all_expected_the_same' = SameSoFar(l.expected)
       ELSE UNCHANGED <<prev_expected, all_expected_the_same>>

-----------------------------------------------------------------------------
(* Counting it.                                                             *)

Incremented(f, x) == [f EXCEPT ![x] = @ + 1]

\* The interval counters after a line and its packet, if it is one.
Counted(len, sec, kind) ==
    [packets    |-> dt.packets + (IF kind = "packet" THEN 1 ELSE 0),
     per_packet |-> dt.per_packet + (IF kind = "none" THEN 0 ELSE 1),
     blockacks  |-> dt.blockacks + 1,
     rate_gap   |-> dt.rate_gap + sec,
     ampdu_len  |-> dt.ampdu_len + len,
     len_one    |-> dt.len_one
                    + (IF len = opts.max_mpdus_p_ampdu THEN 1 ELSE 0)]

Folded(a, b) ==
    [packets    |-> a.packets + b.packets,
     per_packet |-> a.per_packet + b.per_packet,
     blockacks  |-> a.blockacks + b.blockacks,
     rate_gap   |-> a.rate_gap + b.rate_gap,
     ampdu_len  |-> a.ampdu_len + b.ampdu_len,
     len_one    |-> a.len_one + b.len_one]

\* Both loops over t_f go from 1 to AMPDU_LEN.
FoldedLens(a, b) ==
    [n \in Lens |-> IF n = 0 THEN a[n] ELSE a[n] + b[n]]
ClearedLens(b) == [n \in Lens |-> IF n = 0 THEN b[n] ELSE 0]

\* The end of an interval, if now is a packet and the interval is over.
Interval(now, frequencies, kind) ==
    IF kind = "packet" /\ now.rate_gap >= opts.rate_gap_thold
    THEN /\ cumm' = Folded(cumm, now)
         /\ dt' = NoInterval
         /\ cumm_t_f' = FoldedLens(cumm_t_f, frequencies)
         /\ t_f' = ClearedLens(frequencies)
    ELSE /\ dt' = now
         /\ t_f' = frequencies
         /\ UNCHANGED <<cumm, cumm_t_f>>

\* There is a value to compare with, and the packet has it.
is_expected(num) ==
    /\ opts.expected_in_file \/ opts.expected_value # -1
    /\ num = expected_num'

\* What is counted of a packet that was decoded.
Detected(u) ==
    IF u.kind # "packet"
    THEN UNCHANGED <<packet_counts, packet_count, total_matches, match_counts,
                     counts, error_counts, num_ties, total_edit_dist,
                     len_count, correct_by_len>>
    ELSE /\ packet_counts' = Incremented(packet_counts, expected_num')
         /\ packet_count' = packet_count + 1
         /\ len_count' = Incremented(len_count, u.len)
         /\ IF opts.print_bit_error_rate
            THEN /\ num_ties' = [num_ties EXCEPT ![u.num] = @ + u.ties]
                 /\ total_edit_dist' =
                        [total_edit_dist EXCEPT ![u.num] = @ + u.dist]
            ELSE UNCHANGED <<num_ties, total_edit_dist>>
         /\ IF is_expected(u.num)
            THEN /\ counts' = Incremented(counts, u.num)
                 /\ correct_by_len' = Incremented(correct_by_len, u.len)
                 /\ UNCHANGED error_counts
            ELSE /\ error_counts' = Incremented(error_counts, u.num)
                 /\ UNCHANGED <<counts, correct_by_len>>
         /\ match_counts' = Incremented(match_counts, u.num)
         /\ total_matches' = total_matches + 1

Count(l, u) ==
    /\ Read(l) = "read"
    /\ SetRead(l)
    /\ line_count' = line_count + 1
    /\ delta_sec' = delta_sec + r_delta_sec'
    /\ expected_counts' = Incremented(expected_counts, expected_num')
    /\ Detected(u)
    /\ Interval(Counted(r_sent', r_delta_sec', u.kind),
                Incremented(t_f, r_sent'), u.kind)
    /\ UNCHANGED <<opts, status>>

\* One line of the input.
Line ==
    /\ status = "running"
    /\ input_left > 0
    /\ input_left' = input_left - 1
    /\ \E l \in Lines :
          Skip(l) \/ Refuse(l) \/ \E u \in Outcomes : Count(l, u)

-----------------------------------------------------------------------------
(* The report.                                                              *)

Intervals == opts.rate_gap_thold < INT_MAX

\* A plausible slip: the mean taken over the packets.
DividesByPackets == Intervals /\ cumm'.packets = 0

\* cumm_ampdu_len / cumm_blockack_count is a division by 0.
DividesByZero == Intervals /\ cumm'.blockacks = 0

\* expected_str[expected_value] is read with an expected_value of -1.
ReadsBeforeNames == opts.print_bit_error_rate /\ opts.expected_in_file

\* How the report ends; what reading before the array does is not defined.
Ends ==
    IF opts.quiet_mode THEN {"reported"}
    ELSE (IF DividesByZero THEN {"crashed"} ELSE {"reported"})
         \cup (IF ReadsBeforeNames THEN {"crashed"} ELSE {})

\* With -q nothing is folded and little is printed.
Finish ==
    /\ status = "running"
    /\ input_left = 0
    /\ IF Intervals /\ ~opts.quiet_mode
       THEN /\ cumm' = Folded(cumm, dt)
            /\ cumm_t_f' = FoldedLens(cumm_t_f, t_f)
            /\ t_f' = ClearedLens(t_f)
       ELSE UNCHANGED <<cumm, cumm_t_f, t_f>>
    /\ status' \in Ends
    /\ UNCHANGED <<opts, input_left, reading, totals, per_value, len_count,
                   correct_by_len, dt>>

Next == Line \/ Finish

Spec == Init /\ [][Next]_vars

-----------------------------------------------------------------------------
(* Properties.                                                              *)

IntervalCounters ==
    [packets : Nat, per_packet : Nat, blockacks : Nat, rate_gap : Nat,
     ampdu_len : Nat, len_one : Nat]

\* Every variable stays in its range: no name of the input that is no value's
\* is taken for one (the assertions of expected.c:17 and decode.c:421), and
\* the tables of decode.c:46-62 keep an entry per value and per length.
TypeOK ==
    /\ opts \in Options
    /\ status \in {"running", "exited", "aborted", "reported", "crashed"}
    /\ input_left \in 0 .. MaxLines
    /\ r_sent \in Lens /\ r_delta_sec \in Nat
    /\ expected_num \in Values /\ prev_expected \in Values \cup {-1}
    /\ all_expected_the_same \in BOOLEAN
    /\ line_count \in Nat /\ packet_count \in Nat /\ total_matches \in Nat
    /\ delta_sec \in Nat
    /\ expected_counts \in [Values -> Nat]
    /\ packet_counts \in [Values -> Nat]
    /\ match_counts \in [Values -> Nat]
    /\ counts \in [Values -> Nat] /\ error_counts \in [Values -> Nat]
    /\ num_ties \in [Values -> Nat] /\ total_edit_dist \in [Values -> Nat]
    /\ len_count \in [Lens -> Nat] /\ correct_by_len \in [Lens -> Nat]
    /\ t_f \in [Lens -> Nat] /\ cumm_t_f \in [Lens -> Nat]
    /\ dt \in IntervalCounters /\ cumm \in IntervalCounters

\* The report has added what was left of the last interval.
Folds == status \in {"reported", "crashed"} /\ Intervals /\ ~opts.quiet_mode

\* The counters of the whole dump, wherever they are.
Whole == IF Folds THEN cumm ELSE Folded(cumm, dt)

\* The intervals of -R divide the input: what they add up to, those that were
\* closed at a packet (decode-algs.c:214-232) and the rest that the report
\* adds without clearing it (decode.c:605-613), is what main counts beside
\* them, so that no line, packet or second is lost or counted twice.
IntervalsAddUp ==
    /\ Whole.blockacks = line_count
    /\ Whole.packets = packet_count /\ total_matches = packet_count
    /\ Whole.rate_gap = delta_sec
    /\ Whole.per_packet \in packet_count .. line_count

\* How many lines so far had A-MPDUs of n MPDUs.
Frequency(n) == t_f[n] + cumm_t_f[n]

\* The histograms hold every line and every packet once, although they are
\* filled at different places: t_f and cumm_t_f, through the intervals
\* (decode.c:379, decode-algs.c:192-198, decode.c:614-620), the expected values
\* (decode.c:422), the values decoded (decode-algs.c:277) and the lengths.  The
\* mean length and the share of long A-MPDUs in the report are those of t_f.
HistogramsAddUp ==
    /\ SumFunction([n \in Lens |-> Frequency(n)]) = line_count
    /\ SumFunction([n \in Lens |-> n * Frequency(n)]) = Whole.ampdu_len
    /\ Whole.len_one = IF opts.max_mpdus_p_ampdu \in Lens
                        THEN Frequency(opts.max_mpdus_p_ampdu) ELSE 0
    /\ SumFunction(expected_counts) = line_count
    /\ SumFunction(packet_counts) = packet_count
    /\ SumFunction(match_counts) = total_matches
    /\ SumFunction(len_count) = packet_count
    /\ SumFunction(correct_by_len) = SumFunction(counts)

\* No percentage of the table of values (decode.c:657-677) or of that of the
\* lengths (decode.c:721-727) is over 100, and its columns agree: what was
\* decoded to a value is correct or in error, and no more packets are correct
\* than there were packets, or lines, with the value.
PercentagesInRange ==
    /\ \A i \in Values :
          /\ match_counts[i] = counts[i] + error_counts[i]
          /\ counts[i] <= packet_counts[i]
          /\ packet_counts[i] <= expected_counts[i]
          /\ match_counts[i] <= total_matches
          /\ expected_counts[i] <= line_count
    /\ \A n \in Lens :
          correct_by_len[n] <= len_count[n] /\ len_count[n] <= packet_count

\* The line "EXPECTED value" (decode.c:711-715) is printed of the last value
\* expected when every line of the input expected that one, and not when an
\* earlier line, however far back, expected another.
AllExpectedAreOne ==
    all_expected_the_same <=> expected_counts[expected_num] = line_count

\* The report divides by 0 (decode.c:807) of an empty input only; the other way
\* to crash is -k without an expected value (decode.c:679-683).
CrashesWhenEmpty ==
    status = "crashed" => line_count = 0 \/ ReadsBeforeNames
===============================================================================
