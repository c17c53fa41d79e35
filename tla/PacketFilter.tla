----------------------------- MODULE PacketFilter -----------------------------
(***************************************************************************)
(* is_packet (filter.c:225-389): which block ack bitmaps hold a message of *)
(* the tag, and what is counted about those that do not.  One action is    *)
(* one line of the input: the statistics of -i and -C, the filters in      *)
(* their order, the regular expression of regexes.c and, for a packet, the *)
(* count of main.                                                          *)
(*                                                                         *)
(* The strings preamble_zeros and postamble_zeros are filled on their      *)
(* first use and kept; they consist of zeros, so their length stands for   *)
(* them.  The statistics of -w are the module AckStats.                    *)
(***************************************************************************)
EXTENDS Regexes, Functions

CONSTANTS
    AMPDU_LEN,   \* the longest bitmap and the length of the tables
    Bitmaps,     \* the bitmaps the input may hold
    Estimates,   \* the values of estimated_ampdu_len (0: not known)
    Options,     \* the options decode may be started with
    MaxLines     \* bound of the model: the lines of the input

MIN_BITMAP_LEN == 4

\* expected_packet_len, and too_short_len of process_options
expected_len(o) == 2 + 2 * o.preamble_mpdus + o.bits_per_packet * o.mpdus_per_bit
too_short_len(o) == expected_len(o) - o.plen_short_by

\* The options the filter reads, within what process_options and
\* create_lev_strings let through; regcomp refuses a length of 0.
LegalOptions ==
    {o \in [preamble_mpdus : Nat \ {0}, bits_per_packet : Nat \ {0},
            mpdus_per_bit : Nat \ {0}, preamble_index : BOOLEAN,
            consecutive_zeros : Nat, ampdu_greater_than : Int,
            filter_using_estimates : BOOLEAN, min_zeros : Int,
            zero_thold : Int, amble_filter : Int, plen_short_by : Int,
            plen_long_by : Int] :
        expected_len(o) <= AMPDU_LEN}

ASSUME LengthAssumption    == AMPDU_LEN \in Nat \ {0}
ASSUME BitmapsAssumption   == Bitmaps \subseteq BitmapsOf(1 .. AMPDU_LEN)
ASSUME EstimatesAssumption == Estimates \subseteq Nat
ASSUME OptionsAssumption   == Options \subseteq LegalOptions
ASSUME MaxLinesAssumption  == MaxLines \in Nat

VARIABLES
    opts,                        \* the options, which do not change
    status,                      \* "running", "aborted" by an assertion, or
                                 \* "undefined" after a write past a table
    line_count, packet_count,    \* the counters of main
    bitmap, estimated_ampdu_len, \* the latest line
    packet_str,                  \* the part that matched, if any
    filter,                      \* the counters filter_len to filter_regexes
    one_or_more_zeros, zeros_histo, ones_histo,
    preamble_zeros, postamble_zeros,
    preamble_locations, possible_msg_lens,
    zeros_locations, zero_locations_not_counted,
    dt_per_packet_count, len_count

input    == <<bitmap, estimated_ampdu_len>>
bit_vars == <<one_or_more_zeros, zeros_histo, ones_histo>>
pre_vars == <<preamble_locations, possible_msg_lens, postamble_zeros>>
pos_vars == <<zeros_locations, zero_locations_not_counted>>
vars == <<opts, status, line_count, packet_count, input, packet_str, filter,
          bit_vars, pre_vars, pos_vars, preamble_zeros, dt_per_packet_count,
          len_count>>

Reasons == {"len", "excess_zeros", "no_zeros", "no_ones",
            "insufficient_zeros", "amble", "packet_len", "regexes"}
Verdicts == Reasons \cup {"packet"}

-----------------------------------------------------------------------------
Init ==
    /\ opts \in Options
    /\ status = "running"
    /\ line_count = 0
    /\ packet_count = 0
    /\ bitmap = << >>
    /\ estimated_ampdu_len = 0
    /\ packet_str = << >>
    /\ filter = [r \in Reasons |-> 0]
    /\ one_or_more_zeros = 0
    /\ zeros_histo = [n \in 0 .. AMPDU_LEN |-> 0]
    /\ ones_histo = [n \in 0 .. AMPDU_LEN |-> 0]
    /\ preamble_zeros = 0
    /\ postamble_zeros = 0
    /\ preamble_locations = [n \in 0 .. AMPDU_LEN |-> 0]
    /\ possible_msg_lens = [n \in 0 .. AMPDU_LEN |-> 0]
    /\ zeros_locations = [n \in 0 .. AMPDU_LEN |-> 0]
    /\ zero_locations_not_counted = 0
    /\ dt_per_packet_count = 0
    /\ len_count = [n \in 0 .. AMPDU_LEN - 1 |-> 0]

-----------------------------------------------------------------------------
(* Plausible slips, kept for the mutation checks.                           *)

\* every bit may be two MPDUs longer
MatchesLonger(str, s, e) ==
    LET p    == opts.preamble_mpdus
        b    == opts.bits_per_packet
        m    == opts.mpdus_per_bit
        Runs == (p - 1) .. (p + 1)
    IN  /\ str[s + 1] = 1 /\ str[e + 1] = 1
        /\ \E pre, post \in Runs :
              /\ e - s - 1 - pre - post \in (b * m - 1) .. (b * (m + 2) + 2)
              /\ \A k \in s + 1 .. s + pre  : str[k + 1] = 0
              /\ \A k \in e - post .. e - 1 : str[k + 1] = 0

(* The regular expression of a packet, with the options of this run.         *)

Matches(str, s, e) ==
    PacketMatches(opts.preamble_mpdus, opts.bits_per_packet,
                  opts.mpdus_per_bit, str, s, e)

Found(str) == {x \in (0 .. Len(str) - 1) \X (0 .. Len(str) - 1) :
                  x[1] < x[2] /\ Matches(str, x[1], x[2])}

\* a packet that is cut short is reported and then counted by no filter
CountedUnlessAmble(v) ==
    IF v \in {"packet", "amble"} THEN filter ELSE [filter EXCEPT ![v] = @ + 1]

\* one_or_more_zeros is counted where the packet is known not to be all zeros
HistogramsAfterOnes(str, v) ==
    IF v \in {"len", "no_ones"} THEN UNCHANGED <<one_or_more_zeros, zeros_histo, ones_histo>>
    ELSE LET zeros == count_bits(str, 0)
             ones  == count_bits(str, 1)
         IN  /\ zeros_histo' = [zeros_histo EXCEPT ![zeros] = @ + 1]
             /\ ones_histo' = [ones_histo EXCEPT ![ones] = @ + 1]
             /\ one_or_more_zeros' =
                    one_or_more_zeros + (IF zeros > 0 THEN 1 ELSE 0)

\* the histograms are filled before the bitmaps that are too short are left
\* out, where -w counts the bits
HistogramsOfAll(str, v) ==
    LET zeros == count_bits(str, 0)
        ones  == count_bits(str, 1)
    IN  /\ zeros_histo' = [zeros_histo EXCEPT ![zeros] = @ + 1]
        /\ ones_histo' = [ones_histo EXCEPT ![ones] = @ + 1]
        /\ one_or_more_zeros' = one_or_more_zeros + (IF zeros > 0 THEN 1 ELSE 0)

\* the ones are taken to be the rest of an A-MPDU
HistogramsOfFull(str, v) ==
    IF v = "len" THEN UNCHANGED <<one_or_more_zeros, zeros_histo, ones_histo>>
    ELSE LET zeros == count_bits(str, 0)
         IN  /\ zeros_histo' = [zeros_histo EXCEPT ![zeros] = @ + 1]
             /\ ones_histo' = [ones_histo EXCEPT ![AMPDU_LEN - zeros] = @ + 1]
             /\ one_or_more_zeros' =
                    one_or_more_zeros + (IF zeros > 0 THEN 1 ELSE 0)

\* the zeros are looked for behind the first character
LocatedAfterFirst(z, str) ==
    LET behind == Occurrences(str, Zeros(z)) \ {0}
    IN  IF behind = {} THEN AMPDU_LEN ELSE First(behind)

\* -C fills preamble_zeros, as it would if it were called before -i
AnalysisLeavesUnfilled == preamble_zeros

\* the string of zeros lacks one of them
AfterSearchShort ==
    IF opts.consecutive_zeros # 0 /\ preamble_zeros = 0
       /\ ~opts.preamble_index
    THEN opts.consecutive_zeros - 1
    ELSE preamble_zeros

-----------------------------------------------------------------------------
Matched(str) == Leftmost(Found(str), str)

is_packet_len_valid(o, plen) ==
    /\ plen >= expected_len(o) - o.plen_short_by
    /\ plen <= expected_len(o) + o.plen_long_by

\* The zeros before the first preamble and those after the last postamble.
too_many_leading_trailing_zeros(str, thold) ==
    LET p     == opts.preamble_mpdus
        start == First(Occurrences(str, <<1>> \o Zeros(p - 1)))
        end   == Last(Occurrences(str, Zeros(p - 1) \o <<1>>)) + p
    IN  \/ count_bits(SubSeq(str, 1, start), 0) > thold
        \/ count_bits(SubSeq(str, end + 1, Len(str)), 0) > thold

is_too_short(est) == est # 0 /\ est < too_short_len(opts)

\* The filters in their order: the first that holds decides.
Verdict(str, est) ==
    LET zeros == count_bits(str, 0)
        ones  == count_bits(str, 1)
    IN  IF opts.filter_using_estimates /\ is_too_short(est) THEN "len"
        ELSE IF Len(str) < MIN_BITMAP_LEN THEN "len"
        ELSE IF zeros = 0 THEN "no_zeros"
        ELSE IF ones = 0 THEN "no_ones"
        ELSE IF zeros < opts.min_zeros THEN "insufficient_zeros"
        ELSE IF zeros > opts.zero_thold THEN "excess_zeros"
        ELSE IF Found(str) = {} THEN "regexes"
        ELSE IF /\ opts.amble_filter # 0
                /\ too_many_leading_trailing_zeros(str, opts.amble_filter)
        THEN "amble"
        ELSE IF ~is_packet_len_valid(opts, Len(Matched(str)))
        THEN "packet_len"
        ELSE "packet"

-----------------------------------------------------------------------------
\* A string of zeros is filled on its first use only.
Filled(z, n) == IF z = 0 THEN n ELSE z

\* preamble_location: where the cached zeros are first found.
preamble_location(z, str) ==
    IF Occurrences(str, Zeros(z)) = {} THEN AMPDU_LEN
    ELSE First(Occurrences(str, Zeros(z)))

\* postamble_location: the end of the last p zeros.
postamble_location(p, z, str) ==
    IF Occurrences(str, Zeros(p)) = {} THEN AMPDU_LEN
    ELSE Last(Occurrences(str, Zeros(p))) + z - 1

\* The distance counted as a possible length of a message.
PossibleLen(pre, post) == post - pre + 1

\* analyze_preamble_distributions, for -i, without its assertions
analyze_preamble_distributions(str) ==
    IF ~opts.preamble_index THEN UNCHANGED pre_vars
    ELSE LET p    == opts.preamble_mpdus
             pre  == preamble_location(Filled(preamble_zeros, p), str)
             post == postamble_location(p, Filled(postamble_zeros, p), str)
         IN  /\ postamble_zeros' = Filled(postamble_zeros, p)
             /\ preamble_locations' = [preamble_locations EXCEPT ![pre] = @ + 1]
             /\ possible_msg_lens' =
                    IF pre = AMPDU_LEN THEN possible_msg_lens
                    ELSE [possible_msg_lens EXCEPT
                             ![PossibleLen(pre, post)] = @ + 1]

\* Its assertions on the distance.
DistanceAsserts(str) ==
    LET p    == opts.preamble_mpdus
        pre  == preamble_location(Filled(preamble_zeros, p), str)
        post == postamble_location(p, Filled(postamble_zeros, p), str)
    IN  opts.preamble_index /\ pre # AMPDU_LEN =>
            PossibleLen(pre, post) \in 0 .. AMPDU_LEN

\* The length of preamble_zeros that each of -i and -C leaves to the next.
AfterAnalysis ==
    IF opts.preamble_index THEN Filled(preamble_zeros, opts.preamble_mpdus)
    ELSE preamble_zeros
AfterSearch ==
    IF opts.consecutive_zeros # 0
    THEN Filled(AfterAnalysis, opts.consecutive_zeros)
    ELSE AfterAnalysis

\* n zeros and their end are one character more than fit into AMPDU_LEN; if -i
\* has filled the string, -C leaves it as it is.
OverrunsZeros == AfterAnalysis = 0 /\ opts.consecutive_zeros >= AMPDU_LEN

\* find_first_set_of_zeros, for -C, which comes after the analysis of -i
find_first_set_of_zeros(str, est) ==
    IF opts.consecutive_zeros = 0 THEN UNCHANGED pos_vars
    ELSE IF est < opts.ampdu_greater_than
    THEN /\ zero_locations_not_counted' = zero_locations_not_counted + 1
         /\ UNCHANGED zeros_locations
    ELSE LET pre == preamble_location(AfterSearch, str)
         IN  /\ zeros_locations' = [zeros_locations EXCEPT ![pre] = @ + 1]
             /\ UNCHANGED zero_locations_not_counted

\* The histograms of the bitmaps that are not too short.
count_histograms(str, v) ==
    IF v = "len" THEN UNCHANGED bit_vars
    ELSE LET zeros == count_bits(str, 0)
             ones  == count_bits(str, 1)
         IN  /\ zeros_histo' = [zeros_histo EXCEPT ![zeros] = @ + 1]
             /\ ones_histo' = [ones_histo EXCEPT ![ones] = @ + 1]
             /\ one_or_more_zeros' =
                    one_or_more_zeros + (IF zeros > 0 THEN 1 ELSE 0)

\* The counters of the verdicts that are not a packet.
Counted(v) == IF v = "packet" THEN filter ELSE [filter EXCEPT ![v] = @ + 1]

\* What a match changes: it is copied unless the amble filter rejects it, into
\* an array of AMPDU_LEN characters that has to take its end as well; a packet
\* is counted, and its length in a table of AMPDU_LEN counters.
TakePacket(str, v) ==
    /\ dt_per_packet_count' =
           dt_per_packet_count
           + (IF v \in {"amble", "packet_len", "packet"} THEN 1 ELSE 0)
    /\ packet_str' =
           IF v \in {"packet_len", "packet"} THEN Matched(str) ELSE << >>
    /\ IF Len(packet_str') >= AMPDU_LEN
       THEN /\ status' = "undefined"
            /\ UNCHANGED <<packet_count, len_count>>
       ELSE /\ UNCHANGED status
            /\ IF v = "packet"
               THEN /\ packet_count' = packet_count + 1
                    /\ len_count' = [len_count EXCEPT ![Len(packet_str')] = @ + 1]
               ELSE UNCHANGED <<packet_count, len_count>>

\* The process ends within the line.
StopsWith(s) ==
    /\ status' = s
    /\ UNCHANGED <<packet_count, packet_str, filter, bit_vars, pre_vars, pos_vars,
                   preamble_zeros, dt_per_packet_count, len_count>>

\* One line of the input that main hands to is_packet.
Line(str, est) ==
    /\ status = "running"
    /\ line_count < MaxLines
    /\ line_count' = line_count + 1
    /\ bitmap' = str
    /\ estimated_ampdu_len' = est
    /\ UNCHANGED opts
    /\ IF ~DistanceAsserts(str) THEN StopsWith("aborted")
       ELSE IF OverrunsZeros THEN StopsWith("undefined")
       ELSE LET v == Verdict(str, est)
            IN  /\ analyze_preamble_distributions(str)
                /\ find_first_set_of_zeros(str, est)
                /\ preamble_zeros' = AfterSearch
                /\ count_histograms(str, v)
                /\ filter' = Counted(v)
                /\ TakePacket(str, v)

Next == \E str \in Bitmaps, est \in Estimates : Line(str, est)

Spec == Init /\ [][Next]_vars

-----------------------------------------------------------------------------
(* The properties.                                                          *)

Counter(S) == [S -> Nat]

\* The variables keep their types.
TypeOK ==
    /\ opts \in Options
    /\ status \in {"running", "aborted", "undefined"}
    /\ line_count \in 0 .. MaxLines
    /\ packet_count \in Nat
    /\ bitmap \in Bitmaps \cup {<< >>}
    /\ estimated_ampdu_len \in Estimates \cup {0}
    /\ packet_str \in Seq(Bit)
    /\ filter \in Counter(Reasons)
    /\ one_or_more_zeros \in Nat
    /\ zeros_histo \in Counter(0 .. AMPDU_LEN)
    /\ ones_histo \in Counter(0 .. AMPDU_LEN)
    /\ preamble_zeros \in Nat
    /\ postamble_zeros \in {0, opts.preamble_mpdus}
    /\ preamble_locations \in Counter(0 .. AMPDU_LEN)
    /\ possible_msg_lens \in Counter(0 .. AMPDU_LEN)
    /\ zeros_locations \in Counter(0 .. AMPDU_LEN)
    /\ zero_locations_not_counted \in Nat
    /\ dt_per_packet_count \in Nat
    /\ len_count \in Counter(0 .. AMPDU_LEN - 1)

\* filter_total of print_filter_stats
FilterTotal ==
    filter["len"] + filter["no_zeros"] + filter["no_ones"]
    + filter["excess_zeros"] + filter["insufficient_zeros"] + filter["amble"]
    + filter["packet_len"] + filter["regexes"]

\* The report adds up: every line is a packet or is counted by exactly one
\* filter, with the single regular expression there is (filter.c:258-388,
\* 456-463; TODO:143).
LinesAddUp == status = "running" => FilterTotal + packet_count = line_count

\* Three tallies of the lines that got as far as the regular expression agree
\* although three files keep them: the matches less those the amble and the
\* length filter turned down are the packets (filter.c:324-345 and
\* decode.c:431), and of the lines with zeros only those that failed a later
\* filter are missing (filter.c:286-313).
TalliesAgree ==
    status = "running" =>
        /\ dt_per_packet_count =
               packet_count + filter["amble"] + filter["packet_len"]
        /\ one_or_more_zeros =
               dt_per_packet_count + filter["no_ones"] + filter["excess_zeros"]
               + filter["insufficient_zeros"] + filter["regexes"]

\* The two histograms of the report of -i hold each line that is not too short
\* exactly once, although they are filled between the filters, which return
\* early in six places; and their ends are the lines without zeros and without
\* ones, which is what the averages of the report take off (filter.c:263-298,
\* 613-627).
HistogramsAddUp ==
    status = "running" =>
        /\ SumFunction(zeros_histo) = line_count - filter["len"]
        /\ SumFunction(ones_histo) = line_count - filter["len"]
        /\ zeros_histo[0] = filter["no_zeros"]
        /\ ones_histo[0] = filter["no_ones"]

\* What the tables of -i and -C are adjusted by: the lines of each are all the
\* lines, so that the adjusted shares add up to the adjusted count, and the
\* lines of zeros only, which are taken off the first location, were counted
\* there or not at all (filter.c:553-579, 597-601, 631-643, whose comment asks
\* "TODO: Check if this is right").  It is, as long as the zeros looked for are
\* no more than the shortest bitmap has.
LocationsAddUp ==
    status = "running" =>
        /\ opts.preamble_index =>
              /\ SumFunction(preamble_locations) = line_count
              /\ SumFunction(possible_msg_lens) =
                     line_count - preamble_locations[AMPDU_LEN]
              /\ preamble_zeros <= MIN_BITMAP_LEN =>
                     preamble_locations[0] >= filter["no_ones"]
        /\ opts.consecutive_zeros # 0 =>
              /\ SumFunction(zeros_locations) + zero_locations_not_counted =
                     line_count
              /\ preamble_zeros <= MIN_BITMAP_LEN =>
                     zeros_locations[0] + zero_locations_not_counted
                         >= filter["no_ones"]

\* The assertion of print_preamble_locations, which the report of -i ends with:
\* the two histograms are mirror images (filter.c:620-622).
Mirrored ==
    \A i \in 0 .. AMPDU_LEN : zeros_histo[i] = ones_histo[AMPDU_LEN - i]

\* The histograms are mirror images until the first counted bitmap that is
\* shorter than AMPDU_LEN, and never again: no other bitmap can make up for the
\* bits that one lacks (filter.c:263-280).
MirroredUntilShort ==
    [][status' = "running" =>
           (Mirrored' <=>
               /\ Mirrored
               /\ filter'["len"] # filter["len"] \/ Len(bitmap') = AMPDU_LEN)]_vars

\* No assertion of the analysis of -i fails: a preamble is found exactly when
\* a postamble is, and not after it (filter.c:130-152).
NoAssertionFails == status # "aborted"

\* A distance counted as a possible message length covers at least the
\* preamble (filter.c:142-153).
LengthsCoverPreamble ==
    \A n \in 0 .. opts.preamble_mpdus - 1 : possible_msg_lens[n] = 0

\* The arrays for the packet, the counters of its length and the string of
\* zeros are long enough if the longest match of the regular expression is
\* shorter than the bitmap and -C asks for less than an A-MPDU of zeros, or -i
\* has filled that string before, whatever the filters are set to
\* (filter.c:59-64, 336-349, regexes.c:101-119).
RoomForPacket ==
    /\ expected_len(opts) + opts.bits_per_packet + 4 < AMPDU_LEN
    /\ opts.consecutive_zeros < AMPDU_LEN \/ opts.preamble_index
    => status # "undefined"

\* Where -C finds its zeros is counted for the number of zeros it was given, by
\* every line and although their string is filled only once, unless -i shares
\* that string (filter.c:56-80, 178-189).
ZerosLocated ==
    [][zeros_locations' # zeros_locations /\ ~opts.preamble_index =>
           zeros_locations' =
               [zeros_locations EXCEPT
                   ![preamble_location(opts.consecutive_zeros, bitmap')] = @ + 1]]_vars
===============================================================================
