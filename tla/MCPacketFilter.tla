---------------------------- MODULE MCPacketFilter ----------------------------
(* Instances of PacketFilter for TLC: an A-MPDU of 11 in place of 64.       *)
EXTENDS PacketFilter

\* -P 1 -B 1 -M 1 with the defaults of the other options
Defaults ==
    [preamble_mpdus |-> 1, bits_per_packet |-> 1, mpdus_per_bit |-> 1,
     preamble_index |-> FALSE, consecutive_zeros |-> 0,
     ampdu_greater_than |-> 0, filter_using_estimates |-> FALSE,
     min_zeros |-> 0, zero_thold |-> 8, amble_filter |-> 0,
     plen_short_by |-> 1, plen_long_by |-> 3]

\* -i; -i -C 2 -G 4 -z 2 -Z 4; -C 2 -G 4 -t -b 0 -c 1 -a 1; -P 2 -i -C 1 -G 0
\* -a 1; and -C 11, which is as long as the A-MPDU
MCOptions ==
    {[Defaults EXCEPT !.preamble_index = TRUE],
     [Defaults EXCEPT !.preamble_index = TRUE, !.consecutive_zeros = 2,
         !.ampdu_greater_than = 4, !.min_zeros = 2, !.zero_thold = 4],
     [Defaults EXCEPT !.consecutive_zeros = 2, !.ampdu_greater_than = 4,
         !.filter_using_estimates = TRUE, !.plen_short_by = 0,
         !.plen_long_by = 1, !.amble_filter = 1],
     [Defaults EXCEPT !.preamble_mpdus = 2, !.preamble_index = TRUE,
         !.consecutive_zeros = 1,
         !.min_zeros = 2, !.zero_thold = 10, !.amble_filter = 1],
     [Defaults EXCEPT !.consecutive_zeros = 11]}

\* Two bitmaps that are too short, those of 5, and whole ones that begin and
\* end with a 1 and have few zeros in between; and the longest that no match
\* of -P 1 -B 1 -M 1 covers.
MCBitmaps == {<<0, 1, 0>>, <<1, 1, 1>>} \cup BitmapsOf({5})
             \cup {<<1, 0, 0, 1, 1, 1, 1, 1, 0, 0, 1>>}
             \cup {b \in BitmapsOf({11}) : /\ b[1] = 1 /\ b[2] = 0 /\ b[11] = 1
                                          /\ count_bits(SubSeq(b, 3, 10), 0) <= 2}
===============================================================================
