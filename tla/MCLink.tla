------------------------------- MODULE MCLink ---------------------------------
(* Codes of two and of eight values, with every packet the regular          *)
(* expression lets through at the lengths the filter allows by default, and *)
(* those one error away from the words of the longer codes, as noise; and a *)
(* code of four values that the tag sends.                                  *)
EXTENDS Link, Regexes

Code(p, b, m) ==
    [preamble_mpdus |-> p, bits_per_packet |-> b, mpdus_per_bit |-> m,
     exact_lev_len |-> FALSE, extra_ones_added |-> TRUE,
     print_bit_error_rate |-> FALSE]

Passes(o, str) ==
    PacketMatches(o.preamble_mpdus, o.bits_per_packet, o.mpdus_per_bit, str,
                  0, Len(str) - 1)

\* plen_short_by is 1, plen_long_by 3.
Lengths(o) == (expected_len(o) - 1) .. (expected_len(o) + 3)

WordsWithError(o) ==
    UNION {OneEditOf(lev_word(o, v)) : v \in 0 .. num_words(o) - 1}

\* The packets of test-levenshtein.c
Checked == {<<1,0,0,0,0,0,0,0,1,1,1,1,1,0,0,0,1>>,
            <<1,0,0,0,0,1,1,1,1,1,0,0,0,0,0,1>>,
            <<1,0,0,0,0,1,1,0,0,0,1,1,0,0,0,1>>,
            <<1,0,0,0,0,0,0,0,1,1,0,0,0,0,0,0,1>>}

Short == {Code(1, 1, 1), Code(1, 2, 1)}
Long  == {Code(1, 2, 3)}

\* As many values as there are places for ties.
Ties == [Code(1, 3, 1) EXCEPT !.print_bit_error_rate = TRUE]

\* What the tag sends.
Tagged == Code(P, B, M)

MCOptions ==
    {[o EXCEPT !.exact_lev_len = x, !.extra_ones_added = j,
               !.print_bit_error_rate = k] :
        o \in Short \cup Long, x, j, k \in BOOLEAN}
    \cup {Code(3, 3, 3), Ties, Tagged}

MCPackets(o) ==
    IF o = Tagged THEN {}
    ELSE IF o.preamble_mpdus = 3 THEN Checked
    ELSE IF o = Ties THEN {<<1, 0, 0, 0, 0, 1>>, <<1, 0, 1, 0, 1, 0, 0, 1>>}
    ELSE {str \in IF o.mpdus_per_bit = 1 THEN BitmapsOf(Lengths(o))
                  ELSE WordsWithError(o) : str # << >> /\ Passes(o, str)}
===============================================================================
