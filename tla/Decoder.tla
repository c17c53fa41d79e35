------------------------------- MODULE Decoder --------------------------------
(***************************************************************************)
(* detect_with_lev up to its decision (decode-algs.c:49-179): the packet   *)
(* is compared with the code word of one value after the other, and with   *)
(* -k one of the values that tie is drawn.  main calls it for one packet   *)
(* after the other.  What is counted of the outcome is the module Report.  *)
(***************************************************************************)
EXTENDS CodeBook, EditDistance

CONSTANTS
    Options,      \* the options decode may be started with
    Packets(_),   \* the packets the filter may hand over under some options
    MAX_BITS,     \* the length of the array target
    MAX_VALUES    \* the length of the array ties_index

INT_MAX == 2147483647

expected_len(o) == total_len(o.bits_per_packet, o.mpdus_per_bit, o.preamble_mpdus)
num_words(o) == num_values_of(o.bits_per_packet)
lev_word(o, v) ==
    lev_string(o.bits_per_packet, o.mpdus_per_bit, o.preamble_mpdus, v)

\* What process_options and create_lev_strings let through: -P, -B and -M,
\* -x, -j and -k.  2 to the number of bits is an int.
LegalOptions ==
    {o \in [preamble_mpdus : Nat \ {0}, bits_per_packet : 1 .. 30,
            mpdus_per_bit : Nat \ {0}, exact_lev_len : BOOLEAN,
            extra_ones_added : BOOLEAN, print_bit_error_rate : BOOLEAN] :
        expected_len(o) <= MAX_BITS /\ num_words(o) <= MAX_VALUES}

\* The edit distance of two strings that fit their arrays is less than
\* INT_MAX, with which min starts.
ASSUME ArraysAssumption ==
    MAX_VALUES \in Nat /\ MAX_BITS \in Nat /\ 2 * MAX_BITS < INT_MAX
ASSUME OptionsAssumption == Options \subseteq LegalOptions
ASSUME PacketsAssumption ==
    \A o \in Options : \A str \in Packets(o) :
        str \in Seq(Bit) /\ Len(str) \in 1 .. MAX_BITS

VARIABLES
    opts,              \* the options, which do not change
    packet,            \* the packet, << >> between two calls
    num,               \* the value that is compared next
    best,              \* min, min_index, ties_count and ties_index
    status,            \* "idle", "comparing", "matched", or "undefined" after
                       \* a write past an array
    decoded            \* num after the decision

vars == <<opts, packet, num, best, status, decoded>>

\* The local variables at the start of every call.
Nothing == [min |-> INT_MAX, min_index |-> -1, ties_count |-> 0,
            ties_index |-> [i \in 0 .. MAX_VALUES - 1 |-> 0]]

Idle ==
    /\ packet = << >>
    /\ num = 0
    /\ best = Nothing
    /\ status = "idle"
    /\ decoded = -1

Init == opts \in Options /\ Idle

-----------------------------------------------------------------------------
(* Plausible slips, kept for the mutation checks.                           *)

\* the count of ties survives a better result
TiesSurvive(b, n, result) ==
    IF result < b.min
    THEN [b EXCEPT !.min = result, !.min_index = n, !.ties_index[0] = n]
    ELSE IF result = b.min
    THEN [b EXCEPT !.ties_count = @ + 1, !.ties_index[b.ties_count + 1] = n]
    ELSE b

\* a 1 is added at both ends at once
TargetFitsBoth(o, str) == expected_len(o) + 3 <= MAX_BITS

-----------------------------------------------------------------------------
\* A packet that does not have the ideal length is compared with each code
\* word with a 1 before it and with a 1 after it, unless -x or -j is given.
Extended(o, str) ==
    o.extra_ones_added /\ ~o.exact_lev_len /\ Len(str) # expected_len(o)

\* The strings a packet is compared with for the value v, in their order.
Targets(o, str, v) ==
    IF Extended(o, str)
    THEN << <<1>> \o lev_word(o, v), lev_word(o, v) \o <<1>> >>
    ELSE << lev_word(o, v) >>

\* strcpy and strcat into target, which has to take the final '\0' as well.
TargetFits(o, str) == Extended(o, str) => expected_len(o) + 2 <= MAX_BITS

\* Without -k: the first of the smallest results.
keep_least(b, n, result) ==
    IF result < b.min THEN [b EXCEPT !.min = result, !.min_index = n] ELSE b

\* With -k: every result that equals the smallest is kept.
break_ties(b, n, result) ==
    IF result < b.min
    THEN [b EXCEPT !.min = result, !.min_index = n, !.ties_count = 0,
                   !.ties_index[0] = n]
    ELSE IF result = b.min
    THEN [b EXCEPT !.ties_count = @ + 1, !.ties_index[b.ties_count + 1] = n]
    ELSE b

Taken(b, result) ==
    IF opts.print_bit_error_rate THEN break_ties(b, num, result)
    ELSE keep_least(b, num, result)

\* main calls detect_with_lev with the packet the filter found.
Call(str) ==
    /\ status = "idle"
    /\ packet' = str
    /\ status' = "comparing"
    /\ UNCHANGED <<opts, num, best, decoded>>

\* One value of the loop.
Compare ==
    /\ status = "comparing"
    /\ num < num_words(opts)
    /\ LET targets == Targets(opts, packet, num)
           first == Taken(best, levenshtein(packet, targets[1]))
           both  == IF Len(targets) = 1 THEN first
                    ELSE Taken(first, levenshtein(packet, targets[2]))
       IN  IF /\ TargetFits(opts, packet)
              /\ first.ties_count < MAX_VALUES /\ both.ties_count < MAX_VALUES
           THEN best' = both /\ UNCHANGED status
           ELSE status' = "undefined" /\ UNCHANGED best
    /\ num' = num + 1
    /\ UNCHANGED <<opts, packet, decoded>>

\* rand() % ties_count, when there are ties
Draws == IF best.ties_count > 0 THEN 0 .. best.ties_count - 1 ELSE {0}

\* The decision after the loop, which has found a match: there is a value.
Decide ==
    /\ status = "comparing"
    /\ num = num_words(opts)
    /\ status' = "matched"
    /\ IF opts.print_bit_error_rate
       THEN \E rand_num \in Draws : decoded' = best.ties_index[rand_num]
       ELSE decoded' = best.min_index
    /\ UNCHANGED <<opts, packet, num, best>>

\* The call ends, and its local variables are gone.
Return ==
    /\ status = "matched"
    /\ packet' = << >>
    /\ num' = 0
    /\ best' = Nothing
    /\ status' = "idle"
    /\ decoded' = -1
    /\ UNCHANGED opts

Steps == Compare \/ Decide \/ Return

Next == (\E str \in Packets(opts) : Call(str)) \/ Steps

Spec == Init /\ [][Next]_vars

-----------------------------------------------------------------------------
(* The properties.                                                          *)

Values == 0 .. num_words(opts) - 1

\* How far the packet is from the strings of a value.
Away(v) ==
    First({levenshtein(packet, Targets(opts, packet, v)[i]) :
              i \in DOMAIN Targets(opts, packet, v)})

\* The values no other is closer than.
Nearest == LET away == [v \in Values |-> Away(v)]
           IN  {v \in Values : \A w \in Values : away[v] <= away[w]}

\* The value that is decoded is one of the nearest, without -k the lowest of
\* them; with -k the ties are exactly the nearest values (decode-algs.c:27-42,
\* 73-152, 161-176).
DecodesNearest ==
    status = "matched" =>
        /\ decoded \in Nearest
        /\ IF opts.print_bit_error_rate
           THEN {best.ties_index[i] : i \in 0 .. best.ties_count} = Nearest
           ELSE decoded = First(Nearest)

\* What one error, a flipped, missing or added MPDU inside the message, makes
\* of a word, and the word with the extra 1 of a neighbouring MPDU on either
\* side.
OneEditOf(w) ==
    {w, <<1>> \o w, w \o <<1>>}
    \cup {[w EXCEPT ![i] = 1 - @] : i \in 2 .. Len(w) - 1}
    \cup {SubSeq(w, 1, i - 1) \o SubSeq(w, i + 1, Len(w)) :
             i \in 2 .. Len(w) - 1}
    \cup UNION {{SubSeq(w, 1, i) \o <<c>> \o SubSeq(w, i + 1, Len(w)) :
                    c \in Bit} : i \in 1 .. Len(w) - 1}

OneError(v) == OneEditOf(lev_word(opts, v))

\* With at least three MPDUs per bit one error is always corrected, whatever
\* the lengths the packet is compared at (decode-algs.c:79-151).
OneErrorCorrected ==
    status = "matched" /\ opts.mpdus_per_bit >= 3 =>
        \A v \in Values : packet \in OneError(v) => decoded = v

\* The ties always fit the array, and so does the code word with its extra 1,
\* if with -k there are half as many values as places, and two bits to spare,
\* whatever the packet (decode-algs.c:27-42, 97-120).
RoomForTies ==
    /\ opts.print_bit_error_rate => 2 * num_words(opts) <= MAX_VALUES
    /\ expected_len(opts) + 2 <= MAX_BITS
    => status # "undefined"
===============================================================================
