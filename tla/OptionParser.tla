----------------------------- MODULE OptionParser -----------------------------
(***************************************************************************)
(* process_options of process-options.c: the loop of getopt over the       *)
(* command line (122-457), and the defaults and the checks that follow it  *)
(* (461-634), with the defaults of options.c.  The properties say what     *)
(* follows from its checks: they leave much to the other parts of decode.  *)
(*                                                                         *)
(* getopt is a library: it hands over the options in their order, each     *)
(* with its argument, and then there are the arguments that are no         *)
(* options.  A number is one of 16 bits, so that the length of a packet is *)
(* an int; a file name is given (1) or not (0).                            *)
(***************************************************************************)
EXTENDS CodeBook, Integers, Sequences, FiniteSets

CONSTANTS
    Argvs,                 \* the command lines: sequences of options
    MAX_VALUES, MAX_BITS,  \* the lengths of the tables
    NumRegexes             \* the entries of value_regex_options

INT_MAX == 2147483647
MIN_ZEROS_DEFAULT == 4
SPURIOUS_ALLOWED == 5

\* The options that set one variable to their argument, and those that set one
\* to a constant.
Number ==
    [a |-> "amble_filter", b |-> "plen_short_by", c |-> "plen_long_by",
     g |-> "gap_thold", l |-> "overlap_packet_count",
     m |-> "min_packet_count", n |-> "num_consecutive",
     w |-> "ack_stats_window", z |-> "min_zeros", Z |-> "zero_thold",
     B |-> "bits_per_packet", M |-> "mpdus_per_bit", P |-> "preamble_mpdus",
     E |-> "expected_value", R |-> "rate_gap_thold",
     N |-> "max_mpdus_p_ampdu", r |-> "regex_index", U |-> "outfile_count",
     D |-> "wait_time"]
Flag ==
    [A |-> <<"all_of_file", 1>>, e |-> <<"expected_in_file", 0>>,
     i |-> <<"preamble_index", 1>>, j |-> <<"extra_ones_added", 0>>,
     k |-> <<"print_bit_error_rate", 1>>, p |-> <<"packet_filter", 1>>,
     t |-> <<"filter_using_estimates", 1>>, q |-> <<"quiet_mode", 1>>,
     I |-> <<"infile", 1>>, v |-> <<"verbose", 1>>,
     x |-> <<"exact_lev_len", 1>>, S |-> <<"safe_mode", 1>>]

\* "file" is an argument that is no option.
Letters == DOMAIN Number \cup DOMAIN Flag
           \cup {"C", "G", "O", "F", "L", "s", "X", "h", "file"}

ASSUME TablesAssumption ==
    MAX_VALUES \in Nat \ {0} /\ MAX_BITS \in Nat \ {0} /\ NumRegexes \in Nat
Arguments == -32768 .. 32767
ASSUME ArgvsAssumption ==
    Argvs \subseteq Seq([opt : Letters, arg : Arguments])

VARIABLES
    argv,    \* the command line, which does not change
    optind,  \* the option getopt hands over next
    o,       \* the options: the value of each variable of options.c
    status   \* "parsing", "accepted", "exited", or "aborted" by an assertion,
             \* or by writing or reading past a table before it

vars == <<argv, optind, o, status>>

Defaults ==
    [bits_per_packet |-> -1, mpdus_per_bit |-> -1, preamble_mpdus |-> -1,
     expected_value |-> -1, min_zeros |-> -1, gap_thold |-> INT_MAX,
     rate_gap_thold |-> INT_MAX, filter_and_print_packets |-> 0,
     quiet_mode |-> 0, safe_mode |-> 0, consecutive_zeros |-> 0,
     ampdu_greater_than |-> 0, too_short_len |-> 0,
     filter_using_estimates |-> 0, expected_in_file |-> 1,
     exact_lev_len |-> 0, outfile1 |-> 0, infile |-> 0, outfile_count |-> 0,
     zero_thold |-> INT_MAX, amble_filter |-> 0, all_of_file |-> 0,
     packet_filter |-> 1, num_consecutive |-> 0, min_packet_count |-> 0,
     verbose |-> 0, regex_index |-> 2, overlap_packet_count |-> 0,
     max_mpdus_p_ampdu |-> 32, plen_short_by |-> 1, plen_long_by |-> 3,
     wait_time |-> 2715, preamble_index |-> 0, extra_ones_added |-> 1,
     print_bit_error_rate |-> 0, ack_stats_window |-> 0]

Init ==
    /\ argv \in Argvs
    /\ optind = 1
    /\ o = Defaults
    /\ status = "parsing"

-----------------------------------------------------------------------------
(* The loop over the options.                                               *)

\* 2 to the power b in an int of 32 bits, as mypow multiplies b times.
mypow2(b) ==
    CASE b <= 0 -> 1
      [] b \in 1 .. 30 -> 2 ^ b
      [] b = 31 -> -INT_MAX - 1
      [] OTHER -> 0

\* A plausible slip: -O leaves outfile_count alone.
AssignedWithoutCount(c) ==
    CASE c.opt \in DOMAIN Number -> [v \in {Number[c.opt]} |-> c.arg]
      [] c.opt \in DOMAIN Flag -> [v \in {Flag[c.opt][1]} |-> Flag[c.opt][2]]
      [] c.opt = "C" -> [v \in {"consecutive_zeros", "ampdu_greater_than",
                                "wait_time"} |-> c.arg]
      [] c.opt = "G" -> [v \in {"ampdu_greater_than", "wait_time"} |-> c.arg]
      [] c.opt = "O" -> [outfile1 |-> 1]
      [] OTHER -> << >>

\* The variables an option assigns, as a function from their names.  There is
\* no break after -C and -G: their argument is that of -G and -D too.
Assigned(c) ==
    CASE c.opt \in DOMAIN Number -> [v \in {Number[c.opt]} |-> c.arg]
      [] c.opt \in DOMAIN Flag -> [v \in {Flag[c.opt][1]} |-> Flag[c.opt][2]]
      [] c.opt = "C" -> [v \in {"consecutive_zeros", "ampdu_greater_than",
                                "wait_time"} |-> c.arg]
      [] c.opt = "G" -> [v \in {"ampdu_greater_than", "wait_time"} |-> c.arg]
      [] c.opt = "F" -> [v \in {"filter_and_print_packets", "packet_filter"}
                         |-> 1]
      [] c.opt = "O" -> [outfile1 |-> 1,
                         outfile_count |-> IF o.outfile_count = 0 THEN 1
                                           ELSE o.outfile_count]
      [] OTHER -> << >>

\* Options that end the process at once.
Exits(c) ==
    \/ c.opt \in {"s", "X", "h"}
    \/ c.opt = "B" /\ mypow2(c.arg) > MAX_VALUES
Aborts(c) ==
    \/ c.opt = "r" /\ c.arg \notin 0 .. NumRegexes
    \/ c.opt = "E" /\ c.arg < 0

GetOpt ==
    /\ status = "parsing"
    /\ optind <= Len(argv)
    /\ LET c == argv[optind] IN
       /\ o' = [v \in DOMAIN o |-> IF v \in DOMAIN Assigned(c)
                                 THEN Assigned(c)[v] ELSE o[v]]
       /\ status' = IF Exits(c) THEN "exited"
                    ELSE IF Aborts(c) THEN "aborted" ELSE "parsing"
    /\ optind' = optind + 1
    /\ UNCHANGED argv

-----------------------------------------------------------------------------
(* After the loop.                                                          *)

Files == {k \in 1 .. Len(argv) : argv[k].opt = "file"}

expected_packet_len(x) ==
    2 + 2 * x.preamble_mpdus + x.bits_per_packet * x.mpdus_per_bit

default_max_zeros_in_packet(x) ==
    2 * x.preamble_mpdus + x.bits_per_packet * x.mpdus_per_bit
    + SPURIOUS_ALLOWED

\* A plausible slip: the sign of the 1 that is spared.
MinZerosAbove(x) ==
    IF x.preamble_mpdus > 0 THEN 2 * (x.preamble_mpdus + 1)
    ELSE MIN_ZEROS_DEFAULT

DefaultMinZeros(x) ==
    IF x.preamble_mpdus > 0 THEN 2 * (x.preamble_mpdus - 1)
    ELSE MIN_ZEROS_DEFAULT

\* What is computed from the options, for the options x.
Completed(x) ==
    [x EXCEPT
       !.min_zeros = IF @ = -1 THEN DefaultMinZeros(x) ELSE @,
       !.zero_thold = IF @ = INT_MAX THEN default_max_zeros_in_packet(x)
                      ELSE @,
       !.infile = IF Files # {} THEN 1 ELSE @,
       !.too_short_len = expected_packet_len(x) - x.plen_short_by]

\* More than one file, or a file and -I.
InputIsWrong(x) == Cardinality(Files) > 1 \/ (Files # {} /\ x.infile = 1)

\* -P, -M and -B: all of them, and not all 0, as the algorithm is always that
\* of Levenshtein.
SizeIsMissing(x) ==
    LET size == {x.bits_per_packet, x.mpdus_per_bit, x.preamble_mpdus} IN
    -1 \in size \/ size = {0}

\* A plausible slip: the lengths of the strings are not asserted.
TablesUnmeasured(x) == x.bits_per_packet > MAX_BITS

\* The tables of the words and of their names, which process_options creates:
\* the program exits if a packet is too long.  It asserts that no -B exceeds the
\* tables, that there is memory for as many strings as values, and that each
\* string has the length it should have: a value has one digit at least, and no
\* character is repeated less than 0 times.  -B 32 and more make 0 values, and
\* nothing is left to assert.
LengthIsWrong(x) == expected_packet_len(x) > MAX_BITS
TablesFail(x) ==
    \/ x.bits_per_packet > MAX_BITS
    \/ /\ ~LengthIsWrong(x) /\ mypow2(x.bits_per_packet) # 0
       /\ \/ x.bits_per_packet \notin 1 .. 30
          \/ x.mpdus_per_bit < 0 \/ x.preamble_mpdus < 0

\* The expected string is printed before the assertion that there is one.
NoSuchValue(x) ==
    x.expected_value # -1 /\ x.expected_value >= mypow2(x.bits_per_packet)

\* Which of -n, -l and -A are given: one at most.
Modes(x) == {v \in {"num_consecutive", "overlap_packet_count", "all_of_file"} :
                x[v] # 0}

\* -O without -n, -l or -A; -U or -S without -O.
OutputIsWrong(x) ==
    \/ /\ x.outfile1 = 1
       /\ x.num_consecutive <= 0 /\ x.overlap_packet_count <= 0
       /\ x.all_of_file = 0
    \/ x.outfile1 = 0 /\ (x.outfile_count # 0 \/ x.safe_mode = 1)

\* malloc has no memory for a negative number of names.
OutfilesFail(x) == x.outfile1 = 1 /\ x.outfile_count < 0

\* The first check that fails decides; opened is whether the input can be.
Verdict(x, opened) ==
    IF \/ InputIsWrong(x)
       \/ x.expected_in_file = 1 /\ x.expected_value # -1
       \/ SizeIsMissing(x)
    THEN "exited"
    ELSE IF TablesFail(x) THEN "aborted"
    ELSE IF LengthIsWrong(x) THEN "exited"
    ELSE IF NoSuchValue(x) THEN "aborted"
    ELSE IF Cardinality(Modes(x)) > 1 \/ ~opened \/ OutputIsWrong(x)
    THEN "exited"
    ELSE IF OutfilesFail(x) THEN "aborted"
    ELSE "accepted"

Check ==
    /\ status = "parsing"
    /\ optind > Len(argv)
    /\ o' = Completed(o)
    /\ \E opened \in BOOLEAN : status' = Verdict(o, opened)
    /\ UNCHANGED <<argv, optind>>

Next == GetOpt \/ Check

Spec == Init /\ [][Next]_vars

-----------------------------------------------------------------------------
(* Properties.                                                              *)

Accepted == status = "accepted"

\* A size of packets with bits, and ambles.  The code accepts others:
\* -M 0 and -P 0, and -B 32, which has no values.
SizeIsSensible ==
    /\ o.bits_per_packet \in 1 .. 30
    /\ o.mpdus_per_bit > 0 /\ o.preamble_mpdus > 0

\* What the checks leave, whatever the order and the repetition of the options,
\* although -B and -E are checked when they come (294-302, 361-378) and the
\* other numbers after the loop, if at all: there are at most MAX_VALUES values,
\* or none from -B 32 on; the code word of each has the length expected of a
\* packet, which fits the tables; the expected value is one of the values, and
\* comes from one place (decode.c:416-422); at most one way to vote is chosen,
\* and by whoever wants an output (window.c:184), safe mode among them, whose
\* files are counted (decode.c:162).  Nothing bounds -w, -n and -l: AckStats
\* and Vote assume numbers for them that are not checked here.
AcceptedIsLegal ==
    Accepted =>
        /\ o.bits_per_packet \in 1 .. 30 \/ o.bits_per_packet \in 32 .. MAX_BITS
        /\ mypow2(o.bits_per_packet) \in 0 .. MAX_VALUES
        /\ expected_packet_len(o) <= MAX_BITS
        /\ \A value \in 0 .. mypow2(o.bits_per_packet) - 1 :
              Len(lev_string(o.bits_per_packet, o.mpdus_per_bit,
                             o.preamble_mpdus, value)) = expected_packet_len(o)
        /\ o.expected_value \in -1 .. mypow2(o.bits_per_packet) - 1
        /\ o.expected_in_file = 1 => o.expected_value = -1
        /\ Cardinality(Modes(o)) <= 1
        /\ o.outfile1 = 1 => Modes(o) # {}
        /\ o.safe_mode = 1 => o.outfile1 = 1
        /\ o.outfile_count >= 0

\* The position of the last of these options before optind, 0 if there is none.
LastOf(letters) ==
    LET at == {k \in 1 .. optind - 1 : argv[k].opt \in letters} IN
    IF at = {} THEN 0 ELSE CHOOSE k \in at : \A j \in at : j <= k

LastArg(letters, default) ==
    IF LastOf(letters) = 0 THEN default ELSE argv[LastOf(letters)].arg

\* An output is opened (decode.c:162) whenever decode will write one, which
\* window.c:184 decides by the name and decode.c:553 by the number, unless the
\* command line says -U 0 after the -O.
OutputIsOpened ==
    Accepted /\ o.outfile1 = 1 =>
        o.outfile_count > 0 \/ LastArg({"U"}, 1) = 0

NumZeros(word) == Cardinality({k \in 1 .. Len(word) : word[k] = 0})

\* The thresholds of zeros that are used without -z and -Z (461-467, 543-546)
\* let the filter pass the word of every value, whatever the order of -P, -B
\* and -M (levenshtein-new.c:190-260, filter.c:437-460).
DefaultsPassEveryWord ==
    Accepted /\ SizeIsSensible /\ LastOf({"z", "Z"}) = 0 =>
        \A value \in 0 .. num_values_of(o.bits_per_packet) - 1 :
           NumZeros(lev_string(o.bits_per_packet, o.mpdus_per_bit,
                               o.preamble_mpdus, value))
               \in o.min_zeros .. o.zero_thold
===============================================================================
