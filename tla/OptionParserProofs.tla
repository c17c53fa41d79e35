-------------------------- MODULE OptionParserProofs ---------------------------
(***************************************************************************)
(* What process_options accepts, for every command line, every length of   *)
(* the tables and every number of regular expressions.                     *)
(***************************************************************************)
EXTENDS OptionParser, Lemmas

Names == DOMAIN Defaults

TypeOK ==
    /\ argv \in Argvs
    /\ optind \in Nat \ {0}
    /\ o \in [Names -> Int]
    /\ status \in {"parsing", "accepted", "exited", "aborted"}

-----------------------------------------------------------------------------
(* What an option assigns.                                                  *)

LEMMA NumberFacts ==
    ASSUME NEW l \in DOMAIN Number
    PROVE  /\ Number[l] \in Names
           /\ l \notin DOMAIN Flag \cup {"C", "G", "O", "F"}
           /\ Number[l] \notin {"safe_mode", "outfile1", "expected_in_file"}
           /\ Number[l] = "bits_per_packet" <=> l = "B"
           /\ Number[l] = "expected_value" <=> l = "E"
           /\ Number[l] = "outfile_count" <=> l = "U"
           /\ Number[l] = "min_zeros" <=> l = "z"
           /\ Number[l] = "zero_thold" <=> l = "Z"
BY DEF Number, Names, Defaults, Flag

LEMMA FlagFacts ==
    ASSUME NEW l \in DOMAIN Flag
    PROVE  /\ Flag[l][1] \in Names
           /\ Flag[l][2] \in {0, 1}
           /\ l \notin DOMAIN Number \cup {"C", "G", "O", "F"}
           /\ Flag[l][1] \notin {"bits_per_packet", "outfile1",
                                 "expected_value", "outfile_count",
                                 "min_zeros", "zero_thold"}
BY DEF Number, Names, Defaults, Flag

\* What the options do to the variables the properties are about.
Written(c) ==
    /\ o'.bits_per_packet = IF c.opt = "B" THEN c.arg ELSE o.bits_per_packet
    /\ o'.expected_value = IF c.opt = "E" THEN c.arg ELSE o.expected_value
    /\ o'.outfile_count =
           IF c.opt = "U" THEN c.arg
           ELSE IF c.opt = "O" /\ o.outfile_count = 0 THEN 1
           ELSE o.outfile_count
    /\ o'.outfile1 = IF c.opt = "O" THEN 1 ELSE o.outfile1
    /\ o'.min_zeros = IF c.opt = "z" THEN c.arg ELSE o.min_zeros
    /\ o'.zero_thold = IF c.opt = "Z" THEN c.arg ELSE o.zero_thold
    /\ o'.safe_mode \in {o.safe_mode, 0, 1}
    /\ o'.expected_in_file \in {o.expected_in_file, 0, 1}

LEMMA GetOptWrites ==
    ASSUME TypeOK, GetOpt
    PROVE  /\ argv[optind] \in [opt : Letters, arg : Int]
           /\ o' \in [Names -> Int]
           /\ Written(argv[optind])
<1> DEFINE c == argv[optind]
<1>1. c \in [opt : Letters, arg : Int]
  <2>1. argv \in Seq([opt : Letters, arg : Arguments])
    BY ArgvsAssumption DEF TypeOK
  <2>2. optind \in 1 .. Len(argv)
    BY <2>1 DEF TypeOK, GetOpt
  <2>3. argv[optind] \in [opt : Letters, arg : Arguments]
    BY <2>1, <2>2, ElementOfSeq
  <2>4. Arguments \subseteq Int
    BY DEF Arguments
  <2> QED
    BY <2>3, <2>4
<1>2. /\ o \in [Names -> Int] /\ DOMAIN o = Names
      /\ o' = [v \in Names |-> IF v \in DOMAIN Assigned(c)
                              THEN Assigned(c)[v] ELSE o[v]]
  BY DEF TypeOK, GetOpt
<1> DEFINE A == Assigned(c)
           All == {"consecutive_zeros", "ampdu_greater_than", "wait_time",
                   "bits_per_packet", "expected_value", "outfile_count",
                   "outfile1", "packet_filter", "safe_mode",
                   "expected_in_file", "filter_and_print_packets",
                   "min_zeros", "zero_thold"}
<1>3. All \subseteq Names
  BY DEF Names, Defaults
<1>4. CASE c.opt \in DOMAIN Number
  <2>1. A = [v \in {Number[c.opt]} |-> c.arg]
    BY <1>4, NumberFacts DEF Assigned
  <2>2. o' = [v \in Names |-> IF v = Number[c.opt] THEN c.arg ELSE o[v]]
    BY <1>2, <2>1
  <2> QED
    BY <1>1, <1>2, <1>3, <1>4, <2>2, NumberFacts DEF Written
<1>5. CASE c.opt \in DOMAIN Flag
  <2>1. A = [v \in {Flag[c.opt][1]} |-> Flag[c.opt][2]]
    BY <1>5, FlagFacts DEF Assigned
  <2> DEFINE name == Flag[c.opt][1]
             value == Flag[c.opt][2]
  <2>2. o' = [v \in Names |-> IF v = name THEN value ELSE o[v]]
    BY <1>2, <2>1
  <2>3. /\ name \in Names
        /\ value \in {0, 1}
        /\ name \notin {"bits_per_packet", "outfile1", "expected_value",
                         "outfile_count", "min_zeros", "zero_thold"}
        /\ c.opt \notin {"B", "E", "U", "O", "z", "Z"}
    BY <1>5, FlagFacts DEF Flag
  <2> HIDE DEF name, value
  <2>4. /\ o' \in [Names -> Int]
        /\ \A v \in All : o'[v] = IF v = name THEN value ELSE o[v]
    BY <1>2, <1>3, <2>2, <2>3
  <2> QED
    BY <1>1, <2>3, <2>4 DEF Written
<1>6. CASE c.opt \notin DOMAIN Number \cup DOMAIN Flag
  <2>1. CASE c.opt = "C"
    <3>1. A = [v \in {"consecutive_zeros", "ampdu_greater_than", "wait_time"}
                 |-> c.arg]
      BY <1>6, <2>1 DEF Assigned
    <3> QED
      BY <1>1, <1>2, <1>3, <2>1, <3>1 DEF Written
  <2>2. CASE c.opt = "G"
    <3>1. A = [v \in {"ampdu_greater_than", "wait_time"} |-> c.arg]
      BY <1>6, <2>2 DEF Assigned
    <3> QED
      BY <1>1, <1>2, <1>3, <2>2, <3>1 DEF Written
  <2>3. CASE c.opt = "F"
    <3>1. A = [v \in {"filter_and_print_packets", "packet_filter"} |-> 1]
      BY <1>6, <2>3 DEF Assigned
    <3> QED
      BY <1>1, <1>2, <1>3, <2>3, <3>1 DEF Written
  <2>4. CASE c.opt = "O"
    <3>1. A = [outfile1 |-> 1,
               outfile_count |-> IF o.outfile_count = 0 THEN 1
                                 ELSE o.outfile_count]
      BY <1>6, <2>4 DEF Assigned
    <3>2. /\ DOMAIN A = {"outfile1", "outfile_count"}
          /\ A["outfile1"] = 1
          /\ A["outfile_count"] = IF o.outfile_count = 0 THEN 1
                                  ELSE o.outfile_count
      BY <3>1
    <3> QED
      BY <1>1, <1>2, <1>3, <2>4, <3>2 DEF Written
  <2>5. CASE c.opt \notin {"C", "G", "F", "O"}
    <3>1. A = << >>
      BY <1>6, <2>5 DEF Assigned
    <3>2. DOMAIN A = {}
      BY <3>1
    <3>3. o' = o
      BY <1>2, <3>2
    <3>4. c.opt \notin {"B", "E", "U", "z", "Z"}
      BY <1>6 DEF Number
    <3> QED
      BY <1>1, <1>2, <2>5, <3>3, <3>4 DEF Written
  <2> QED
    BY <2>1, <2>2, <2>3, <2>4, <2>5
<1>7. \/ c.opt \in DOMAIN Number
      \/ c.opt \in DOMAIN Flag
      \/ c.opt \notin DOMAIN Number \cup DOMAIN Flag
  <2> HIDE DEF c
  <2> QED
    OBVIOUS
<1> QED
  BY <1>4, <1>5, <1>6, <1>7, Zenon

-----------------------------------------------------------------------------
(* The last option of a kind.                                               *)

Latest(S) == IF S = {} THEN 0 ELSE CHOOSE k \in S : \A j \in S : j <= k

LEMMA LastAfterGetOpt ==
    ASSUME TypeOK, GetOpt, NEW letters
    PROVE  /\ LastOf(letters)' = IF argv[optind].opt \in letters THEN optind
                                 ELSE LastOf(letters)
           /\ \A default :
                 LastArg(letters, default)' =
                     IF argv[optind].opt \in letters THEN argv[optind].arg
                     ELSE LastArg(letters, default)
<1> DEFINE at == {k \in 1 .. optind - 1 : argv[k].opt \in letters}
           after == {k \in 1 .. optind : argv[k].opt \in letters}
<1>1. optind \in Nat \ {0} /\ optind' - 1 = optind /\ argv' = argv
  BY DEF TypeOK, GetOpt
<1>2. LastOf(letters) = Latest(at) /\ LastOf(letters)' = Latest(after)
  <2>1. after = {k \in 1 .. optind' - 1 : argv'[k].opt \in letters}
    BY <1>1
  <2>2. LastOf(letters) = Latest(at)
    BY DEF LastOf, Latest
  <2>3. LastOf(letters)' = Latest({k \in 1 .. optind' - 1 : argv'[k].opt \in letters})
    BY DEF LastOf, Latest
  <2> QED
    BY <2>1, <2>2, <2>3
<1>3. CASE argv[optind].opt \in letters
  <2>1. optind \in after /\ \A j \in after : j <= optind /\ j \in Nat
    BY <1>1, <1>3
  <2>2. Latest(after) = optind
    BY <1>1, <2>1 DEF Latest
  <2> QED
    BY <1>1, <1>2, <1>3, <2>2 DEF LastArg
<1>4. CASE argv[optind].opt \notin letters
  <2>1. after = at
    BY <1>1, <1>4
  <2> QED
    BY <1>1, <1>2, <1>4, <2>1 DEF LastArg
<1> QED
  BY <1>3, <1>4

LEMMA LastAfterCheck ==
    ASSUME NEW letters, UNCHANGED <<argv, optind>>
    PROVE  /\ LastOf(letters)' = LastOf(letters)
           /\ \A default :
                 LastArg(letters, default)' = LastArg(letters, default)
BY DEF LastArg, LastOf

-----------------------------------------------------------------------------
(* The values and their words.                                              *)

LEMMA mypow2Type ==
    ASSUME NEW b \in Int
    PROVE  /\ mypow2(b) \in Int
           /\ b \in 1 .. 30 => mypow2(b) = 2 ^ b /\ mypow2(b) >= 1
           /\ b > 31 <=> mypow2(b) = 0
<1>1. CASE b <= 0
  BY <1>1 DEF mypow2
<1>2. CASE b \in 1 .. 30
  <2>1. ~ (b <= 0) /\ b # 31
    BY <1>2
  <2>2. mypow2(b) = 2 ^ b
    BY <1>2, <2>1, Zenon DEF mypow2
  <2>3. 2 ^ b \in Nat /\ b < 2 ^ b
    <3>1. b \in 0 .. 30
      BY <1>2
    <3> QED
      BY <3>1, Powers
  <2> QED
    BY <1>2, <2>2, <2>3
<1>3. CASE b = 31
  BY <1>3 DEF mypow2, INT_MAX
<1>4. CASE b > 31
  BY <1>4 DEF mypow2
<1> QED
  BY <1>1, <1>2, <1>3, <1>4

\* A code word has the length expected of a packet, without ambles too.
LEMMA WordLength ==
    ASSUME NEW b \in 1 .. 30, NEW value \in 0 .. 2 ^ b - 1,
           NEW m \in Nat, NEW p \in Nat
    PROVE  Len(lev_string(b, m, p, value)) = total_len(b, m, p)
<1> DEFINE d == num_digits(value)
           lead == Zeros(m * (b - d))
           digits == Repeated(to_binary(value), m)
<1>1. d \in 1 .. b /\ to_binary(value) \in Seq(Bit) /\ Len(to_binary(value)) = d
  BY DigitsOfValue, BinaryFacts
<1>2. /\ m * (b - d) \in Nat /\ m * d \in Nat
      /\ m * (b - d) + m * d = b * m
  <2> HIDE DEF d
  <2>1. m * (b - d) + m * d = m * b /\ m * b = b * m
    BY <1>1
  <2> QED
    BY <1>1, <2>1
<1>3. digits \in Seq(Bit) /\ Len(digits) = m * d
  <2>1. CASE m = 0
    <3>1. m * Len(to_binary(value)) = 0 /\ m * d = 0
      BY <1>1, <2>1
    <3>2. digits = << >>
      BY <3>1 DEF Repeated
    <3> QED
      BY <3>1, <3>2
  <2>2. CASE m # 0
    BY <1>1, <2>2, RepeatedFacts
  <2> QED
    BY <2>1, <2>2
<1>4. lead \in Seq(Bit) /\ Len(lead) = m * (b - d)
  <2> HIDE DEF d
  <2> QED
    BY <1>2 DEF Zeros, Bit
<1>5. Zeros(p) \in Seq(Bit) /\ Len(Zeros(p)) = p /\ <<1>> \in Seq(Bit)
  BY DEF Zeros, Bit
<1>6. lev_string(b, m, p, value)
          = <<1>> \o Zeros(p) \o (lead \o digits) \o Zeros(p) \o <<1>>
  BY DEF lev_string, message_bits
<1>7. b * m \in Nat
  OBVIOUS
<1> HIDE DEF lead, digits, d
<1>8. lead \o digits \in Seq(Bit) /\ Len(lead \o digits) = b * m
  BY <1>2, <1>3, <1>4
<1> DEFINE message == lead \o digits
<1> HIDE DEF message
<1>9. message \in Seq(Bit) /\ Len(message) = b * m
  BY <1>8 DEF message
<1>10. Len(<<1>> \o Zeros(p) \o message \o Zeros(p) \o <<1>>) = 1 + p + b * m + p + 1
  BY <1>5, <1>7, <1>9
<1> QED
  BY <1>6, <1>7, <1>10 DEF total_len, message

-----------------------------------------------------------------------------
(* The inductive invariant: what the loop keeps true of the options, and    *)
(* what the checks after it add.                                            *)

FlagsAreSet == {o.safe_mode, o.outfile1, o.expected_in_file} \subseteq {0, 1}

\* What -B and -E check at once.
SizesPass ==
    status = "parsing" =>
        mypow2(o.bits_per_packet) <= MAX_VALUES /\ o.expected_value >= -1

\* OutputIsOpened as long as options come: -U may make outfile_count negative.
OutputIsCounted ==
    o.outfile1 = 1 => o.outfile_count # 0 \/ LastArg({"U"}, 1) = 0

\* Without -z and -Z the thresholds are unset during the loop, and the
\* computed ones after it.
ThresholdsAreDefaults ==
    LastOf({"z", "Z"}) = 0 =>
        /\ status = "parsing" => o.min_zeros = -1 /\ o.zero_thold = INT_MAX
        /\ Accepted => /\ o.min_zeros = DefaultMinZeros(o)
                       /\ o.zero_thold = default_max_zeros_in_packet(o)

Inv ==
    /\ TypeOK
    /\ FlagsAreSet
    /\ SizesPass
    /\ OutputIsCounted
    /\ ThresholdsAreDefaults
    /\ AcceptedIsLegal

LEMMA InitInv == Init => Inv
<1> SUFFICES ASSUME Init PROVE Inv
  OBVIOUS
<1>1. Defaults \in [Names -> Int]
  BY DEF Names, Defaults, INT_MAX
<1>2. TypeOK
  BY <1>1 DEF Init, TypeOK
<1>3. FlagsAreSet
  BY DEF Init, Defaults, FlagsAreSet
<1>4. SizesPass
  BY TablesAssumption DEF Init, Defaults, SizesPass, mypow2
<1>6. OutputIsCounted
  BY DEF Init, Defaults, OutputIsCounted
<1>7. ThresholdsAreDefaults
  BY DEF Init, Defaults, ThresholdsAreDefaults, Accepted
<1>9. AcceptedIsLegal
  BY DEF Init, AcceptedIsLegal, Accepted
<1> QED
  BY <1>2, <1>3, <1>4, <1>6, <1>7, <1>9 DEF Inv

LEMMA GetOptInv ==
    ASSUME Inv, GetOpt
    PROVE  Inv'
<1> DEFINE c == argv[optind]
<1>1. TypeOK /\ c \in [opt : Letters, arg : Int]
      /\ o' \in [Names -> Int] /\ Written(c)
  BY GetOptWrites DEF Inv
<1>2. /\ status = "parsing" /\ argv' = argv /\ optind' = optind + 1
      /\ status' = IF Exits(c) THEN "exited"
                   ELSE IF Aborts(c) THEN "aborted" ELSE "parsing"
  BY DEF GetOpt
<1>3. /\ c.arg \in Int
      /\ {"bits_per_packet", "expected_value", "outfile_count"} \subseteq Names
      /\ o \in [Names -> Int]
  BY <1>1 DEF Names, Defaults, TypeOK
<1>4. \A letters :
         /\ LastOf(letters)' = IF c.opt \in letters THEN optind
                               ELSE LastOf(letters)
         /\ \A default :
               LastArg(letters, default)' =
                   IF c.opt \in letters THEN c.arg ELSE LastArg(letters, default)
  BY <1>1, LastAfterGetOpt
<1> HIDE DEF c
<1>5. TypeOK'
  BY <1>1, <1>2 DEF TypeOK
<1>6. FlagsAreSet'
  BY <1>1 DEF Written, Inv, FlagsAreSet
<1>7. SizesPass'
  <2> SUFFICES ASSUME status' = "parsing"
               PROVE  mypow2(o'.bits_per_packet) <= MAX_VALUES
                      /\ o'.expected_value >= -1
    BY DEF SizesPass
  <2>1. ~ Exits(c) /\ ~ Aborts(c)
    BY <1>2
  <2>2. mypow2(c.arg) \in Int /\ MAX_VALUES \in Int
    BY <1>3, mypow2Type, TablesAssumption
  <2>3. c.opt = "B" => mypow2(c.arg) <= MAX_VALUES
    BY <2>1, <2>2 DEF Exits
  <2>4. c.opt = "E" => c.arg >= 0
    BY <1>3, <2>1 DEF Aborts
  <2> QED
    BY <1>1, <1>2, <1>3, <2>3, <2>4 DEF Written, Inv, SizesPass
<1>8. OutputIsCounted'
  <2>1. LastArg({"U"}, 1)' = IF c.opt = "U" THEN c.arg ELSE LastArg({"U"}, 1)
    BY <1>4
  <2>2. o.outfile_count \in Int
    BY <1>3
  <2> QED
    BY <1>1, <1>3, <2>1, <2>2 DEF Written, Inv, OutputIsCounted
<1>9. ThresholdsAreDefaults'
  <2> SUFFICES ASSUME LastOf({"z", "Z"})' = 0, status' = "parsing"
               PROVE  o'.min_zeros = -1 /\ o'.zero_thold = INT_MAX
    BY <1>2 DEF ThresholdsAreDefaults, Accepted
  <2>1. c.opt \notin {"z", "Z"} /\ LastOf({"z", "Z"}) = 0
    BY <1>1, <1>4 DEF TypeOK
  <2> QED
    BY <1>1, <1>2, <2>1 DEF Written, Inv, ThresholdsAreDefaults
<1>11. AcceptedIsLegal'
  BY <1>2 DEF AcceptedIsLegal, Accepted
<1> QED
  BY <1>5, <1>6, <1>7, <1>8, <1>9, <1>11 DEF Inv

LEMMA ModesCounted ==
    ASSUME NEW x
    PROVE  Cardinality(Modes(x)) \in Nat
<1>1. Modes(x) \subseteq {"num_consecutive", "overlap_packet_count",
                          "all_of_file"}
  BY DEF Modes
<1>2. IsFiniteSet({"num_consecutive", "overlap_packet_count", "all_of_file"})
  <2> DEFINE one == {"num_consecutive"}
             two == one \cup {"overlap_packet_count"}
  <2>1. IsFiniteSet(one)
    BY FS_Singleton
  <2>2. IsFiniteSet(two)
    BY <2>1, FS_AddElement
  <2>3. IsFiniteSet(two \cup {"all_of_file"})
    BY <2>2, FS_AddElement
  <2>4. two \cup {"all_of_file"} = {"num_consecutive", "overlap_packet_count",
                                   "all_of_file"}
    OBVIOUS
  <2> QED
    BY <2>3, <2>4
<1> QED
  BY <1>1, <1>2, FS_Subset, FS_CardinalityType

\* What is computed after the loop leaves the variables of AcceptedIsLegal.
LEMMA CompletedFacts ==
    ASSUME NEW x \in [Names -> Int]
    PROVE  LET y == Completed(x) IN
           /\ y \in [Names -> Int]
           /\ \A v \in Names \ {"min_zeros", "zero_thold", "infile",
                               "too_short_len"} : y[v] = x[v]
           /\ y.min_zeros = IF x.min_zeros = -1 THEN DefaultMinZeros(x)
                            ELSE x.min_zeros
           /\ y.zero_thold = IF x.zero_thold = INT_MAX
                             THEN default_max_zeros_in_packet(x)
                             ELSE x.zero_thold
           /\ Modes(y) = Modes(x)
           /\ expected_packet_len(y) = expected_packet_len(x)
           /\ DefaultMinZeros(y) = DefaultMinZeros(x)
           /\ default_max_zeros_in_packet(y) = default_max_zeros_in_packet(x)
<1> DEFINE y == Completed(x)
           Kept == Names \ {"min_zeros", "zero_thold", "infile",
                            "too_short_len"}
<1>1. /\ {"bits_per_packet", "mpdus_per_bit", "preamble_mpdus",
          "num_consecutive", "overlap_packet_count", "all_of_file",
          "plen_short_by"} \subseteq Kept
      /\ {"min_zeros", "zero_thold", "infile", "too_short_len"} \subseteq Names
  BY DEF Names, Defaults
<1>2. /\ DefaultMinZeros(x) \in Int /\ default_max_zeros_in_packet(x) \in Int
      /\ expected_packet_len(x) - x.plen_short_by \in Int
  BY <1>1 DEF DefaultMinZeros, default_max_zeros_in_packet,
              expected_packet_len, MIN_ZEROS_DEFAULT, SPURIOUS_ALLOWED
<1>3. /\ y \in [Names -> Int]
      /\ \A v \in Kept : y[v] = x[v]
      /\ y.min_zeros = IF x.min_zeros = -1 THEN DefaultMinZeros(x)
                       ELSE x.min_zeros
      /\ y.zero_thold = IF x.zero_thold = INT_MAX
                        THEN default_max_zeros_in_packet(x)
                        ELSE x.zero_thold
  <2> DEFINE zeros == DefaultMinZeros(x)
             thold == default_max_zeros_in_packet(x)
             short == expected_packet_len(x) - x.plen_short_by
  <2>1. y = [v \in Names |->
                CASE v = "min_zeros" -> IF x.min_zeros = -1 THEN zeros
                                        ELSE x.min_zeros
                  [] v = "zero_thold" -> IF x.zero_thold = INT_MAX THEN thold
                                         ELSE x.zero_thold
                  [] v = "infile" -> IF Files # {} THEN 1 ELSE x.infile
                  [] v = "too_short_len" -> short
                  [] OTHER -> x[v]]
    BY <1>1 DEF Completed
  <2>2. zeros \in Int /\ thold \in Int /\ short \in Int
    BY <1>2
  <2> HIDE DEF y, zeros, thold, short
  <2>3. /\ y \in [Names -> Int]
        /\ \A v \in Kept : y[v] = x[v]
    BY <1>1, <2>1, <2>2
  <2>4. /\ y.min_zeros = IF x.min_zeros = -1 THEN zeros ELSE x.min_zeros
        /\ y.zero_thold = IF x.zero_thold = INT_MAX THEN thold
                          ELSE x.zero_thold
    BY <1>1, <2>1
  <2> QED
    BY <2>3, <2>4 DEF zeros, thold
<1> HIDE DEF y
<1>4. Modes(y) = Modes(x)
  BY <1>1, <1>3 DEF Modes
<1>5. /\ expected_packet_len(y) = expected_packet_len(x)
      /\ DefaultMinZeros(y) = DefaultMinZeros(x)
      /\ default_max_zeros_in_packet(y) = default_max_zeros_in_packet(x)
  BY <1>1, <1>3 DEF DefaultMinZeros, default_max_zeros_in_packet,
                    expected_packet_len
<1> QED
  BY <1>3, <1>4, <1>5 DEF y

LEMMA CheckInv ==
    ASSUME Inv, Check
    PROVE  Inv'
<1>1. /\ status = "parsing" /\ argv' = argv /\ optind' = optind
      /\ o' = Completed(o)
  BY DEF Check
<1>2. PICK opened \in BOOLEAN : status' = Verdict(o, opened)
  BY DEF Check
<1>3. status' \in {"exited", "aborted", "accepted"}
  BY <1>2 DEF Verdict
<1>4. o \in [Names -> Int]
  BY DEF Inv, TypeOK
<1> DEFINE Kept == {"safe_mode", "outfile1",
                    "expected_in_file", "outfile_count", "bits_per_packet",
                    "mpdus_per_bit", "preamble_mpdus", "expected_value",
                    "num_consecutive", "overlap_packet_count", "all_of_file"}
<1>5. \A v \in Kept : v \in Names /\ o'[v] = o[v]
  <2>1. Kept \subseteq Names \ {"min_zeros", "zero_thold", "infile",
                               "too_short_len"}
    BY DEF Names, Defaults
  <2> QED
    BY <1>1, <1>4, <2>1, CompletedFacts
<1>6. /\ o' \in [Names -> Int]
      /\ o'.min_zeros = IF o.min_zeros = -1 THEN DefaultMinZeros(o)
                        ELSE o.min_zeros
      /\ o'.zero_thold = IF o.zero_thold = INT_MAX
                         THEN default_max_zeros_in_packet(o)
                         ELSE o.zero_thold
      /\ Modes(o') = Modes(o)
      /\ expected_packet_len(o') = expected_packet_len(o)
      /\ DefaultMinZeros(o') = DefaultMinZeros(o)
      /\ default_max_zeros_in_packet(o') = default_max_zeros_in_packet(o)
  BY <1>1, <1>4, CompletedFacts
<1>7. \A letters :
         /\ LastOf(letters)' = LastOf(letters)
         /\ \A default :
               LastArg(letters, default)' = LastArg(letters, default)
  BY <1>1, LastAfterCheck
<1>8. TypeOK'
  BY <1>1, <1>3, <1>6 DEF Inv, TypeOK
<1>9. FlagsAreSet'
  BY <1>5 DEF Inv, FlagsAreSet
<1>10. SizesPass'
  BY <1>3 DEF SizesPass
<1>11. OutputIsCounted'
  BY <1>5, <1>7 DEF Inv, OutputIsCounted
<1>12. ThresholdsAreDefaults'
  BY <1>1, <1>3, <1>6, <1>7 DEF Inv, ThresholdsAreDefaults, Accepted
<1>14. AcceptedIsLegal'
  <2> DEFINE b == o.bits_per_packet
             m == o.mpdus_per_bit
             p == o.preamble_mpdus
             count == mypow2(b)
  <2> SUFFICES ASSUME Accepted'
               PROVE  /\ b \in 1 .. 30 \/ b \in 32 .. MAX_BITS
                      /\ count \in 0 .. MAX_VALUES
                      /\ expected_packet_len(o) <= MAX_BITS
                      /\ \A value \in 0 .. count - 1 :
                            Len(lev_string(b, m, p, value))
                                = expected_packet_len(o)
                      /\ o.expected_value \in -1 .. count - 1
                      /\ o.expected_in_file = 1 => o.expected_value = -1
                      /\ Cardinality(Modes(o)) <= 1
                      /\ o.outfile1 = 1 => Modes(o) # {}
                      /\ o.safe_mode = 1 => o.outfile1 = 1
                      /\ o.outfile_count >= 0
    BY <1>5, <1>6 DEF AcceptedIsLegal
  <2>1. /\ ~ (o.expected_in_file = 1 /\ o.expected_value # -1)
        /\ ~ TablesFail(o) /\ ~ LengthIsWrong(o) /\ ~ NoSuchValue(o)
        /\ ~ (Cardinality(Modes(o)) > 1) /\ ~ OutputIsWrong(o)
        /\ ~ OutfilesFail(o)
    BY <1>2 DEF Accepted, Verdict
  <2>2. b \in Int /\ m \in Int /\ p \in Int /\ o.outfile_count \in Int
        /\ o.expected_value \in Int
    BY <1>4, <1>5
  <2>3. count \in Int /\ count <= MAX_VALUES /\ MAX_VALUES \in Int
    BY <1>1, <2>2, mypow2Type, TablesAssumption DEF Inv, SizesPass
  <2>4. /\ b <= MAX_BITS
        /\ count = 0 \/ (b \in 1 .. 30 /\ m >= 0 /\ p >= 0)
    BY <2>1, <2>2, TablesAssumption DEF TablesFail
  <2>5. /\ b \in 1 .. 30 \/ b \in 32 .. MAX_BITS
        /\ count >= 0
    BY <2>2, <2>4, mypow2Type, TablesAssumption
  <2>6. expected_packet_len(o) <= MAX_BITS
    <3>1. expected_packet_len(o) \in Int /\ MAX_BITS \in Int
      BY <2>2, TablesAssumption DEF expected_packet_len
    <3> QED
      BY <2>1, <3>1 DEF LengthIsWrong
  <2>7. ASSUME NEW value \in 0 .. count - 1
        PROVE  Len(lev_string(b, m, p, value)) = expected_packet_len(o)
    <3>1. b \in 1 .. 30 /\ m \in Nat /\ p \in Nat
      BY <2>2, <2>4
    <3>2. value \in 0 .. 2 ^ b - 1
      BY <2>7, <3>1, mypow2Type
    <3>3. Len(lev_string(b, m, p, value)) = total_len(b, m, p)
      BY <3>1, <3>2, WordLength
    <3> QED
      BY <3>3 DEF total_len, expected_packet_len
  <2>8. o.expected_value \in -1 .. count - 1
    <3>1. o.expected_value >= -1
      BY <1>1 DEF Inv, SizesPass
    <3>2. o.expected_value = -1 \/ ~ (o.expected_value >= count)
      BY <2>1 DEF NoSuchValue
    <3> HIDE DEF count
    <3> QED
      BY <2>2, <2>3, <2>5, <3>1, <3>2
  <2>9. o.outfile1 = 1 => Modes(o) # {}
    BY <1>4, <1>5, <2>1 DEF OutputIsWrong, Modes
  <2>10. /\ o.safe_mode = 1 => o.outfile1 = 1
         /\ o.outfile_count >= 0
    BY <2>1, <2>2 DEF OutputIsWrong, OutfilesFail, Inv, FlagsAreSet
  <2>11. Cardinality(Modes(o)) <= 1
    BY <2>1, ModesCounted
  <2> HIDE DEF b, m, p, count
  <2> QED
    BY <2>1, <2>3, <2>5, <2>6, <2>7, <2>8, <2>9, <2>10, <2>11
<1> QED
  BY <1>8, <1>9, <1>10, <1>11, <1>12, <1>14 DEF Inv

\* What holds of the options whatever the command line.
THEOREM InvHolds == Spec => []Inv
<1>1. Inv /\ [Next]_vars => Inv'
  <2> SUFFICES ASSUME Inv, [Next]_vars
               PROVE  Inv'
    OBVIOUS
  <2>1. CASE GetOpt
    BY <2>1, GetOptInv
  <2>2. CASE Check
    BY <2>2, CheckInv
  <2>3. CASE UNCHANGED vars
    <3>1. argv' = argv /\ optind' = optind /\ o' = o /\ status' = status
      BY <2>3 DEF vars
    <3>2. AcceptedIsLegal'
      BY <3>1 DEF Inv, AcceptedIsLegal, Accepted
    <3>3. TypeOK' /\ FlagsAreSet' /\ SizesPass'
      BY <3>1 DEF Inv, TypeOK, FlagsAreSet, SizesPass
    <3>4. OutputIsCounted' /\ ThresholdsAreDefaults'
      BY <3>1 DEF Inv, OutputIsCounted, ThresholdsAreDefaults, LastArg, LastOf,
                  Accepted
    <3> QED
      BY <3>2, <3>3, <3>4 DEF Inv
  <2> QED
    BY <2>1, <2>2, <2>3 DEF Next
<1> QED
  BY <1>1, InitInv, PTL DEF Spec

\* Whatever the order and the repetition of the options, those accepted have a
\* code word of the expected length, which fits the tables, for each of at most
\* MAX_VALUES values, an expected value among these, and for an output one way
\* to vote and a number of files (process-options.c:474-634).
THEOREM AcceptedAreLegal == Spec => []AcceptedIsLegal
<1>1. Inv => AcceptedIsLegal
  BY DEF Inv
<1> QED
  BY <1>1, InvHolds, PTL

\* decode opens the output it writes, unless -U forbids it (decode.c:162).
THEOREM OutputAlwaysOpened == Spec => []OutputIsOpened
<1>1. Inv => OutputIsOpened
  <2>1. Inv => o.outfile_count \in Int
    BY DEF Inv, TypeOK, Names, Defaults
  <2> QED
    BY <2>1 DEF Inv, OutputIsCounted, OutputIsOpened, AcceptedIsLegal
<1> QED
  BY <1>1, InvHolds, PTL

-----------------------------------------------------------------------------
(* The thresholds.                                                          *)

LEMMA ZerosOfWord ==
    ASSUME NEW b \in 1 .. 30, NEW value \in 0 .. 2 ^ b - 1,
           NEW m \in Nat \ {0}, NEW p \in Nat \ {0}
    PROVE  NumZeros(lev_string(b, m, p, value)) \in 2 * p .. 2 * p + b * m + 2
<1> DEFINE word == lev_string(b, m, p, value)
           end == p + 1 + b * m
           len == end + p + 1
           zeros == {k \in 1 .. Len(word) : word[k] = 0}
           pre == 2 .. p + 1
           post == end + 1 .. end + p
<1>1. /\ Len(word) = len /\ end \in Nat /\ end > p + 1
      /\ \A k \in 1 .. p : word[k + 1] = 0 /\ word[end + k] = 0
  <2>1. Len(word) = total_len(b, m, p) /\ end \in Nat /\ end > p + 1
        /\ end + p + 1 = total_len(b, m, p)
        /\ \A k \in 1 .. p : word[k + 1] = 0 /\ word[end + k] = 0
    BY WordFacts, Zenon
  <2> QED
    BY <2>1, Zenon
<1>2. len = 2 * p + b * m + 2
  OBVIOUS
<1>3. NumZeros(word) = Cardinality(zeros)
  BY DEF NumZeros
<1> HIDE DEF word, end
<1>4. /\ IsFiniteSet(pre) /\ Cardinality(pre) = p
      /\ IsFiniteSet(post) /\ Cardinality(post) = p
      /\ IsFiniteSet(1 .. len) /\ Cardinality(1 .. len) = len
  BY <1>1, FS_Interval
<1>5. pre \cap post = {}
  BY <1>1
<1>6. pre \cup post \subseteq zeros
  <2>1. ASSUME NEW k \in pre PROVE k \in zeros
    <3>1. k - 1 \in 1 .. p /\ (k - 1) + 1 = k /\ k \in 1 .. len
      BY <1>1
    <3> QED
      BY <1>1, <3>1
  <2>2. ASSUME NEW k \in post PROVE k \in zeros
    <3>1. k - end \in 1 .. p /\ end + (k - end) = k /\ k \in 1 .. len
      BY <1>1
    <3> QED
      BY <1>1, <3>1
  <2> QED
    BY <2>1, <2>2
<1>7. zeros \subseteq 1 .. len
  BY <1>1
<1> HIDE DEF zeros, pre, post, len
<1>8. IsFiniteSet(zeros) /\ Cardinality(zeros) \in Nat /\ Cardinality(zeros) <= len
  BY <1>4, <1>7, FS_Subset, FS_CardinalityType
<1>9. Cardinality(pre \cup post) = p + p
  <2>1. Cardinality(pre \cap post) = 0
    BY <1>5, FS_EmptySet
  <2> QED
    BY <1>4, <2>1, FS_Union
<1>10. p + p <= Cardinality(zeros)
  BY <1>6, <1>8, <1>9, FS_Subset
<1> QED
  BY <1>2, <1>3, <1>8, <1>10 DEF word, len

\* Without -z and -Z the filter lets the word of every value pass
\* (process-options.c:461-467 and 543-546, filter.c:437-460).
THEOREM DefaultsPass == Spec => []DefaultsPassEveryWord
<1>1. Inv => DefaultsPassEveryWord
  <2> DEFINE b == o.bits_per_packet
             m == o.mpdus_per_bit
             p == o.preamble_mpdus
  <2> SUFFICES ASSUME Inv, Accepted, SizeIsSensible, LastOf({"z", "Z"}) = 0,
                      NEW value \in 0 .. num_values_of(b) - 1
               PROVE  NumZeros(lev_string(b, m, p, value))
                          \in o.min_zeros .. o.zero_thold
    BY DEF DefaultsPassEveryWord
  <2>1. b \in 1 .. 30 /\ m \in Nat \ {0} /\ p \in Nat \ {0}
    <3>1. {"mpdus_per_bit", "preamble_mpdus"} \subseteq Names
      BY DEF Names, Defaults
    <3> QED
      BY <3>1 DEF Inv, TypeOK, SizeIsSensible
  <2>2. value \in 0 .. 2 ^ b - 1
    BY DEF num_values_of
  <2>3. o.min_zeros = 2 * (p - 1) /\ o.zero_thold = 2 * p + b * m + 5
    BY <2>1 DEF Inv, ThresholdsAreDefaults, DefaultMinZeros,
                default_max_zeros_in_packet, SPURIOUS_ALLOWED
  <2> HIDE DEF b, m, p
  <2>4. NumZeros(lev_string(b, m, p, value)) \in 2 * p .. 2 * p + b * m + 2
    BY <2>1, <2>2, ZerosOfWord
  <2>5. b * m \in Int
    BY <2>1
  <2> QED
    BY <2>1, <2>3, <2>4, <2>5
<1> QED
  BY <1>1, InvHolds, PTL
===============================================================================
