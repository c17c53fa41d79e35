----------------------------- MODULE FilterProofs -----------------------------
(***************************************************************************)
(* Proofs about the packet filter, for every length of the A-MPDU, every   *)
(* set of bitmaps, all options and any number of lines.                    *)
(***************************************************************************)
EXTENDS PacketFilter, Lemmas

-----------------------------------------------------------------------------
(* Positions in a string.                                                   *)

\* A set of natural numbers that is not empty has a first element.
LEMMA FirstExists ==
    ASSUME NEW S \in SUBSET Nat, S # {}
    PROVE  First(S) \in S /\ \A j \in S : First(S) <= j
<1>1. PICK x \in S : \A y \in S : ~ (<<y, x>> \in OpToRel(<, Nat))
  BY NatLessThanWellFounded, WFMin
<1>2. \A y \in S : x \in Nat /\ y \in Nat
  OBVIOUS
<1>3. \A y \in S : ~ (y < x)
  BY <1>1, <1>2, Zenon DEF OpToRel
<1>4. \A y \in S : x <= y
  BY <1>2, <1>3
<1>5. QED
  BY <1>4 DEF First

\* One that is bounded as well has a last element.
LEMMA LastExists ==
    ASSUME NEW n \in Nat, NEW S \in SUBSET (0 .. n), S # {}
    PROVE  Last(S) \in S /\ \A j \in S : Last(S) >= j
<1> DEFINE T == {i \in 0 .. n : n - i \in S}
<1>1. T \in SUBSET Nat /\ T # {}
  <2>1. PICK s \in S : TRUE
    OBVIOUS
  <2>2. n - s \in T
    BY <2>1
  <2>3. QED
    BY <2>2
<1>2. First(T) \in T /\ \A j \in T : First(T) <= j
  BY <1>1, FirstExists
<1>3. n - First(T) \in S
  BY <1>2
<1>4. \A j \in S : n - First(T) >= j
  <2> TAKE j \in S
  <2>1. n - j \in T
    OBVIOUS
  <2>2. First(T) \in Nat /\ First(T) <= n - j
    BY <1>2, <2>1
  <2>3. QED
    BY <2>2
<1>5. QED
  BY <1>3, <1>4 DEF Last

\* A bitmap of the input is a string of bits that fits the tables.
LEMMA BitmapFacts ==
    ASSUME NEW str \in Bitmaps
    PROVE  str \in Seq(Bit) /\ Len(str) \in 1 .. AMPDU_LEN
<1>1. PICK n \in 1 .. AMPDU_LEN : str \in [1 .. n -> Bit]
  BY BitmapsAssumption DEF BitmapsOf
<1>2. QED
  BY <1>1, LengthAssumption

\* Where a run of zeros may be.
LEMMA ZerosOccur ==
    ASSUME NEW p \in Nat, NEW str \in Seq(Bit)
    PROVE  Occurrences(str, Zeros(p)) \subseteq 0 .. Len(str) - p
<1>1. Len(Zeros(p)) = p
  BY DEF Zeros
<1>2. QED
  BY <1>1 DEF Occurrences

\* The match is a part of the bitmap.
LEMMA MatchedFacts ==
    ASSUME NEW str \in Seq(Bit), Found(str) # {}
    PROVE  \E s, e \in 0 .. Len(str) - 1 :
               /\ s < e /\ Matches(str, s, e)
               /\ Matched(str) = SubSeq(str, s + 1, e + 1)
<1> DEFINE Starts == {x[1] : x \in Found(str)}
           s == First(Starts)
           Ends == {x[2] : x \in {y \in Found(str) : y[1] = s}}
           e == Last(Ends)
<1>1. Found(str) \subseteq (0 .. Len(str) - 1) \X (0 .. Len(str) - 1)
  BY DEF Found
<1>2. Starts \in SUBSET Nat /\ Starts # {}
  BY <1>1
<1>3. s \in Starts
  BY <1>2, FirstExists
<1>4. PICK x \in Found(str) : x[1] = s
  BY <1>3
<1>5. x[2] \in Ends /\ Ends # {}
  BY <1>4
<1>6. Ends \subseteq 0 .. Len(str) - 1
  BY <1>1
<1>7. Len(str) - 1 \in Nat
  BY <1>1, <1>4
<1>8. e \in Ends
  BY <1>5, <1>6, <1>7, LastExists
<1>9. PICK y \in Found(str) : y[1] = s /\ y[2] = e
  BY <1>8
<1>10. /\ s \in 0 .. Len(str) - 1 /\ e \in 0 .. Len(str) - 1
       /\ s < e /\ Matches(str, s, e)
  BY <1>9, <1>1 DEF Found
<1>11. Matched(str) = SubSeq(str, s + 1, e + 1)
  BY DEF Matched, Leftmost
<1>12. QED
  BY <1>10, <1>11

\* How many bits of a kind a bitmap has.
LEMMA CountFacts ==
    ASSUME NEW str \in Bitmaps, NEW bit
    PROVE  /\ count_bits(str, bit) \in 0 .. AMPDU_LEN
           /\ count_bits(str, bit) = 0 => \A k \in 1 .. Len(str) : str[k] # bit
<1> DEFINE P == {k \in 1 .. Len(str) : str[k] = bit}
<1>1. str \in Seq(Bit) /\ Len(str) \in 1 .. AMPDU_LEN
  BY BitmapFacts
<1>2. DOMAIN str = 1 .. Len(str) /\ count_bits(str, bit) = Cardinality(P)
  <2>1. DOMAIN str = 1 .. Len(str)
    BY <1>1
  <2>2. {k \in DOMAIN str : str[k] = bit} = P
    BY <2>1
  <2> QED
    BY <2>1, <2>2, Zenon DEF count_bits
<1>3. IsFiniteSet(1 .. Len(str)) /\ Cardinality(1 .. Len(str)) = Len(str)
  BY <1>1, FS_Interval
<1>4. /\ IsFiniteSet(P) /\ Cardinality(P) \in Nat
      /\ Cardinality(P) <= Len(str)
      /\ Cardinality(P) = 0 => P = {}
  <2>1. P \in SUBSET (1 .. Len(str))
    OBVIOUS
  <2> HIDE DEF P
  <2>2. IsFiniteSet(P) /\ Cardinality(P) <= Len(str)
    BY <1>3, <2>1, FS_Subset
  <2> QED
    BY <2>2, FS_CardinalityType, FS_EmptySet
<1> HIDE DEF P
<1>5. count_bits(str, bit) \in 0 .. AMPDU_LEN
  BY <1>1, <1>2, <1>4, LengthAssumption
<1> QED
  BY <1>2, <1>4, <1>5 DEF P

\* Zeros are found in a bitmap or counted as not found.
LEMMA LocationType ==
    ASSUME NEW str \in Bitmaps, NEW z \in Nat
    PROVE  preamble_location(z, str) \in 0 .. AMPDU_LEN
<1> DEFINE O == Occurrences(str, Zeros(z))
<1>1. str \in Seq(Bit) /\ Len(str) \in 1 .. AMPDU_LEN
  BY BitmapFacts
<1>2. O \subseteq 0 .. Len(str) - z
  BY <1>1, ZerosOccur
<1>3. O \in SUBSET Nat /\ O \subseteq 0 .. AMPDU_LEN
  BY <1>1, <1>2, LengthAssumption
<1>4. O # {} => First(O) \in O
  BY <1>3, FirstExists
<1> QED
  BY <1>3, <1>4, LengthAssumption DEF preamble_location

\* In a bitmap without ones they are found at its first character.
LEMMA FoundAtFirst ==
    ASSUME NEW str \in Bitmaps, NEW z \in Nat, z <= Len(str),
           count_bits(str, 1) = 0
    PROVE  preamble_location(z, str) = 0
<1> DEFINE O == Occurrences(str, Zeros(z))
<1>1. str \in Seq(Bit) /\ Len(str) \in 1 .. AMPDU_LEN
  BY BitmapFacts
<1>2. \A k \in 1 .. Len(str) : str[k] = 0
  <2>1. \A k \in 1 .. Len(str) : str[k] # 1
    BY CountFacts
  <2>2. \A k \in 1 .. Len(str) : str[k] \in Bit
    BY <1>1
  <2> QED
    BY <2>1, <2>2 DEF Bit
<1>3. SubSeq(str, 1, z) = Zeros(z)
  BY <1>1, <1>2 DEF Zeros
<1>4. 0 \in O
  <2>1. Len(Zeros(z)) = z
    BY DEF Zeros
  <2> QED
    BY <1>1, <1>3, <2>1 DEF Occurrences
<1>5. O \in SUBSET Nat
  BY <1>1 DEF Occurrences
<1>6. First(O) \in Nat /\ First(O) <= 0
  BY <1>4, <1>5, FirstExists
<1> QED
  BY <1>4, <1>6 DEF preamble_location

LEMMA FiniteTables == IsFiniteSet(0 .. AMPDU_LEN)
BY FS_Interval, LengthAssumption

-----------------------------------------------------------------------------
(* The inductive invariant.                                                 *)

\* preamble_zeros holds the preamble of -P as soon as -i has used it: the
\* analysis comes before the search of -C.
CacheOK == opts.preamble_index => preamble_zeros \in {0, opts.preamble_mpdus}

Inv == /\ TypeOK
       /\ LinesAddUp
       /\ TalliesAgree
       /\ NoAssertionFails
       /\ LengthsCoverPreamble
       /\ RoomForPacket
       /\ HistogramsAddUp
       /\ LocationsAddUp
       /\ CacheOK

\* The options the proofs use.
LEMMA OptionFacts ==
    ASSUME opts \in Options
    PROVE  /\ opts.preamble_mpdus \in Nat \ {0}
           /\ opts.bits_per_packet \in Nat \ {0}
           /\ opts.mpdus_per_bit \in Nat \ {0}
           /\ opts.preamble_index \in BOOLEAN
           /\ opts.consecutive_zeros \in Nat
           /\ opts.plen_short_by \in Int /\ opts.plen_long_by \in Int
           /\ expected_len(opts) \in Nat
<1>1. opts \in LegalOptions
  BY OptionsAssumption
<1>2. /\ opts.preamble_mpdus \in Nat \ {0}
      /\ opts.bits_per_packet \in Nat \ {0}
      /\ opts.mpdus_per_bit \in Nat \ {0}
      /\ opts.preamble_index \in BOOLEAN
      /\ opts.consecutive_zeros \in Nat
      /\ opts.plen_short_by \in Int /\ opts.plen_long_by \in Int
  BY <1>1 DEF LegalOptions
<1>3. opts.bits_per_packet * opts.mpdus_per_bit \in Nat
  BY <1>2
<1>4. expected_len(opts) \in Nat
  BY <1>2, <1>3 DEF expected_len
<1>5. QED
  BY <1>2, <1>4

\* With -i a preamble is found exactly when a postamble is, and the distance
\* from its start to the end of the postamble is at least its length and at
\* most that of the bitmap.
LEMMA Distances ==
    ASSUME Inv, NEW str \in Bitmaps, opts.preamble_index
    PROVE  LET p    == opts.preamble_mpdus
               pre  == preamble_location(Filled(preamble_zeros, p), str)
               post == postamble_location(p, Filled(postamble_zeros, p), str)
           IN  pre # AMPDU_LEN =>
                   PossibleLen(pre, post) \in p .. AMPDU_LEN
<1> DEFINE p == opts.preamble_mpdus
           O == Occurrences(str, Zeros(p))
<1>1. p \in Nat \ {0}
  BY OptionFacts DEF Inv, TypeOK
<1>2. Filled(preamble_zeros, p) = p /\ Filled(postamble_zeros, p) = p
  BY <1>1 DEF Inv, TypeOK, CacheOK, Filled
<1>3. str \in Seq(Bit) /\ Len(str) \in 1 .. AMPDU_LEN
  BY BitmapFacts
<1>4. CASE O = {}
  BY <1>2, <1>4 DEF preamble_location
<1>5. CASE O # {}
  <2>1. O \subseteq 0 .. Len(str) - p
    BY <1>1, <1>3, ZerosOccur
  <2>2. O \in SUBSET Nat /\ O \in SUBSET (0 .. Len(str))
    BY <2>1, <1>1, <1>3
  <2>3. First(O) \in O
    BY <2>2, <1>5, FirstExists
  <2>4. Last(O) \in O /\ Last(O) >= First(O)
    <3>1. Len(str) \in Nat
      BY <1>3
    <3>2. Last(O) \in O /\ \A j \in O : Last(O) >= j
      BY <3>1, <2>2, <1>5, LastExists
    <3>3. QED
      BY <3>2, <2>3
  <2>5. /\ preamble_location(p, str) = First(O)
        /\ postamble_location(p, p, str) = Last(O) + p - 1
    BY <1>5 DEF preamble_location, postamble_location
  <2>6. PossibleLen(First(O), Last(O) + p - 1) \in p .. AMPDU_LEN
    <3>1. First(O) \in 0 .. Len(str) - p /\ Last(O) \in 0 .. Len(str) - p
      BY <2>1, <2>3, <2>4
    <3>2. \A f, l \in 0 .. Len(str) - p :
              l >= f => (l + p - 1) - f + 1 \in p .. AMPDU_LEN
      BY <1>1, <1>3, LengthAssumption
    <3>3. QED
      BY <3>1, <3>2, <2>4 DEF PossibleLen
  <2>7. QED
    BY <2>5, <2>6, <1>2
<1>6. QED
  BY <1>4, <1>5
-----------------------------------------------------------------------------
(* The steps.                                                               *)

LEMMA InitInv == Init => Inv
<1> SUFFICES ASSUME Init
             PROVE  Inv
  OBVIOUS
<1> USE DEF Init
<1>1. opts.preamble_mpdus \in Nat \ {0} /\ AMPDU_LEN \in Nat
  BY OptionFacts, LengthAssumption
<1>2. TypeOK
  BY <1>1, MaxLinesAssumption DEF TypeOK, Counter
<1>3. LinesAddUp /\ TalliesAgree
  BY DEF LinesAddUp, TalliesAgree, FilterTotal, Reasons
<1>4. LengthsCoverPreamble
  <2>1. \A n \in 0 .. opts.preamble_mpdus - 1 : n \in 0 .. AMPDU_LEN
    <3>1. opts \in LegalOptions
      BY OptionsAssumption
    <3>2. /\ opts.bits_per_packet * opts.mpdus_per_bit \in Nat
          /\ expected_len(opts) <= AMPDU_LEN
      BY <3>1, OptionFacts DEF LegalOptions
    <3>3. QED
      BY <3>2, <1>1 DEF expected_len
  <2>2. QED
    BY <2>1 DEF LengthsCoverPreamble
<1>5. NoAssertionFails /\ RoomForPacket /\ CacheOK
  BY <1>1 DEF NoAssertionFails, RoomForPacket, CacheOK
<1>6. ASSUME NEW f, f = [n \in 0 .. AMPDU_LEN |-> 0]
      PROVE  SumFunction(f) = 0
  <2>1. f \in [0 .. AMPDU_LEN -> Int] /\ \A n \in 0 .. AMPDU_LEN : f[n] = 0
    BY <1>6
  <2> QED
    BY <2>1, FiniteTables, SumOfZeros
<1>7. /\ SumFunction(zeros_histo) = 0 /\ SumFunction(ones_histo) = 0
      /\ SumFunction(preamble_locations) = 0
      /\ SumFunction(possible_msg_lens) = 0 /\ SumFunction(zeros_locations) = 0
  BY <1>6
<1>8. HistogramsAddUp /\ LocationsAddUp
  BY <1>1, <1>7 DEF HistogramsAddUp, LocationsAddUp, Reasons
<1>9. QED
  BY <1>2, <1>3, <1>4, <1>5, <1>8 DEF Inv

\* A verdict is one of the reasons or a packet, and a match was found unless
\* an earlier filter decided.
LEMMA VerdictFacts ==
    ASSUME NEW str \in Bitmaps, NEW est \in Estimates
    PROVE  /\ Verdict(str, est) \in Verdicts
           /\ Verdict(str, est) \in {"amble", "packet_len", "packet"} =>
                  Found(str) # {}
           /\ Verdict(str, est) = "packet" =>
                  is_packet_len_valid(opts, Len(Matched(str)))
           /\ Verdict(str, est) # "len" =>
                  /\ Len(str) >= MIN_BITMAP_LEN
                  /\ Verdict(str, est) = "no_zeros" <=> count_bits(str, 0) = 0
                  /\ Verdict(str, est) = "no_ones" <=> count_bits(str, 1) = 0
<1> DEFINE zeros == count_bits(str, 0)
           ones  == count_bits(str, 1)
<1>1. str \in Seq(Bit) /\ Len(str) \in 1 .. AMPDU_LEN
  BY BitmapFacts
<1>2. zeros = 0 => ones # 0
  <2>1. str[1] \in Bit
    BY <1>1
  <2> QED
    BY <1>1, <2>1, CountFacts DEF Bit
<1>3. Verdict(str, est) \in Verdicts
  BY DEF Verdict, Verdicts, Reasons
<1>4. Verdict(str, est) \in {"amble", "packet_len", "packet"} => Found(str) # {}
  BY DEF Verdict
<1>5. Verdict(str, est) = "packet" =>
          is_packet_len_valid(opts, Len(Matched(str)))
  BY DEF Verdict
<1>6. Verdict(str, est) # "len" => Len(str) >= MIN_BITMAP_LEN
  BY <1>1 DEF Verdict, MIN_BITMAP_LEN
<1>7. Verdict(str, est) # "len" =>
          /\ Verdict(str, est) = "no_zeros" <=> count_bits(str, 0) = 0
          /\ Verdict(str, est) = "no_ones" <=> count_bits(str, 1) = 0
  <2> HIDE DEF zeros, ones
  <2> QED
    BY <1>2 DEF Verdict, zeros, ones
<1> QED
  BY <1>3, <1>4, <1>5, <1>6, <1>7

\* No line fails an assertion.
LEMMA LineAsserts ==
    ASSUME Inv, NEW str \in Bitmaps
    PROVE  DistanceAsserts(str)
BY Distances, OptionFacts, LengthAssumption DEF DistanceAsserts, Inv, TypeOK

\* A line whose zeros do not fit ends the process.
LEMMA LineOverruns ==
    ASSUME Inv, NEW str \in Bitmaps, NEW est \in Estimates, Line(str, est),
           OverrunsZeros
    PROVE  Inv'
<1>1. /\ opts' = opts /\ line_count' = line_count + 1
      /\ bitmap' = str /\ estimated_ampdu_len' = est
      /\ line_count < MaxLines /\ StopsWith("undefined")
  BY LineAsserts DEF Line
<1>2. TypeOK'
  BY <1>1, MaxLinesAssumption
  DEF Inv, TypeOK, StopsWith, bit_vars, pre_vars, pos_vars
<1>3. RoomForPacket'
  <2>1. opts.preamble_mpdus # 0 /\ opts.preamble_index \in BOOLEAN
        /\ opts.consecutive_zeros \in Nat
    BY OptionFacts DEF Inv, TypeOK
  <2>2. ~opts.preamble_index /\ opts.consecutive_zeros >= AMPDU_LEN
    BY <2>1 DEF OverrunsZeros, AfterAnalysis, Filled
  <2> QED
    BY <1>1, <2>1, <2>2, LengthAssumption DEF RoomForPacket
<1>4. LengthsCoverPreamble' /\ CacheOK'
  BY <1>1 DEF Inv, LengthsCoverPreamble, CacheOK, StopsWith, pre_vars
<1>5. status' = "undefined"
  BY <1>1 DEF StopsWith
<1> QED
  BY <1>2, <1>3, <1>4, <1>5
  DEF Inv, LinesAddUp, TalliesAgree, HistogramsAddUp, LocationsAddUp,
      NoAssertionFails

\* What any other line leaves to prove.
LEMMA LineStep ==
    ASSUME Inv, NEW str \in Bitmaps, NEW est \in Estimates, Line(str, est),
           ~OverrunsZeros
    PROVE  Inv'
<1> DEFINE v == Verdict(str, est)
           p == opts.preamble_mpdus
<1>1. /\ opts' = opts /\ line_count' = line_count + 1
      /\ bitmap' = str /\ estimated_ampdu_len' = est
      /\ status = "running" /\ line_count < MaxLines
  BY DEF Line
<1>2. DistanceAsserts(str)
  BY LineAsserts
<1>3. /\ analyze_preamble_distributions(str)
      /\ find_first_set_of_zeros(str, est)
      /\ preamble_zeros' = AfterSearch
      /\ count_histograms(str, v)
      /\ filter' = Counted(v)
      /\ TakePacket(str, v)
  BY <1>2 DEF Line
<1>4. str \in Seq(Bit) /\ Len(str) \in 1 .. AMPDU_LEN /\ p \in Nat \ {0}
  BY BitmapFacts, OptionFacts DEF Inv, TypeOK
<1>5. v \in Verdicts
  BY VerdictFacts
<1>6. v \in {"packet_len", "packet"} =>
          /\ packet_str' = Matched(str)
          /\ Matched(str) \in Seq(Bit)
          /\ Len(Matched(str)) \in 1 .. AMPDU_LEN
          /\ Len(Matched(str)) <= expected_len(opts) + opts.bits_per_packet + 4
  <2> SUFFICES ASSUME v \in {"packet_len", "packet"}
               PROVE  /\ packet_str' = Matched(str)
                      /\ Matched(str) \in Seq(Bit)
                      /\ Len(Matched(str)) \in 1 .. AMPDU_LEN
                      /\ Len(Matched(str)) <=
                             expected_len(opts) + opts.bits_per_packet + 4
    OBVIOUS
  <2>1. packet_str' = Matched(str)
    BY <1>3 DEF TakePacket
  <2>2. PICK s, e \in 0 .. Len(str) - 1 :
            /\ s < e /\ Matches(str, s, e)
            /\ Matched(str) = SubSeq(str, s + 1, e + 1)
    BY VerdictFacts, MatchedFacts, <1>4
  <2>3. SubSeq(str, s + 1, e + 1) \in Seq(Bit)
    BY <1>4, <2>2
  <2>4. Len(Matched(str)) = e - s + 1
    BY <1>4, <2>2
  <2>5. e - s + 1 <= expected_len(opts) + opts.bits_per_packet + 4
    <3> DEFINE b == opts.bits_per_packet
               m == opts.mpdus_per_bit
    <3>1. b \in Nat /\ m \in Nat /\ b * m \in Nat /\ b * (m + 1) = b * m + b
      <4>1. opts \in Options
        BY DEF Inv, TypeOK
      <4>2. b \in Nat /\ m \in Nat
        BY <4>1, OptionFacts
      <4> HIDE DEF b, m
      <4>3. QED
        BY <4>2
    <3>2. PICK pre, post \in (p - 1) .. (p + 1) :
              e - s - 1 - pre - post <= b * (m + 1) + 2
      BY <2>2, <3>1, <1>4 DEF Matches, PacketMatches
    <3>3. expected_len(opts) = 2 + 2 * p + b * m
      BY DEF expected_len
    <3> HIDE DEF b, m, p
    <3>4. e - s + 1 <= 2 + 2 * p + b * m + b + 4
      BY <3>1, <3>2, <2>2, <1>4
    <3>5. QED
      BY <3>3, <3>4 DEF b
  <2>6. Len(Matched(str)) \in 1 .. AMPDU_LEN
    BY <2>2, <2>4, <1>4, LengthAssumption
  <2>7. Matched(str) \in Seq(Bit)
    BY <2>2, <2>3
  <2>8. QED
    BY <2>1, <2>4, <2>5, <2>6, <2>7
<1>7. TypeOK'
  <2>1. filter' \in Counter(Reasons)
    BY <1>3, <1>5 DEF Inv, TypeOK, Counted, Counter, Verdicts
  <2>2. packet_str' \in Seq(Bit)
    BY <1>3, <1>6 DEF TakePacket
  <2>3. /\ dt_per_packet_count' \in Nat /\ packet_count' \in Nat
        /\ len_count' \in Counter(0 .. AMPDU_LEN - 1)
        /\ status' \in {"running", "aborted", "undefined"}
    BY <1>3 DEF Inv, TypeOK, TakePacket, Counter
  <2>4. /\ one_or_more_zeros' \in Nat
        /\ zeros_histo' \in Counter(0 .. AMPDU_LEN)
        /\ ones_histo' \in Counter(0 .. AMPDU_LEN)
    BY <1>3 DEF Inv, TypeOK, count_histograms, bit_vars, Counter
  <2>5. /\ postamble_zeros' \in {0, p}
        /\ preamble_locations' \in Counter(0 .. AMPDU_LEN)
        /\ possible_msg_lens' \in Counter(0 .. AMPDU_LEN)
    BY <1>3 DEF Inv, TypeOK, analyze_preamble_distributions, pre_vars, Counter,
                Filled
  <2>6. /\ zeros_locations' \in Counter(0 .. AMPDU_LEN)
        /\ zero_locations_not_counted' \in Nat
    BY <1>3 DEF Inv, TypeOK, find_first_set_of_zeros, pos_vars, Counter
  <2>7. preamble_zeros' \in Nat
    BY <1>3, OptionFacts DEF Inv, TypeOK, AfterSearch, AfterAnalysis, Filled
  <2>8. opts' \in Options /\ line_count' \in 0 .. MaxLines
    BY <1>1, MaxLinesAssumption DEF Inv, TypeOK
  <2>9. QED
    BY <1>1, <2>1, <2>2, <2>3, <2>4, <2>5, <2>6, <2>7, <2>8 DEF TypeOK
<1>8. \A r \in Reasons : filter[r] \in Nat
  BY DEF Inv, TypeOK, Counter
<1>9. \A r \in Reasons : filter'[r] = filter[r] + (IF r = v THEN 1 ELSE 0)
  BY <1>3, <1>5, <1>8 DEF Inv, TypeOK, Counted, Counter, Verdicts, Reasons
<1>10. /\ status' = "running" =>
              packet_count' = packet_count + (IF v = "packet" THEN 1 ELSE 0)
       /\ dt_per_packet_count' =
              dt_per_packet_count
              + (IF v \in {"amble", "packet_len", "packet"} THEN 1 ELSE 0)
       /\ status' # "aborted"
  BY <1>1, <1>3 DEF TakePacket, Inv, TypeOK
<1>11. LinesAddUp'
  <2>1. /\ line_count \in Nat /\ packet_count \in Nat
        /\ FilterTotal + packet_count = line_count
    BY <1>1, MaxLinesAssumption DEF Inv, TypeOK, LinesAddUp
  <2> HIDE DEF v
  <2>2. FilterTotal' = FilterTotal + (IF v \in Reasons THEN 1 ELSE 0)
    <3> DEFINE one(r) == IF r = v THEN 1 ELSE 0
    <3>1. one("len") + one("no_zeros") + one("no_ones") + one("excess_zeros")
          + one("insufficient_zeros") + one("amble") + one("packet_len")
          + one("regexes") = IF v \in Reasons THEN 1 ELSE 0
      BY DEF Reasons
    <3>2. \A r \in Reasons : filter'[r] = filter[r] + one(r)
      BY <1>9
    <3>3. \A r \in Reasons : one(r) \in Nat /\ filter[r] \in Nat
      BY <1>8
    <3> HIDE DEF one
    <3>4. QED
      BY <3>1, <3>2, <3>3 DEF FilterTotal, Reasons
  <2>3. FilterTotal \in Nat /\ (v \in Reasons <=> v # "packet")
    BY <1>5, <1>8 DEF FilterTotal, Verdicts, Reasons
  <2>4. QED
    BY <2>1, <2>2, <2>3, <1>1, <1>10 DEF LinesAddUp
<1>12. TalliesAgree'
  <2>1. one_or_more_zeros' =
            one_or_more_zeros + (IF v \in {"len", "no_zeros"} THEN 0 ELSE 1)
    <3>1. count_bits(str, 0) \in Nat
      BY CountFacts
    <3>2. v \notin {"len", "no_zeros"} <=> v # "len" /\ count_bits(str, 0) > 0
      BY <3>1, VerdictFacts
    <3>3. one_or_more_zeros \in Nat
      BY DEF Inv, TypeOK
    <3> QED
      BY <1>3, <3>1, <3>2, <3>3 DEF count_histograms, bit_vars
  <2>2. one_or_more_zeros \in Nat /\ packet_count \in Nat
        /\ dt_per_packet_count \in Nat /\ TalliesAgree
    BY DEF Inv, TypeOK
  <2> HIDE DEF v
  <2> SUFFICES ASSUME status' = "running"
               PROVE  /\ dt_per_packet_count' =
                             packet_count' + filter'["amble"]
                             + filter'["packet_len"]
                      /\ one_or_more_zeros' =
                             dt_per_packet_count' + filter'["no_ones"]
                             + filter'["excess_zeros"]
                             + filter'["insufficient_zeros"]
                             + filter'["regexes"]
    BY DEF TalliesAgree
  <2>3. dt_per_packet_count' =
            packet_count' + filter'["amble"] + filter'["packet_len"]
    <3>1. /\ filter'["amble"] =
                 filter["amble"] + (IF v = "amble" THEN 1 ELSE 0)
          /\ filter'["packet_len"] =
                 filter["packet_len"] + (IF v = "packet_len" THEN 1 ELSE 0)
          /\ filter["amble"] \in Nat /\ filter["packet_len"] \in Nat
      BY <1>8, <1>9 DEF Reasons
    <3>2. dt_per_packet_count =
              packet_count + filter["amble"] + filter["packet_len"]
      BY <2>2, <1>1 DEF TalliesAgree
    <3>3. packet_count' = packet_count + (IF v = "packet" THEN 1 ELSE 0)
      BY <1>10
    <3>4. dt_per_packet_count' =
              dt_per_packet_count
              + (IF v \in {"amble", "packet_len", "packet"} THEN 1 ELSE 0)
      BY <1>10
    <3>5. QED
      BY <3>1, <3>2, <3>3, <3>4, <2>2
  <2>4. one_or_more_zeros' =
            dt_per_packet_count' + filter'["no_ones"]
            + filter'["excess_zeros"] + filter'["insufficient_zeros"]
            + filter'["regexes"]
    BY <2>1, <2>2, <1>1, <1>5, <1>8, <1>9, <1>10
    DEF TalliesAgree, Verdicts, Reasons
  <2>5. QED
    BY <2>3, <2>4
<1>13. NoAssertionFails'
  BY <1>10 DEF NoAssertionFails
<1>14. LengthsCoverPreamble'
  <2>1. CASE ~opts.preamble_index
    BY <1>1, <1>3, <2>1
    DEF Inv, LengthsCoverPreamble, analyze_preamble_distributions, pre_vars
  <2>2. CASE opts.preamble_index
    <3> DEFINE pre  == preamble_location(Filled(preamble_zeros, p), str)
               post == postamble_location(p, Filled(postamble_zeros, p), str)
               d    == PossibleLen(pre, post)
    <3>1. pre # AMPDU_LEN => d \in p .. AMPDU_LEN
      BY <2>2, Distances
    <3>2. possible_msg_lens' =
              IF pre = AMPDU_LEN THEN possible_msg_lens
              ELSE [possible_msg_lens EXCEPT ![d] = @ + 1]
      BY <1>3, <2>2 DEF analyze_preamble_distributions
    <3>3. DOMAIN possible_msg_lens = 0 .. AMPDU_LEN
      BY DEF Inv, TypeOK, Counter
    <3> HIDE DEF d, pre, p
    <3>4. pre # AMPDU_LEN =>
              \A n \in 0 .. p - 1 : n # d /\ n \in 0 .. AMPDU_LEN
      BY <3>1, <1>4, LengthAssumption
    <3>5. \A n \in 0 .. p - 1 : possible_msg_lens'[n] = possible_msg_lens[n]
      BY <3>2, <3>3, <3>4
    <3> USE DEF p
    <3>6. QED
      BY <3>5, <1>1 DEF Inv, LengthsCoverPreamble
  <2>3. QED
    BY <2>1, <2>2
<1>15. RoomForPacket'
  <2> SUFFICES ASSUME expected_len(opts) + opts.bits_per_packet + 4 < AMPDU_LEN
               PROVE  status' # "undefined"
    BY <1>1 DEF RoomForPacket
  <2>1. Len(packet_str') < AMPDU_LEN
    <3>1. CASE v \in {"packet_len", "packet"}
      BY <3>1, <1>6, OptionFacts, LengthAssumption DEF Inv, TypeOK
    <3>2. CASE v \notin {"packet_len", "packet"}
      BY <3>2, <1>3, LengthAssumption DEF TakePacket
    <3>3. QED
      BY <3>1, <3>2
  <2>2. QED
    BY <2>1, <1>1, <1>3, LengthAssumption DEF TakePacket
<1>16. HistogramsAddUp'
  <2> DEFINE zeros == count_bits(str, 0)
             ones  == count_bits(str, 1)
  <2>1. zeros \in 0 .. AMPDU_LEN /\ ones \in 0 .. AMPDU_LEN
    BY CountFacts
  <2>2. /\ zeros_histo \in [0 .. AMPDU_LEN -> Nat]
        /\ ones_histo \in [0 .. AMPDU_LEN -> Nat]
        /\ filter["len"] \in Nat /\ line_count \in Nat
    BY MaxLinesAssumption DEF Inv, TypeOK, Counter, Reasons
  <2>3. /\ SumFunction(zeros_histo) = line_count - filter["len"]
        /\ SumFunction(ones_histo) = line_count - filter["len"]
        /\ zeros_histo[0] = filter["no_zeros"]
        /\ ones_histo[0] = filter["no_ones"]
    BY <1>1 DEF Inv, HistogramsAddUp
  <2> HIDE DEF v, zeros, ones
  <2>4. CASE v = "len"
    <3>1. zeros_histo' = zeros_histo /\ ones_histo' = ones_histo
      BY <1>3, <2>4 DEF count_histograms, bit_vars
    <3>2. /\ filter'["len"] = filter["len"] + 1
          /\ filter'["no_zeros"] = filter["no_zeros"]
          /\ filter'["no_ones"] = filter["no_ones"]
      BY <1>8, <1>9, <2>4 DEF Reasons
    <3> QED
      BY <1>1, <2>2, <2>3, <3>1, <3>2 DEF HistogramsAddUp
  <2>5. CASE v # "len"
    <3>1. /\ zeros_histo' = [zeros_histo EXCEPT ![zeros] = @ + 1]
          /\ ones_histo' = [ones_histo EXCEPT ![ones] = @ + 1]
      BY <1>3, <2>5 DEF count_histograms, zeros, ones
    <3>2. /\ SumFunction(zeros_histo') = SumFunction(zeros_histo) + 1
          /\ SumFunction(ones_histo') = SumFunction(ones_histo) + 1
      BY <2>1, <2>2, <3>1, FiniteTables, SumOneMore
    <3>3. (v = "no_zeros" <=> zeros = 0) /\ (v = "no_ones" <=> ones = 0)
      BY <2>5, VerdictFacts DEF v, zeros, ones
    <3>4. /\ zeros_histo'[0] = zeros_histo[0] + (IF zeros = 0 THEN 1 ELSE 0)
          /\ ones_histo'[0] = ones_histo[0] + (IF ones = 0 THEN 1 ELSE 0)
      BY <2>2, <3>1, LengthAssumption
    <3>5. /\ filter'["len"] = filter["len"]
          /\ filter'["no_zeros"] =
                 filter["no_zeros"] + (IF zeros = 0 THEN 1 ELSE 0)
          /\ filter'["no_ones"] = filter["no_ones"] + (IF ones = 0 THEN 1 ELSE 0)
      BY <1>8, <1>9, <2>5, <3>3 DEF Reasons
    <3> QED
      BY <1>1, <2>2, <2>3, <3>2, <3>4, <3>5 DEF HistogramsAddUp
  <2> QED
    BY <2>4, <2>5
<1>17. LocationsAddUp'
  <2> DEFINE none == IF v = "no_ones" THEN 1 ELSE 0
  <2>1. /\ preamble_locations \in [0 .. AMPDU_LEN -> Nat]
        /\ possible_msg_lens \in [0 .. AMPDU_LEN -> Nat]
        /\ zeros_locations \in [0 .. AMPDU_LEN -> Nat]
        /\ zero_locations_not_counted \in Nat /\ filter["no_ones"] \in Nat
        /\ line_count \in Nat /\ preamble_zeros \in Nat
        /\ preamble_zeros' \in Nat
    <3>1. filter["no_ones"] \in Nat
      BY <1>8 DEF Reasons
    <3>2. line_count \in Nat /\ preamble_zeros \in Nat
          /\ zero_locations_not_counted \in Nat
      BY MaxLinesAssumption DEF Inv, TypeOK
    <3>3. preamble_zeros' \in Nat
      BY <1>7 DEF TypeOK
    <3>4. /\ preamble_locations \in [0 .. AMPDU_LEN -> Nat]
          /\ possible_msg_lens \in [0 .. AMPDU_LEN -> Nat]
          /\ zeros_locations \in [0 .. AMPDU_LEN -> Nat]
      BY DEF Inv, TypeOK, Counter
    <3> QED
      BY <3>1, <3>2, <3>3, <3>4
  <2>2. filter'["no_ones"] = filter["no_ones"] + none
    BY <1>8, <1>9 DEF Reasons
  <2>3. ASSUME NEW z \in Nat, z <= MIN_BITMAP_LEN, v = "no_ones"
        PROVE  preamble_location(z, str) = 0
    <3>1. Len(str) >= MIN_BITMAP_LEN /\ count_bits(str, 1) = 0
      BY <2>3, VerdictFacts
    <3>2. z <= Len(str)
      BY <2>3, <3>1, <1>4 DEF MIN_BITMAP_LEN
    <3> QED
      BY <3>1, <3>2, FoundAtFirst
  <2>4. LocationsAddUp
    BY DEF Inv
  <2> HIDE DEF v, none
  <2>5. none \in {0, 1} /\ (none = 1 => v = "no_ones")
    BY DEF none
  <2>6. ASSUME opts.preamble_index, status' = "running"
        PROVE  /\ SumFunction(preamble_locations') = line_count'
               /\ SumFunction(possible_msg_lens') =
                      line_count' - preamble_locations'[AMPDU_LEN]
               /\ preamble_zeros' <= MIN_BITMAP_LEN =>
                      preamble_locations'[0] >= filter'["no_ones"]
    <3> DEFINE pre  == preamble_location(Filled(preamble_zeros, p), str)
               post == postamble_location(p, Filled(postamble_zeros, p), str)
               d    == PossibleLen(pre, post)
    <3>1. Filled(preamble_zeros, p) = p /\ preamble_zeros' = p
      BY <1>3, <1>4, <2>6
      DEF Inv, CacheOK, Filled, AfterSearch, AfterAnalysis
    <3>2. pre \in 0 .. AMPDU_LEN
      BY <1>4, <3>1, LocationType
    <3>3. pre # AMPDU_LEN => d \in p .. AMPDU_LEN
      BY <2>6, Distances
    <3>4. /\ preamble_locations' = [preamble_locations EXCEPT ![pre] = @ + 1]
          /\ possible_msg_lens' =
                 IF pre = AMPDU_LEN THEN possible_msg_lens
                 ELSE [possible_msg_lens EXCEPT ![d] = @ + 1]
      BY <1>3, <2>6 DEF analyze_preamble_distributions
    <3>5. /\ SumFunction(preamble_locations) = line_count
          /\ SumFunction(possible_msg_lens) =
                 line_count - preamble_locations[AMPDU_LEN]
          /\ preamble_zeros <= MIN_BITMAP_LEN =>
                 preamble_locations[0] >= filter["no_ones"]
      BY <1>1, <2>4, <2>6 DEF LocationsAddUp
    <3>6. p <= MIN_BITMAP_LEN /\ v = "no_ones" => pre = 0
      BY <1>4, <2>3, <3>1
    <3>7. p <= MIN_BITMAP_LEN => preamble_zeros <= MIN_BITMAP_LEN
      BY <2>6 DEF Inv, CacheOK, MIN_BITMAP_LEN
    <3> HIDE DEF pre, post, d, p
    <3>8. pre # AMPDU_LEN => d \in 0 .. AMPDU_LEN
      BY <1>4, <3>3, LengthAssumption
    <3>9. /\ SumFunction(preamble_locations') = SumFunction(preamble_locations) + 1
          /\ SumFunction(possible_msg_lens') =
                 SumFunction(possible_msg_lens)
                 + (IF pre = AMPDU_LEN THEN 0 ELSE 1)
      <4>1. SumFunction(preamble_locations') = SumFunction(preamble_locations) + 1
        BY <2>1, <3>2, <3>4, FiniteTables, SumOneMore
      <4>2. CASE pre = AMPDU_LEN
        <5>1. SumFunction(possible_msg_lens) \in Int
          BY <2>1, <3>2, FiniteTables, SumOneMore
        <5> QED
          BY <3>4, <4>1, <4>2, <5>1
      <4>3. CASE pre # AMPDU_LEN
        <5>1. SumFunction([possible_msg_lens EXCEPT ![d] = @ + 1]) =
                  SumFunction(possible_msg_lens) + 1
          BY <2>1, <3>8, <4>3, FiniteTables, SumOneMore
        <5> QED
          BY <3>4, <4>1, <4>3, <5>1
      <4> QED
        BY <4>2, <4>3
    <3>10. /\ preamble_locations'[AMPDU_LEN] =
                  preamble_locations[AMPDU_LEN]
                  + (IF pre = AMPDU_LEN THEN 1 ELSE 0)
           /\ preamble_locations'[0] =
                  preamble_locations[0] + (IF pre = 0 THEN 1 ELSE 0)
      BY <2>1, <3>4, LengthAssumption
    <3>11. p <= MIN_BITMAP_LEN => preamble_locations'[0] >= filter'["no_ones"]
      <4>1. preamble_locations[0] \in Nat
        BY <2>1, LengthAssumption
      <4> QED
        BY <2>1, <2>2, <2>5, <3>5, <3>6, <3>7, <3>10, <4>1
    <3>12. preamble_locations[AMPDU_LEN] \in Nat
      BY <2>1, LengthAssumption
    <3>13. SumFunction(preamble_locations') = line_count'
      BY <1>1, <3>5, <3>9
    <3>14. SumFunction(possible_msg_lens') =
               line_count' - preamble_locations'[AMPDU_LEN]
      <4>1. /\ line_count' = line_count + 1 /\ line_count \in Nat
            /\ preamble_locations'[AMPDU_LEN] =
                   preamble_locations[AMPDU_LEN]
                   + (IF pre = AMPDU_LEN THEN 1 ELSE 0)
            /\ SumFunction(possible_msg_lens') =
                   line_count - preamble_locations[AMPDU_LEN]
                   + (IF pre = AMPDU_LEN THEN 0 ELSE 1)
        BY <1>1, <2>1, <3>5, <3>9, <3>10
      <4>2. CASE pre = AMPDU_LEN
        BY <3>12, <4>1, <4>2
      <4>3. CASE pre # AMPDU_LEN
        BY <3>12, <4>1, <4>3
      <4> QED
        BY <4>2, <4>3
    <3> QED
      BY <3>1, <3>11, <3>13, <3>14
  <2>7. ASSUME opts.consecutive_zeros # 0, status' = "running"
        PROVE  /\ SumFunction(zeros_locations') + zero_locations_not_counted' =
                      line_count'
               /\ preamble_zeros' <= MIN_BITMAP_LEN =>
                      zeros_locations'[0] + zero_locations_not_counted'
                          >= filter'["no_ones"]
    <3> DEFINE pre == preamble_location(AfterSearch, str)
    <3>1. preamble_zeros' = AfterSearch /\ AfterSearch \in Nat
      BY <1>3, <2>1
    <3>2. pre \in 0 .. AMPDU_LEN
      BY <3>1, LocationType
    <3>3. \/ /\ zero_locations_not_counted' = zero_locations_not_counted + 1
             /\ zeros_locations' = zeros_locations
          \/ /\ zeros_locations' = [zeros_locations EXCEPT ![pre] = @ + 1]
             /\ zero_locations_not_counted' = zero_locations_not_counted
      BY <1>3, <2>7 DEF find_first_set_of_zeros
    <3>4. /\ SumFunction(zeros_locations) + zero_locations_not_counted = line_count
          /\ preamble_zeros <= MIN_BITMAP_LEN =>
                 zeros_locations[0] + zero_locations_not_counted
                     >= filter["no_ones"]
      BY <1>1, <2>4, <2>7 DEF LocationsAddUp
    <3>5. AfterSearch <= MIN_BITMAP_LEN /\ v = "no_ones" => pre = 0
      BY <2>3, <3>1
    <3>6. AfterSearch <= MIN_BITMAP_LEN => preamble_zeros <= MIN_BITMAP_LEN
      BY <2>1 DEF AfterSearch, AfterAnalysis, Filled, MIN_BITMAP_LEN
    <3> HIDE DEF pre
    <3>7. /\ zeros_locations[0] \in Nat /\ SumFunction(zeros_locations) \in Int
          /\ SumFunction([zeros_locations EXCEPT ![pre] = @ + 1]) =
                 SumFunction(zeros_locations) + 1
          /\ [zeros_locations EXCEPT ![pre] = @ + 1][0] =
                 zeros_locations[0] + (IF pre = 0 THEN 1 ELSE 0)
      <4>1. 0 \in 0 .. AMPDU_LEN
        BY LengthAssumption
      <4>2. /\ SumFunction(zeros_locations) \in Int
            /\ SumFunction([zeros_locations EXCEPT ![pre] = @ + 1]) =
                   SumFunction(zeros_locations) + 1
        BY <2>1, <3>2, FiniteTables, SumOneMore
      <4>3. /\ zeros_locations[0] \in Nat
            /\ [zeros_locations EXCEPT ![pre] = @ + 1][0] =
                   zeros_locations[0] + (IF pre = 0 THEN 1 ELSE 0)
        BY <2>1, <4>1
      <4> QED
        BY <4>2, <4>3
    <3> DEFINE more == [zeros_locations EXCEPT ![pre] = @ + 1]
    <3>8. CASE zeros_locations' = zeros_locations
                /\ zero_locations_not_counted' = zero_locations_not_counted + 1
      <4>1. SumFunction(zeros_locations') + zero_locations_not_counted' =
                line_count'
        BY <1>1, <2>1, <3>4, <3>7, <3>8
      <4>2. AfterSearch <= MIN_BITMAP_LEN =>
                zeros_locations'[0] + zero_locations_not_counted'
                    >= filter'["no_ones"]
        BY <2>1, <2>2, <2>5, <3>4, <3>6, <3>7, <3>8
      <4> QED
        BY <3>1, <4>1, <4>2
    <3>9. CASE zeros_locations' = more
                /\ zero_locations_not_counted' = zero_locations_not_counted
      <4>1. /\ SumFunction(more) = SumFunction(zeros_locations) + 1
            /\ more[0] = zeros_locations[0] + (IF pre = 0 THEN 1 ELSE 0)
        BY <3>7
      <4> HIDE DEF more
      <4>2. SumFunction(zeros_locations') + zero_locations_not_counted' =
                line_count'
        BY <1>1, <2>1, <3>4, <3>7, <3>9, <4>1
      <4>3. AfterSearch <= MIN_BITMAP_LEN =>
                zeros_locations'[0] + zero_locations_not_counted'
                    >= filter'["no_ones"]
        BY <2>1, <2>2, <2>5, <3>4, <3>5, <3>6, <3>7, <3>9, <4>1
      <4> QED
        BY <3>1, <4>2, <4>3
    <3> QED
      BY <3>3, <3>8, <3>9
  <2> QED
    BY <1>1, <2>6, <2>7 DEF LocationsAddUp
<1>18. CacheOK'
  BY <1>1, <1>3, <1>4 DEF Inv, CacheOK, AfterSearch, AfterAnalysis, Filled
<1>19. QED
  BY <1>7, <1>11, <1>12, <1>13, <1>14, <1>15, <1>16, <1>17, <1>18 DEF Inv

LEMMA Invariance == Spec => []Inv
<1>1. Inv /\ [Next]_vars => Inv'
  <2> SUFFICES ASSUME Inv, [Next]_vars
               PROVE  Inv'
    OBVIOUS
  <2>1. CASE Next
    BY <2>1, LineStep, LineOverruns DEF Next
  <2>2. CASE UNCHANGED vars
    BY <2>2
    DEF vars, input, bit_vars, pre_vars, pos_vars, Inv, TypeOK, LinesAddUp,
        TalliesAgree, FilterTotal, NoAssertionFails, LengthsCoverPreamble,
        RoomForPacket, HistogramsAddUp, LocationsAddUp, CacheOK
  <2>3. QED
    BY <2>1, <2>2
<1>2. QED
  BY InitInv, <1>1, PTL DEF Spec

-----------------------------------------------------------------------------
\* Every counter keeps its type, and so do the strings (filter.c:27-54).
THEOREM TypeCorrect == Spec => []TypeOK
<1>1. Inv => TypeOK
  BY DEF Inv
<1>2. QED
  BY Invariance, <1>1, PTL

\* The report of the filter adds up: a line is a packet or is counted by one
\* filter (filter.c:258-388, 456-463).
THEOREM ReportAddsUp == Spec => []LinesAddUp
<1>1. Inv => LinesAddUp
  BY DEF Inv
<1>2. QED
  BY Invariance, <1>1, PTL

\* The tallies that filter.c, decode.c and the interval statistics keep of the
\* same lines agree (filter.c:286-345, decode.c:431).
THEOREM TalliesAlwaysAgree == Spec => []TalliesAgree
<1>1. Inv => TalliesAgree
  BY DEF Inv
<1>2. QED
  BY Invariance, <1>1, PTL

\* No assertion of the preamble analysis fails, whatever the bitmaps and
\* whatever -C asks for (filter.c:130-152).
THEOREM AssertionsHold == Spec => []NoAssertionFails
<1>1. Inv => NoAssertionFails
  BY DEF Inv
<1>2. QED
  BY Invariance, <1>1, PTL

\* The arrays the filter writes a packet and the zeros of -C to are long enough
\* if the longest match of the regular expression and those zeros are shorter
\* than they are (filter.c:59-64, 336-349).
THEOREM ArraysHaveRoom == Spec => []RoomForPacket
<1>1. Inv => RoomForPacket
  BY DEF Inv
<1>2. QED
  BY Invariance, <1>1, PTL

\* The histograms hold each line that is not too short once, and their ends are
\* the lines without zeros and without ones (filter.c:263-298, 613-627).
THEOREM HistogramsAlwaysAddUp == Spec => []HistogramsAddUp
<1>1. Inv => HistogramsAddUp
  BY DEF Inv
<1>2. QED
  BY Invariance, <1>1, PTL

\* The tables of -i and -C hold every line, and at their first location, or not
\* at all, those of zeros only (filter.c:553-579, 597-601, 631-643).
THEOREM LocationsAlwaysAddUp == Spec => []LocationsAddUp
<1>1. Inv => LocationsAddUp
  BY DEF Inv
<1>2. QED
  BY Invariance, <1>1, PTL

-----------------------------------------------------------------------------
(* -C and the static string of zeros.                                       *)

\* Without -i the string is that of -C from its first use on.
ZerosOfC == ~opts.preamble_index => preamble_zeros \in {0, opts.consecutive_zeros}

LEMMA ZerosOfCHolds == Spec => []ZerosOfC
<1>1. Init => ZerosOfC
  BY DEF Init, ZerosOfC
<1>2. ZerosOfC /\ [Next]_vars => ZerosOfC'
  <2> SUFFICES ASSUME ZerosOfC, [Next]_vars
               PROVE  ZerosOfC'
    OBVIOUS
  <2>1. CASE Next
    <3>1. PICK str \in Bitmaps, est \in Estimates : Line(str, est)
      BY <2>1 DEF Next
    <3>2. opts' = opts /\ preamble_zeros' \in {preamble_zeros, AfterSearch}
      BY <3>1 DEF Line, StopsWith
    <3>3. QED
      BY <3>2 DEF ZerosOfC, AfterSearch, AfterAnalysis, Filled
  <2>2. CASE UNCHANGED vars
    BY <2>2 DEF vars, ZerosOfC
  <2>3. QED
    BY <2>1, <2>2
<1>3. QED
  BY <1>1, <1>2, PTL DEF Spec

\* Every line counts the place of as many zeros as -C was given, although
\* their string is filled once, unless -i shares it (filter.c:56-80, 178-189).
THEOREM ZerosAlwaysLocated == Spec => ZerosLocated
<1> DEFINE Located ==
        zeros_locations' # zeros_locations /\ ~opts.preamble_index =>
           zeros_locations' =
               [zeros_locations EXCEPT
                   ![preamble_location(opts.consecutive_zeros, bitmap')] = @ + 1]
<1>1. ZerosOfC /\ [Next]_vars => [Located]_vars
  <2> SUFFICES ASSUME ZerosOfC, Next, zeros_locations' # zeros_locations,
                      ~opts.preamble_index
               PROVE  zeros_locations' =
                        [zeros_locations EXCEPT
                           ![preamble_location(opts.consecutive_zeros, bitmap')] = @ + 1]
    OBVIOUS
  <2>1. PICK str \in Bitmaps, est \in Estimates : Line(str, est)
    BY DEF Next
  <2>2. bitmap' = str /\ find_first_set_of_zeros(str, est)
    BY <2>1 DEF Line, StopsWith, pos_vars
  <2>3. /\ opts.consecutive_zeros # 0
        /\ zeros_locations' =
             [zeros_locations EXCEPT ![preamble_location(AfterSearch, str)] = @ + 1]
    BY <2>2 DEF find_first_set_of_zeros, pos_vars
  <2>4. AfterSearch = opts.consecutive_zeros
    BY <2>3 DEF AfterSearch, AfterAnalysis, Filled, ZerosOfC
  <2>5. QED
    BY <2>2, <2>3, <2>4
<1>2. QED
  BY ZerosOfCHolds, <1>1, PTL DEF Spec, ZerosLocated

-----------------------------------------------------------------------------
(* The mirror images.                                                       *)

\* A bitmap has zeros and ones only.
LEMMA BitsOfBitmap ==
    ASSUME NEW str \in Bitmaps
    PROVE  /\ Len(str) \in 1 .. AMPDU_LEN
           /\ count_bits(str, 0) \in 0 .. AMPDU_LEN
           /\ count_bits(str, 1) \in 0 .. AMPDU_LEN
           /\ count_bits(str, 0) + count_bits(str, 1) = Len(str)
<1> DEFINE S == DOMAIN str
           zeros == {k \in S : str[k] = 0}
           ones == {k \in S : str[k] = 1}
<1>1. str \in Seq(Bit) /\ Len(str) \in 1 .. AMPDU_LEN /\ S = 1 .. Len(str)
  BY BitmapFacts
<1>2. IsFiniteSet(S) /\ Cardinality(S) = Len(str)
  BY <1>1, FS_Interval
<1>3. zeros \cup ones = S /\ zeros \cap ones = {}
  BY <1>1 DEF Bit
<1>4. zeros \in SUBSET S /\ ones \in SUBSET S
  OBVIOUS
<1>5. count_bits(str, 0) = Cardinality(zeros) /\ count_bits(str, 1) = Cardinality(ones)
  BY Zenon DEF count_bits
<1> HIDE DEF S, zeros, ones
<1>6. IsFiniteSet(zeros) /\ IsFiniteSet(ones)
      /\ Cardinality(zeros) \in Nat /\ Cardinality(ones) \in Nat
  BY <1>2, <1>4, FS_Subset, FS_CardinalityType
<1>7. Cardinality(zeros \cap ones) = 0
  BY <1>3, FS_EmptySet
<1>8. Cardinality(zeros) + Cardinality(ones) = Len(str)
  <2>1. Cardinality(zeros \cup ones)
            = Cardinality(zeros) + Cardinality(ones) - Cardinality(zeros \cap ones)
    BY <1>6, FS_Union
  <2>2. Cardinality(zeros \cup ones) = Len(str)
    BY <1>2, <1>3, Zenon
  <2> QED
    BY <1>6, <1>7, <2>1, <2>2
<1> QED
  BY <1>1, <1>5, <1>6, <1>8, CountFacts

Tables == [0 .. AMPDU_LEN -> Nat]
OneMoreAt(t, x) == [t EXCEPT ![x] = @ + 1]

\* The bits that whole A-MPDUs would have more, if each entry of zh were a line
\* and each of oh taken back from its mirror image.
Missing(zh, oh) ==
    SumFunction([i \in 0 .. AMPDU_LEN |->
                    (AMPDU_LEN - i) * (zh[i] - oh[AMPDU_LEN - i])])
Mirrors(zh, oh) == \A i \in 0 .. AMPDU_LEN : zh[i] = oh[AMPDU_LEN - i]

\* Mirror images lack no bits.
LEMMA MirrorsLackNothing ==
    ASSUME NEW zh \in Tables, NEW oh \in Tables, Mirrors(zh, oh)
    PROVE  Missing(zh, oh) = 0
<1> DEFINE g == [i \in 0 .. AMPDU_LEN |->
                    (AMPDU_LEN - i) * (zh[i] - oh[AMPDU_LEN - i])]
<1>1. \A i \in 0 .. AMPDU_LEN : g[i] = 0
  <2> SUFFICES ASSUME NEW i \in 0 .. AMPDU_LEN
               PROVE  (AMPDU_LEN - i) * (zh[i] - oh[AMPDU_LEN - i]) = 0
    OBVIOUS
  <2>1. zh[i] - oh[AMPDU_LEN - i] = 0 /\ AMPDU_LEN - i \in Int
    BY LengthAssumption DEF Mirrors, Tables
  <2> QED
    BY <2>1
<1>2. g \in [0 .. AMPDU_LEN -> Int]
  <2>1. g = [i \in 0 .. AMPDU_LEN |-> 0]
    BY <1>1
  <2> QED
    BY <2>1
<1> HIDE DEF g
<1>3. SumFunction(g) = 0
  BY <1>1, <1>2, FiniteTables, SumOfZeros
<1> QED
  BY <1>3 DEF g, Missing

\* A line of z zeros and o ones lacks what is left of the A-MPDU.
LEMMA LineLacks ==
    ASSUME NEW zh \in Tables, NEW oh \in Tables,
           NEW z \in 0 .. AMPDU_LEN, NEW o \in 0 .. AMPDU_LEN
    PROVE  /\ Missing(zh, oh) \in Int
           /\ Missing(OneMoreAt(zh, z), OneMoreAt(oh, o))
                  = Missing(zh, oh) + (AMPDU_LEN - z - o)
<1> DEFINE N == AMPDU_LEN
           S == 0 .. AMPDU_LEN
           G(t, u) == [i \in S |-> (N - i) * (t[i] - u[N - i])]
           zz == OneMoreAt(zh, z)
           oo == OneMoreAt(oh, o)
           w == AMPDU_LEN - o
           g == G(zh, oh)
           h == G(zz, oh)
           k == G(zz, oo)
<1>1. /\ N \in Nat /\ w \in S /\ w \in Int /\ N - w = o /\ w = N - o
      /\ \A i \in S : N - i \in S /\ i \in Int
  BY LengthAssumption
<1>2. /\ zz \in Tables /\ zz[z] = zh[z] + 1
      /\ \A i \in S : i # z => zz[i] = zh[i]
  BY DEF OneMoreAt, Tables
<1>3. /\ oo \in Tables /\ oo[o] = oh[o] + 1
      /\ \A i \in S : i # o => oo[i] = oh[i]
  BY DEF OneMoreAt, Tables
<1> HIDE DEF zz, oo, N, w
<1>4. ASSUME NEW t \in Tables, NEW u \in Tables
      PROVE  G(t, u) \in [S -> Int]
  <2> SUFFICES ASSUME NEW i \in S
               PROVE  (N - i) * (t[i] - u[N - i]) \in Int
    OBVIOUS
  <2>1. N - i \in S /\ N - i \in Int
    BY <1>1
  <2>2. t[i] \in Nat /\ u[N - i] \in Nat
    BY <2>1 DEF Tables
  <2> QED
    BY <2>1, <2>2
<1>5. g \in [S -> Int] /\ h \in [S -> Int] /\ k \in [S -> Int]
  BY <1>2, <1>3, <1>4
<1>6. SameBut(g, h, S, z) /\ h[z] - g[z] = N - z
  <2>1. \A i \in S : i # z => h[i] = g[i]
    BY <1>2
  <2>2. h[z] - g[z] = N - z
    <3> DEFINE a == N - z
               c == zh[z] - oh[N - z]
    <3>1. N - z \in S /\ a \in Int
      BY <1>1
    <3>2. zh[z] \in Nat /\ oh[N - z] \in Nat
      BY <3>1 DEF Tables
    <3>3. zz[z] = zh[z] + 1
      BY <1>2
    <3>4. c \in Int /\ zz[z] - oh[N - z] = c + 1
      BY <3>2, <3>3
    <3>5. g[z] = a * c /\ h[z] = a * (c + 1)
      BY <3>4
    <3> HIDE DEF a, c
    <3>6. a * (c + 1) - a * c = a
      BY <3>1, <3>4
    <3> QED
      BY <3>5, <3>6 DEF a
  <2> QED
    BY <2>1, <2>2 DEF SameBut
<1>7. SameBut(h, k, S, w) /\ k[w] - h[w] = -o
  <2>1. ASSUME NEW i \in S, i # w PROVE k[i] = h[i]
    <3>1. N - i \in S /\ N - i # o
      BY <1>1, <2>1
    <3>2. oo[N - i] = oh[N - i]
      BY <1>3, <3>1
    <3> QED
      BY <3>2
  <2>2. k[w] - h[w] = -o
    <3> DEFINE c == zz[w] - oh[o]
    <3>1. zz[w] \in Int /\ oh[o] \in Int
      <4>1. zz[w] \in Nat
        BY <1>1, <1>2 DEF Tables
      <4>2. oh[o] \in Nat
        BY DEF Tables
      <4> QED
        BY <4>1, <4>2
    <3>2. c \in Int /\ zz[w] - oo[o] = c - 1
      BY <1>3, <3>1
    <3>3. h[w] = o * c /\ k[w] = o * (c - 1)
      BY <1>1, <3>2
    <3> HIDE DEF c
    <3>4. o * (c - 1) - o * c = -o
      BY <3>2
    <3> QED
      BY <3>3, <3>4
  <2> QED
    BY <2>1, <2>2 DEF SameBut
<1>8. /\ Missing(zh, oh) = SumFunction(g)
      /\ Missing(zz, oo) = SumFunction(k)
  BY DEF Missing, N
<1> HIDE DEF g, h, k
<1>9. /\ SumFunction(g) \in Int /\ SumFunction(h) \in Int
      /\ SumFunction(h) = SumFunction(g) - g[z] + h[z]
  BY <1>5, <1>6, FiniteTables, SumChanges
<1>10. /\ SumFunction(k) \in Int
       /\ SumFunction(k) = SumFunction(h) - h[w] + k[w]
  <2>1. IsFiniteSet(S) /\ w \in S
    BY <1>1, FiniteTables
  <2> HIDE DEF S
  <2> QED
    BY <1>5, <1>7, <2>1, SumChanges
<1>11. /\ g[z] \in Int /\ h[z] \in Int
       /\ h[w] \in Int /\ k[w] \in Int
  BY <1>1, <1>5
<1>12. Missing(zh, oh) \in Int /\ Missing(zz, oo) = Missing(zh, oh) + (N - z - o)
  <2>1. z \in Int /\ o \in Int /\ N \in Int
    BY <1>1
  <2>2. SumFunction(h) = SumFunction(g) + (N - z)
    BY <1>6, <1>9, <1>11, <2>1
  <2>3. SumFunction(k) = SumFunction(h) - o
    <3> DEFINE sum == SumFunction(h)
               p == h[w]
               q == k[w]
    <3>1. sum \in Int /\ p \in Int /\ q \in Int /\ q - p = -o
      BY <1>7, <1>9, <1>11
    <3>2. SumFunction(k) = sum - p + q
      BY <1>10
    <3> HIDE DEF sum, p, q
    <3>3. sum - p + q = sum - o
      BY <2>1, <3>1
    <3> QED
      BY <3>2, <3>3 DEF sum
  <2> QED
    BY <1>8, <1>9, <2>1, <2>2, <2>3
<1> QED
  BY <1>12 DEF zz, oo, N

\* No line has more bits than an A-MPDU.
NothingExtra == Missing(zeros_histo, ones_histo) >= 0

\* What a line does to the histograms.
LEMMA LineCounts ==
    ASSUME TypeOK, NEW str \in Bitmaps, NEW est \in Estimates, Line(str, est)
    PROVE  /\ bitmap' = str
           /\ \/ /\ zeros_histo' = zeros_histo /\ ones_histo' = ones_histo
                 /\ status' = "running" => filter'["len"] # filter["len"]
              \/ /\ zeros_histo' = OneMoreAt(zeros_histo, count_bits(str, 0))
                 /\ ones_histo' = OneMoreAt(ones_histo, count_bits(str, 1))
                 /\ filter'["len"] = filter["len"]
<1>1. bitmap' = str
  BY DEF Line
<1>2. CASE ~DistanceAsserts(str) \/ OverrunsZeros
  BY <1>1, <1>2 DEF Line, StopsWith, bit_vars
<1>3. CASE DistanceAsserts(str) /\ ~OverrunsZeros
  <2> DEFINE v == Verdict(str, est)
  <2>1. count_histograms(str, v) /\ filter' = Counted(v)
    BY <1>3 DEF Line
  <2>2. /\ v \in Verdicts /\ filter \in [Reasons -> Nat]
        /\ "len" \in Reasons /\ Verdicts = Reasons \cup {"packet"}
    BY VerdictFacts DEF TypeOK, Counter, Reasons, Verdicts
  <2>3. CASE v = "len"
    <3>1. zeros_histo' = zeros_histo /\ ones_histo' = ones_histo
      BY <2>1, <2>3 DEF count_histograms, bit_vars
    <3>2. filter' = [filter EXCEPT !["len"] = @ + 1]
      BY <2>1, <2>3 DEF Counted
    <3>3. filter'["len"] # filter["len"]
      BY <2>2, <3>2
    <3> QED
      BY <1>1, <3>1, <3>3
  <2>4. CASE v # "len"
    <3>1. /\ zeros_histo' = OneMoreAt(zeros_histo, count_bits(str, 0))
          /\ ones_histo' = OneMoreAt(ones_histo, count_bits(str, 1))
      BY <2>1, <2>4 DEF count_histograms, OneMoreAt
    <3>2. filter'["len"] = filter["len"]
      BY <2>1, <2>2, <2>4 DEF Counted
    <3> QED
      BY <1>1, <3>1, <3>2
  <2> QED
    BY <2>3, <2>4
<1> QED
  BY <1>2, <1>3

LEMMA NothingExtraHolds == Spec => []NothingExtra
<1>1. Init => NothingExtra
  <2> SUFFICES ASSUME Init PROVE NothingExtra
    OBVIOUS
  <2>1. /\ zeros_histo \in Tables /\ ones_histo \in Tables
        /\ Mirrors(zeros_histo, ones_histo)
    <3>1. \A i \in 0 .. AMPDU_LEN : AMPDU_LEN - i \in 0 .. AMPDU_LEN
      BY LengthAssumption
    <3> QED
      BY <3>1 DEF Init, Tables, Mirrors
  <2> QED
    BY <2>1, MirrorsLackNothing DEF NothingExtra
<1>2. NothingExtra /\ TypeOK /\ [Next]_vars => NothingExtra'
  <2> SUFFICES ASSUME NothingExtra, TypeOK, [Next]_vars PROVE NothingExtra'
    OBVIOUS
  <2>1. zeros_histo \in Tables /\ ones_histo \in Tables
    BY DEF TypeOK, Counter, Tables
  <2>2. CASE zeros_histo' = zeros_histo /\ ones_histo' = ones_histo
    BY <2>2 DEF NothingExtra
  <2>3. ASSUME Next, ~ (zeros_histo' = zeros_histo /\ ones_histo' = ones_histo)
        PROVE  NothingExtra'
    <3>1. PICK str \in Bitmaps, est \in Estimates : Line(str, est)
      BY <2>3 DEF Next
    <3> DEFINE z == count_bits(str, 0)
               o == count_bits(str, 1)
    <3>2. /\ zeros_histo' = OneMoreAt(zeros_histo, z)
          /\ ones_histo' = OneMoreAt(ones_histo, o)
      BY <2>3, <3>1, LineCounts
    <3>3. /\ z \in 0 .. AMPDU_LEN /\ o \in 0 .. AMPDU_LEN
          /\ z + o <= AMPDU_LEN /\ AMPDU_LEN \in Nat
      BY BitsOfBitmap, LengthAssumption
    <3> HIDE DEF z, o
    <3>4. /\ Missing(zeros_histo, ones_histo) \in Int
          /\ Missing(zeros_histo, ones_histo)'
                 = Missing(zeros_histo, ones_histo) + (AMPDU_LEN - z - o)
      BY <2>1, <3>2, <3>3, LineLacks
    <3> QED
      BY <3>3, <3>4 DEF NothingExtra
  <2> QED
    BY <2>2, <2>3 DEF vars, bit_vars
<1>3. QED
  BY TypeCorrect, <1>1, <1>2, PTL DEF Spec

\* The histograms are mirror images until the first counted bitmap that is
\* shorter than an A-MPDU, and never again: from then on they lack bits
\* (filter.c:263-280, 620-622).
THEOREM MirrorsUntilShort == Spec => MirroredUntilShort
<1> DEFINE Step ==
        status' = "running" =>
            (Mirrored' <=>
               /\ Mirrored
               /\ filter'["len"] # filter["len"] \/ Len(bitmap') = AMPDU_LEN)
<1>1. TypeOK /\ NothingExtra /\ NothingExtra' /\ [Next]_vars => [Step]_vars
  <2> SUFFICES ASSUME TypeOK, NothingExtra, Next, status' = "running"
               PROVE  Mirrored' <=>
                        /\ Mirrored
                        /\ \/ filter'["len"] # filter["len"]
                           \/ Len(bitmap') = AMPDU_LEN
    OBVIOUS
  <2>1. PICK str \in Bitmaps, est \in Estimates : Line(str, est)
    BY DEF Next
  <2>2. CASE zeros_histo' = zeros_histo /\ ones_histo' = ones_histo
             /\ filter'["len"] # filter["len"]
    BY <2>2 DEF Mirrored
  <2> DEFINE z == count_bits(str, 0)
             o == count_bits(str, 1)
  <2>3. CASE /\ zeros_histo' = OneMoreAt(zeros_histo, z)
             /\ ones_histo' = OneMoreAt(ones_histo, o)
             /\ filter'["len"] = filter["len"]
    <3>1. zeros_histo \in Tables /\ ones_histo \in Tables
      BY DEF TypeOK, Counter, Tables
    <3>2. /\ z \in 0 .. AMPDU_LEN /\ o \in 0 .. AMPDU_LEN
          /\ z + o = Len(str) /\ Len(str) \in 1 .. AMPDU_LEN
          /\ AMPDU_LEN \in Nat
      BY BitsOfBitmap, LengthAssumption
    <3>3. bitmap' = str
      BY <2>1, LineCounts
    <3> HIDE DEF z, o
    <3>4. CASE Len(str) = AMPDU_LEN
      <4>1. o = AMPDU_LEN - z
        BY <3>2, <3>4
      <4>2. ASSUME NEW i \in 0 .. AMPDU_LEN
            PROVE  zeros_histo'[i] = ones_histo'[AMPDU_LEN - i]
                       <=> zeros_histo[i] = ones_histo[AMPDU_LEN - i]
        <5>1. AMPDU_LEN - i \in 0 .. AMPDU_LEN
              /\ (i = z <=> AMPDU_LEN - i = o)
          BY <3>2, <4>1
        <5>2. zeros_histo[i] \in Nat /\ ones_histo[AMPDU_LEN - i] \in Nat
          BY <3>1, <5>1 DEF Tables
        <5>3. zeros_histo'[i] = zeros_histo[i] + (IF i = z THEN 1 ELSE 0)
          BY <2>3, <3>1, <5>2 DEF OneMoreAt, Tables
        <5>4. ones_histo'[AMPDU_LEN - i] =
                  ones_histo[AMPDU_LEN - i] + (IF i = z THEN 1 ELSE 0)
          BY <2>3, <3>1, <5>1, <5>2 DEF OneMoreAt, Tables
        <5> QED
          BY <5>2, <5>3, <5>4
      <4> QED
        BY <3>3, <3>4, <4>2 DEF Mirrored
    <3>5. CASE Len(str) # AMPDU_LEN
      <4>1. zeros_histo' \in Tables /\ ones_histo' \in Tables
        BY <2>3, <3>1, <3>2 DEF OneMoreAt, Tables
      <4>2. /\ Missing(zeros_histo, ones_histo) \in Int
            /\ Missing(zeros_histo', ones_histo')
                   = Missing(zeros_histo, ones_histo) + (AMPDU_LEN - z - o)
        BY <2>3, <3>1, <3>2, LineLacks
      <4>3. Missing(zeros_histo', ones_histo') # 0
        BY <3>2, <3>5, <4>2 DEF NothingExtra
      <4>4. ~ Mirrors(zeros_histo', ones_histo')
        BY <4>1, <4>3, MirrorsLackNothing
      <4> QED
        BY <2>3, <3>3, <3>5, <4>4 DEF Mirrored, Mirrors
    <3> QED
      BY <3>4, <3>5
  <2> QED
    BY <2>1, <2>2, <2>3, LineCounts
<1>2. QED
  BY TypeCorrect, NothingExtraHolds, <1>1, PTL DEF Spec, MirroredUntilShort
===============================================================================
