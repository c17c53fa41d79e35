---------------------------------- MODULE Link --------------------------------
(***************************************************************************)
(* The whole way of a value: the tag corrupts MPDUs of the A-MPDUs that    *)
(* pass, the access point acknowledges the others, and decode gets the     *)
(* bitmap of the block ack as a line of its input, filters it and decodes  *)
(* the packet.  Sender and tag are not synchronised: an A-MPDU begins at   *)
(* any MPDU.  decode is fast: it is done with a bitmap before the next     *)
(* MPDU.                                                                   *)
(*                                                                         *)
(* When the tag is out of range, decode gets the packets that the noise    *)
(* makes, any of Packets(opts).                                            *)
(***************************************************************************)
EXTENDS Decoder, Tag

CONSTANTS
    AMPDU_LEN,     \* the MPDUs of an A-MPDU
    MaxErrors      \* how many of them are lost, or get through, by chance

\* The array target is as long as the longest bitmap (decode.h:5-6).
ASSUME LinkAssumption == AMPDU_LEN \in 1 .. MAX_BITS /\ MaxErrors \in Nat

VARIABLES
    sent,          \* the levels of the tag during the A-MPDU so far
    heard          \* what the bitmap of the block ack will say of it

link_vars == <<vars, tag_vars, sent, heard>>

\* is_packet, with the default options, as main calls it for the bitmap.
Filter == INSTANCE PacketFilter WITH
    Bitmaps <- {}, Estimates <- {0}, Options <- {}, MaxLines <- 0,
    opts <- [preamble_mpdus |-> opts.preamble_mpdus,
             bits_per_packet |-> opts.bits_per_packet,
             mpdus_per_bit |-> opts.mpdus_per_bit,
             preamble_index |-> FALSE, consecutive_zeros |-> 0,
             ampdu_greater_than |-> 0, filter_using_estimates |-> FALSE,
             min_zeros |-> 2 * (opts.preamble_mpdus - 1),
             zero_thold |-> 2 * opts.preamble_mpdus
                            + opts.bits_per_packet * opts.mpdus_per_bit + 5,
             amble_filter |-> 0, plen_short_by |-> 1, plen_long_by |-> 3],
    status <- "running", line_count <- 0, packet_count <- 0, bitmap <- heard,
    estimated_ampdu_len <- 0, packet_str <- packet, filter <- << >>,
    one_or_more_zeros <- 0, zeros_histo <- << >>, ones_histo <- << >>,
    preamble_zeros <- 0, postamble_zeros <- 0, preamble_locations <- << >>,
    possible_msg_lens <- << >>, zeros_locations <- << >>,
    zero_locations_not_counted <- 0, dt_per_packet_count <- 0,
    len_count <- << >>

InRange ==
    /\ opts.bits_per_packet = B
    /\ opts.mpdus_per_bit = M
    /\ opts.preamble_mpdus = P

LinkInit ==
    /\ Init
    /\ TagInit /\ (InRange \/ level = 1)
    /\ sent = << >> /\ heard = << >>

-----------------------------------------------------------------------------
Errors == Cardinality({k \in DOMAIN sent : sent[k] # heard[k]})

\* One MPDU: outside of an A-MPDU, as its first or its next.
Mpdu ==
    /\ InRange /\ status = "idle"
    /\ Len(heard) < AMPDU_LEN
    /\ MpduPasses
    /\ \/ heard = << >> /\ UNCHANGED <<sent, heard>>
       \/ \E b \in IF Errors < MaxErrors THEN Bit ELSE {level} :
              /\ sent' = Append(sent, level)
              /\ heard' = Append(heard, b)
    /\ UNCHANGED vars

\* The tag goes on to its next delay.
Tagging ==
    /\ InRange /\ status = "idle"
    /\ TagStep
    /\ UNCHANGED <<vars, sent, heard>>

Accepted(str) == Filter!Verdict(str, 0) = "packet"

BlockAck == Len(heard) = AMPDU_LEN /\ status = "idle"

\* The bitmap is a packet, which detect_with_lev is called with,
Detect ==
    /\ BlockAck
    /\ Accepted(heard)
    /\ Call(Filter!Matched(heard))
    /\ UNCHANGED <<tag_vars, sent, heard>>

\* or it is not.
Discard ==
    /\ BlockAck
    /\ ~Accepted(heard)
    /\ sent' = << >>
    /\ heard' = << >>
    /\ UNCHANGED <<vars, tag_vars>>

Noise ==
    /\ ~InRange
    /\ \E str \in Packets(opts) : Call(str)
    /\ UNCHANGED <<tag_vars, sent, heard>>

Decoding ==
    /\ Compare \/ Decide
    /\ UNCHANGED <<tag_vars, sent, heard>>

Done ==
    /\ Return
    /\ sent' = << >>
    /\ heard' = << >>
    /\ UNCHANGED tag_vars

LinkNext == Mpdu \/ Tagging \/ Detect \/ Discard \/ Noise \/ Decoding \/ Done

LinkSpec == LinkInit /\ [][LinkNext]_link_vars

\* decode has something to do: its actions are enabled.
Busy == BlockAck \/ status \in {"comparing", "matched"}

\* Time passes and the tag's statements are executed; decode reads every line
\* of its input to the end.  The second conjunct is the weak fairness of its
\* actions with Busy for their ENABLED, which would run levenshtein.
FairSpec ==
    /\ LinkSpec
    /\ WF_link_vars(Mpdu \/ Tagging)
    /\ []<>~Busy \/ []<><<Detect \/ Discard \/ Decoding \/ Done>>_link_vars

-----------------------------------------------------------------------------
(* The properties.                                                          *)

\* The A-MPDU that is acknowledged covers a whole message and an MPDU on
\* either side of it.
Covered(v) == Occurrences(sent, lev_word(opts, v)) # {}

\* What is decoded of an A-MPDU that covers a message is what the tag has
\* sent, although one MPDU, wherever it is, was lost or got through by chance
\* (helperfunctions.h:135-192, regexes.c:95-121, decode-algs.c:49-179), when a
\* bit and an amble have three MPDUs at least, as in tag.ino: with ambles of
\* two the regular expression may take an error for the 0s of one.
SentIsDecoded ==
    status = "matched" /\ InRange /\ (\E v \in Values : Covered(v)) =>
        decoded = value

\* A message that an end of the A-MPDU cuts off is no packet, without errors
\* (filter.c:319-345).
CutIsDiscarded ==
    status # "idle" /\ InRange /\ sent = heard =>
        \E v \in Values : Covered(v)

\* The positions of the bits of the message in the A-MPDU.
DataOf(v) ==
    LET o == First(Occurrences(sent, lev_word(opts, v)))
    IN  o + P + 2 .. o + P + 1 + B * M

\* An MPDU outside of the bits of the message is wrong.
AmbleHit(v) ==
    Covered(v) /\ \E k \in DOMAIN sent \ DataOf(v) : sent[k] # heard[k]

\* Every message that an A-MPDU covers, because it begins after the message
\* before and has room for it, is decoded in the end, and to its value, unless
\* an MPDU outside of the bits of the message is wrong.
Arrives ==
    (/\ InRange /\ sent = <<1>> /\ pc = "messages"
     /\ value <= lastnum /\ messages < ptotal_messages_per_dump
     /\ left + expected_len(opts) <= AMPDU_LEN)
    ~> \/ status = "matched" /\ decoded = value
       \/ BlockAck /\ AmbleHit(value)

\* The last of the values is sent again and again (helperfunctions.h:238-258).
LastValueSent ==
    []<>(~InRange \/ (value = startnum + sizeofarray - 1 /\ pc = "reset"))
===============================================================================
