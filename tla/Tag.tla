---------------------------------- MODULE Tag ---------------------------------
(***************************************************************************)
(* The firmware of the tag (tag.ino and helperfunctions.h, with isdemo and *)
(* deltazero 0): rotate_w_burst sends each value ptotal_messages_per_dump  *)
(* times.  A variable counts the statements, a step runs to the next       *)
(* delayMicroseconds, and left is what that delay leaves of its time.      *)
(*                                                                         *)
(* Time is counted in MPDUs of the sender, and mpdu_time is taken to be    *)
(* the duration of one.  level is what the two pins make of an MPDU: 1 it  *)
(* gets through, 0 it is corrupted.                                        *)
(***************************************************************************)
EXTENDS Bits

CONSTANTS
    B, M, P,         \* bits of a message, MPDUs of a bit and of an amble
    startnum,        \* the first value that is sent
    sizeofarray,     \* how many values are sent
    ptotal_messages_per_dump,  \* how often each is sent in a row
    wait_time,       \* the delay after a message
    rest_time        \* the delays between two values and around loop

ASSUME SettingsAssumption ==
    /\ {B, M, P, sizeofarray, ptotal_messages_per_dump} \subseteq Nat \ {0}
    /\ {startnum, wait_time, rest_time} \subseteq Nat

VARIABLES
    pc,          \* the statement after the delay
    value,       \* num of rotate_w_burst
    messages,    \* i of rotate_w_burst
    bits_left,   \* the bits send_data has still to send
    level,
    left

tag_vars == <<pc, value, messages, bits_left, level, left>>

\* A slip: the last value is left out.
LastnumShort == startnum + (sizeofarray - 2)

lastnum == startnum + (sizeofarray - 1)

\* setM and setP: how long a bit and an amble take.
m_bit_duration == M
zero_bit_duration == m_bit_duration
p_bit_duration == P

\* setup has run.  What level the pins have before the first set_to_one or
\* set_to_zero depends on the circuit.
TagInit ==
    /\ pc = "loop"
    /\ value = startnum
    /\ messages = 0
    /\ bits_left = 0
    /\ level \in Bit
    /\ left = 0

-----------------------------------------------------------------------------
(* Plausible slips, kept for the mutation checks.                           *)

\* the least significant bit first
BitFromTheRight(data, n) == (data \div 2 ^ (B - 1 - n)) % 2

\* the postamble keeps the level of the last bit
PostambleKeepsLevel == level

-----------------------------------------------------------------------------
BIT(data, n) == (data \div 2 ^ n) % 2

\* How long send_data holds a bit.
DurationOf(b) == IF b = 1 THEN m_bit_duration ELSE zero_bit_duration

PostambleLevel == 0

DelayAfter == wait_time

\* The condition of the inner loop of rotate_w_burst.
MoreMessages(n) == n < ptotal_messages_per_dump

\* loop: the delay before rotate_w_burst.
Loop ==
    /\ pc = "loop"
    /\ pc' = "messages"
    /\ value' = startnum
    /\ messages' = 0
    /\ left' = rest_time
    /\ UNCHANGED <<bits_left, level>>

\* send_data: the preamble.
SendPreamble ==
    /\ pc = "messages"
    /\ value <= lastnum
    /\ MoreMessages(messages)
    /\ pc' = "bits"
    /\ bits_left' = B
    /\ level' = 0
    /\ left' = p_bit_duration
    /\ UNCHANGED <<value, messages>>

\* send_data: one bit of the data.
SendBit ==
    /\ pc = "bits"
    /\ bits_left > 0
    /\ bits_left' = bits_left - 1
    /\ level' = BIT(value, bits_left - 1)
    /\ left' = DurationOf(BIT(value, bits_left - 1))
    /\ UNCHANGED <<pc, value, messages>>

\* send_data: the postamble.
SendPostamble ==
    /\ pc = "bits"
    /\ bits_left = 0
    /\ pc' = "reset"
    /\ level' = PostambleLevel
    /\ left' = p_bit_duration
    /\ UNCHANGED <<value, messages, bits_left>>

\* The pins after send_data, and the delay until the next message.
Reset ==
    /\ pc = "reset"
    /\ pc' = "messages"
    /\ level' = 1
    /\ messages' = messages + 1
    /\ left' = DelayAfter
    /\ UNCHANGED <<value, bits_left>>

\* The end of the experiment for one value.
NextValue ==
    /\ pc = "messages"
    /\ value <= lastnum
    /\ ~MoreMessages(messages)
    /\ value' = value + 1
    /\ messages' = 0
    /\ left' = rest_time
    /\ UNCHANGED <<pc, bits_left, level>>

\* rotate_w_burst returns; the delay at the end of loop.
EndOfBurst ==
    /\ pc = "messages"
    /\ value > lastnum
    /\ pc' = "loop"
    /\ left' = rest_time
    /\ UNCHANGED <<value, messages, bits_left, level>>

TagStep ==
    /\ left = 0
    /\ \/ Loop \/ SendPreamble \/ SendBit \/ SendPostamble \/ Reset
       \/ NextValue \/ EndOfBurst

\* One MPDU passes.
MpduPasses ==
    /\ left > 0
    /\ left' = left - 1
    /\ UNCHANGED <<pc, value, messages, bits_left, level>>
===============================================================================
