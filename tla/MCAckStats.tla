------------------------------ MODULE MCAckStats ------------------------------
(* The ack statistics for TLC: windows of two and three acks, bitmaps of    *)
(* one or two bits, and twice as many acks as the larger window holds, so   *)
(* that every slot is overwritten at least once; and an int in which the    *)
(* percentage of all zeros overflows with the sixth ack of two zeros.       *)
EXTENDS AckStats

MCWindowSizes == {2, 3}
MCGarbage     == {0, 7}
=============================================================================
