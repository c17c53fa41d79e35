------------------------------- MODULE MCCQueue -------------------------------
(* The circular queue for TLC: every size up to MaxSize but 1 and a few     *)
(* distinguishable pointers.  The queue's state is finite, so no counter    *)
(* needs a bound.                                                           *)
EXTENDS CQueue

CONSTANTS NumElem, MinSize, MaxSize

MCElem  == 1 .. NumElem
MCSizes == MinSize .. MaxSize
=============================================================================
