--------------------------------- MODULE Bits ---------------------------------
(***************************************************************************)
(* Strings of the characters '0' and '1', as sequences of 0 and 1.  The    *)
(* positions in them are those of C: the first character is at 0.          *)
(***************************************************************************)
EXTENDS Integers, Sequences, FiniteSets

Bit == {0, 1}

Zeros(n) == [k \in 1 .. n |-> 0]
Ones(n)  == [k \in 1 .. n |-> 1]

\* The bitmaps of a length in S.
BitmapsOf(S) == UNION {[1 .. n -> Bit] : n \in S}

\* The positions where strstr may find word in str.
Occurrences(str, word) ==
    {i \in 0 .. Len(str) - Len(word) :
        SubSeq(str, i + 1, i + Len(word)) = word}

First(S) == CHOOSE i \in S : \A j \in S : i <= j
Last(S)  == CHOOSE i \in S : \A j \in S : i >= j

\* count_bits, for one of the two characters
count_bits(str, bit) == Cardinality({k \in DOMAIN str : str[k] = bit})
===============================================================================
