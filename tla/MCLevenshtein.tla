----------------------------- MODULE MCLevenshtein ----------------------------
(* All pairs of strings of at most 4 characters; the reference distance is  *)
(* found by searching the edits.                                            *)
EXTENDS Levenshtein

MaxLen == 4
MCStrings == BitmapsOf(0 .. MaxLen)

\* s with one character removed, replaced or inserted.
Edited(s) ==
    {[k \in 1 .. Len(s) - 1 |-> IF k < i THEN s[k] ELSE s[k + 1]] :
        i \in 1 .. Len(s)}
    \cup {[s EXCEPT ![i] = c] : i \in 1 .. Len(s), c \in Bit}
    \cup {SubSeq(s, 1, i) \o <<c>> \o SubSeq(s, i + 1, Len(s)) :
             i \in 0 .. Len(s), c \in Bit}

EditsOf == [s \in MCStrings |-> Edited(s) \cap MCStrings]

\* The strings that n edits of s reach.
Reached == [s \in MCStrings |->
    LET within[n \in 0 .. MaxLen] ==
            IF n = 0 THEN {s}
            ELSE UNION {EditsOf[t] \cup {t} : t \in within[n - 1]}
    IN  [n \in 0 .. MaxLen |-> within[n]]]

Edits == [s, t \in MCStrings |-> First({n \in 0 .. MaxLen : t \in Reached[s][n]})]

MCDistance(s, t) == Edits[s, t]
===============================================================================
