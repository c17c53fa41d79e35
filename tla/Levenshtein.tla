----------------------------- MODULE Levenshtein ------------------------------
(***************************************************************************)
(* levenshtein_orig as it runs: a behaviour picks two strings and fills    *)
(* the column step by step.  Distance is the edit distance as mathematics  *)
(* has it; the instance that is checked defines it as the least number of  *)
(* insertions, deletions and substitutions, and the proofs need no more    *)
(* than its recurrence.                                                    *)
(***************************************************************************)
EXTENDS EditDistance

CONSTANTS
    Strings,         \* the strings that are compared
    Distance(_, _)   \* their edit distance

Prefix(s, n) == SubSeq(s, 1, n)

ASSUME StringsAssumption ==
    /\ Strings \subseteq Seq(Bit)
    /\ \A s \in Strings : \A n \in 0 .. Len(s) : Prefix(s, n) \in Strings

\* The recurrence of the edit distance.
ASSUME DistanceAssumption ==
    \A s, t \in Strings :
        /\ Distance(s, t) \in Nat
        /\ s = << >> => Distance(s, t) = Len(t)
        /\ t = << >> => Distance(s, t) = Len(s)
        /\ s # << >> /\ t # << >> =>
               LET n == Len(s)
                   m == Len(t)
               IN  Distance(s, t) =
                       Min3(Distance(s, Prefix(t, m - 1)) + 1,
                            Distance(Prefix(s, n - 1), t) + 1,
                            Distance(Prefix(s, n - 1), Prefix(t, m - 1))
                                + (IF s[n] = t[m] THEN 0 ELSE 1))

VARIABLES s1, s2, frame   \* the strings; x, y, lastdiag and column

lev_vars == <<s1, s2, frame>>

LevInit == s1 \in Strings /\ s2 \in Strings /\ frame = Begin(s1)

LevNext ==
    /\ ~Finished(s1, s2, frame)
    /\ frame' = Advance(s1, s2, frame)
    /\ UNCHANGED <<s1, s2>>

LevSpec == LevInit /\ [][LevNext]_lev_vars

-----------------------------------------------------------------------------
\* The strings stay, and every cell is a natural number.
TypeOK ==
    /\ s1 \in Strings /\ s2 \in Strings
    /\ frame \in [x : 0 .. Len(s2), y : 1 .. Len(s1) + 1, lastdiag : Nat,
                  column : [0 .. Len(s1) -> Nat]]

\* The one column stands for two of the table: above y it is still that of
\* the character before, and lastdiag is the cell that was overwritten last
\* (levenshtein-new.c:272-279).
ColumnIsTable ==
    frame.x > 0 =>
        /\ \A k \in 0 .. Len(s1) :
              frame.column[k] =
                  Distance(Prefix(s1, k),
                           Prefix(s2, IF k < frame.y THEN frame.x
                                      ELSE frame.x - 1))
        /\ frame.y <= Len(s1) =>
              frame.lastdiag = Distance(Prefix(s1, frame.y - 1),
                                        Prefix(s2, frame.x - 1))

\* What is returned is the edit distance (levenshtein-new.c:280).
ReturnsDistance ==
    Finished(s1, s2, frame) /\ s2 # << >> =>
        frame.column[Len(s1)] = Distance(s1, s2)

\* levenshtein_new, which levenshtein could call instead, takes a short cut
\* on equal characters and returns the same (levenshtein-new.c:318-331).
NewIsTheSame ==
    Finished(s1, s2, frame) => levenshtein_new(s1, s2) = Distance(s1, s2)
===============================================================================
