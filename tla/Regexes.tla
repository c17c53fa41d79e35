-------------------------------- MODULE Regexes -------------------------------
(***************************************************************************)
(* The regular expression packet_regexes_create of regexes.c writes for a  *)
(* packet: "10{p-1,p+1}[0-1]{bm-1,b(m+1)+2}0{p-1,p+1}1".  regexec takes    *)
(* the match that starts leftmost and of those the longest.                *)
(***************************************************************************)
EXTENDS Bits

\* A plausible slip, kept for the mutation checks: the zeros of the postamble
\* may be missing.
PostambleOptional(p, b, m, str, s, e) ==
    /\ str[s + 1] = 1 /\ str[e + 1] = 1
    /\ \E pre \in (p - 1) .. (p + 1), post \in 0 .. (p + 1) :
          /\ e - s - 1 - pre - post \in (b * m - 1) .. (b * (m + 1) + 2)
          /\ \A k \in s + 1 .. s + pre  : str[k + 1] = 0
          /\ \A k \in e - post .. e - 1 : str[k + 1] = 0

\* Whether it matches the characters s .. e of str.
PacketMatches(p, b, m, str, s, e) ==
    LET Runs == (p - 1) .. (p + 1)
    IN  /\ str[s + 1] = 1 /\ str[e + 1] = 1
        /\ \E pre, post \in Runs :
              /\ e - s - 1 - pre - post \in (b * m - 1) .. (b * (m + 1) + 2)
              /\ \A k \in s + 1 .. s + pre  : str[k + 1] = 0
              /\ \A k \in e - post .. e - 1 : str[k + 1] = 0

\* What regexec finds, where there is a match.
Leftmost(found, str) ==
    LET s == First({x[1] : x \in found})
        e == Last({x[2] : x \in {y \in found : y[1] = s}})
    IN  SubSeq(str, s + 1, e + 1)
===============================================================================
