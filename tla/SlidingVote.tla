----------------------------- MODULE SlidingVote -----------------------------
(***************************************************************************)
(* What the decoder promises of its votes.  Ballots are cast one by one    *)
(* and the latest size of them are kept; a ballot names the value that a   *)
(* block ack decoded to, or is Blank when it was not a packet.  A vote     *)
(* elects a value that no other value outnumbers among the ballots kept.   *)
(***************************************************************************)
EXTENDS Integers, Sequences, FiniteSets

CONSTANTS
    Value,   \* what a packet can decode to
    Blank,   \* the ballot of a block ack that is no packet
    Nobody,  \* what a vote among blank ballots elects
    NoVote   \* the winner before the first vote

VARIABLES
    size,    \* the number of ballots kept
    ballots, \* the ballots, oldest first
    winner   \* what the latest vote elected

voteVars == <<size, ballots, winner>>

Votes(b, v) == Cardinality({k \in 1 .. Len(b) : b[k] = v})

\* The values no other value outnumbers.
Elected(b) ==
    IF \A k \in 1 .. Len(b) : b[k] = Blank THEN {Nobody}
    ELSE {v \in Value : \A u \in Value : Votes(b, u) <= Votes(b, v)}

Init ==
    /\ size \in Nat
    /\ ballots = <<>>
    /\ winner = NoVote

\* A ballot is cast.  No vote need be held before the ballots are as many as
\* are kept, but once there has been one, each ballot is followed by one.
Cast(b) ==
    /\ size > 0
    /\ ballots' = Append(IF Len(ballots) = size THEN Tail(ballots) ELSE ballots, b)
    /\ winner' \in Elected(ballots') \cup {NoVote}
    /\ winner' # NoVote => Len(ballots') = size
    /\ winner # NoVote => winner' # NoVote
    /\ UNCHANGED size

\* The ballots cast so far are counted once, at the end.
Close ==
    /\ Len(ballots) < size
    /\ winner = NoVote
    /\ winner' \in Elected(ballots)
    /\ UNCHANGED <<size, ballots>>

Next == Close \/ \E b \in Value \cup {Blank} : Cast(b)

Spec == Init /\ [][Next]_voteVars
=============================================================================
