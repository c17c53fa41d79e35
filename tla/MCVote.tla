-------------------------------- MODULE MCVote --------------------------------
(***************************************************************************)
(* Small instances of the main loop: a window of a few slots, three values *)
(* (so that two can tie while a third leads) and each option that votes.   *)
(***************************************************************************)
EXTENDS Vote

\* Modes and sizes: windows shorter than and as long as the window array.
MCModes == {<<"-n", 2>>, <<"-n", 3>>, <<"-n", 4>>, <<"-l", 2>>, <<"-l", 3>>,
            <<"-A", 4>>, <<"none", 0>>}

\* Output off, on, and in safe mode with a minimum of 0 or 2 packets.
MCOutputs == {<<FALSE, FALSE, 0>>, <<TRUE, FALSE, 0>>, <<TRUE, TRUE, 0>>,
              <<TRUE, TRUE, 2>>}

MCOptions ==
    {[mode |-> m[1], size |-> m[2], output |-> o[1], safe_mode |-> o[2],
      min_packet_count |-> o[3]] :
        m \in MCModes, o \in MCOutputs}
    \ {[mode |-> "none", size |-> 0, output |-> TRUE, safe_mode |-> s,
        min_packet_count |-> k] : s \in BOOLEAN, k \in {0, 2}}

\* A vote among two packets with a minimum of three.
MCOverlapMinimum ==
    {[mode |-> "-l", size |-> 2, output |-> TRUE, safe_mode |-> TRUE,
      min_packet_count |-> 3]}
=============================================================================
