-------------------------------- MODULE MCReport ------------------------------
(***************************************************************************)
(* Report with two values, tables of four lengths, -N 2 and 4 in the place *)
(* of 32 and 64, and three lines of input.                                 *)
(***************************************************************************)
EXTENDS Report

Opts(in_file, value, max, thold, ber, quiet) ==
    [expected_in_file |-> in_file, expected_value |-> value,
     max_mpdus_p_ampdu |-> max, rate_gap_thold |-> thold,
     print_bit_error_rate |-> ber, quiet_mode |-> quiet]

MCOptions ==
    {Opts(TRUE, -1, 2, INT_MAX, FALSE, FALSE),
     Opts(TRUE, -1, 2, 1, TRUE, FALSE),
     Opts(FALSE, 1, 2, 1, TRUE, FALSE),
     Opts(FALSE, 1, 4, 2, FALSE, FALSE),
     Opts(FALSE, -1, 2, 1, FALSE, TRUE),
     Opts(FALSE, -1, 3, INT_MAX, FALSE, FALSE)}

MCLine(fields, expected, sent, sec) ==
    [fields |-> fields, expected |-> expected, sent |-> sent, sec |-> sec]

MCLines ==
    {MCLine(0, 0, 0, 0), MCLine(1, 0, 0, 0), MCLine(2, 0, 0, 0),
     MCLine(2, 1, 0, 0), MCLine(2, NoName, 0, 0),
     MCLine(6, 0, 4, 1), MCLine(6, 0, 3, 0), MCLine(8, 0, 2, 1),
     MCLine(11, 0, 1, 0)}

Outcome(kind, len, num, ties, dist) ==
    [kind |-> kind, len |-> len, num |-> num, ties |-> ties, dist |-> dist]

MCOutcomes ==
    {Outcome("none", 0, 0, 0, 0), Outcome("match", 0, 0, 0, 0),
     Outcome("packet", 3, 0, 2, 1), Outcome("packet", 3, 1, 0, 0),
     Outcome("packet", 2, 1, 1, 2)}
===============================================================================
