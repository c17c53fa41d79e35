------------------------------- MODULE CodeBook -------------------------------
(***************************************************************************)
(* The code words of levenshtein-new.c: what the tag sends for each value  *)
(* of b bits when a bit takes m MPDUs and each amble p, and the binary     *)
(* digits of the values, by which expected.c knows them.                   *)
(***************************************************************************)
EXTENDS Bits

\* A slip: the last character of each n is left out.
RepeatedShort(s, n) ==
    [k \in 1 .. n * Len(s) |->
        IF n > 1 /\ k % n = 0 THEN 0 ELSE s[(k - 1) \div n + 1]]

\* Every character of s n times: add_num_bits, once for each digit.
Repeated(s, n) == [k \in 1 .. n * Len(s) |-> s[(k - 1) \div n + 1]]

\* to_binary and num_digits: the digits of n, the most significant first.
num_digits(n) == First({d \in 1 .. n + 1 : n < 2 ^ d})
to_binary(n) ==
    LET d == num_digits(n) IN [k \in 1 .. d |-> (n \div 2 ^ (d - k)) % 2]

\* The digits of value with leading zeros, each as m bits.
message_bits(b, m, value) ==
    Zeros(m * (b - num_digits(value))) \o Repeated(to_binary(value), m)

\* create_expected_strs: expected_str[value]
expected_str(b, value) ==
    Zeros(b - num_digits(value)) \o to_binary(value)

\* create_lev_strings: lev_strings[value]
lev_string(b, m, p, value) ==
    <<1>> \o Zeros(p) \o message_bits(b, m, value) \o Zeros(p) \o <<1>>

num_values_of(b) == 2 ^ b
total_len(b, m, p) == 2 + 2 * p + b * m

\* expected_str_to_num, where its assertion holds: the value with that name.
expected_str_to_num(b, name) ==
    First({v \in 0 .. num_values_of(b) - 1 : expected_str(b, v) = name})
===============================================================================
