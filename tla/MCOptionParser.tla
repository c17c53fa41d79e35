---------------------------- MODULE MCOptionParser ----------------------------
(***************************************************************************)
(* OptionParser for the command lines that give the size of a packet, in   *)
(* either order, before or after up to three other options, and those with *)
(* any two.  The tables hold 8 values and packets of 40 bits.              *)
(***************************************************************************)
EXTENDS OptionParser

Opt(letter, arg) == [opt |-> letter, arg |-> arg]

\* Every option; those of Few are the ones that depend on others.
Few == {Opt("C", 3), Opt("G", 9), Opt("D", 5), Opt("O", 0), Opt("U", 0),
        Opt("U", 2), Opt("S", 0), Opt("A", 0), Opt("n", 4), Opt("l", 4),
        Opt("e", 0), Opt("E", 1), Opt("E", 4), Opt("B", 3), Opt("P", 1),
        Opt("file", 0), Opt("I", 0), Opt("z", 2)}
Rest == {Opt("E", -2), Opt("B", 0), Opt("B", 4), Opt("B", 31), Opt("B", 32),
         Opt("B", 50), Opt("M", 0), Opt("M", -2), Opt("M", 30), Opt("P", 0),
         Opt("P", -2), Opt("U", -1), Opt("Z", 9),
         Opt("r", 3), Opt("r", 4), Opt("a", 1), Opt("b", 2),
         Opt("c", 2), Opt("g", 7), Opt("m", 1),
         Opt("w", 5), Opt("R", 4), Opt("N", 64), Opt("i", 0), Opt("j", 0),
         Opt("k", 0), Opt("p", 0), Opt("t", 0), Opt("q", 0), Opt("v", 0),
         Opt("x", 0), Opt("F", 0), Opt("L", 0), Opt("s", 1), Opt("X", 0),
         Opt("h", 0)}

Sizes == {<<Opt("B", 2), Opt("M", 3), Opt("P", 2)>>,
          <<Opt("P", 2), Opt("B", 2), Opt("M", 3)>>}

Pairs == {<<a, b>> : a, b \in Few \cup Rest}
Triples == {<<a, b, c>> : a, b, c \in Few}

MCArgvs == Sizes \cup Pairs
           \cup {size \o s : size \in Sizes, s \in Pairs \cup Triples}
           \cup {s \o size : size \in Sizes, s \in Pairs \cup Triples}
===============================================================================
