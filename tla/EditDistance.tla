----------------------------- MODULE EditDistance -----------------------------
(***************************************************************************)
(* The edit distance of levenshtein-new.c.  levenshtein_orig, which decode *)
(* uses, keeps one column of the table and overwrites it cell by cell;     *)
(* Advance is one cell of its inner loop, or the turn to the next column.  *)
(* levenshtein_new, which it could use instead, keeps the whole table.     *)
(***************************************************************************)
EXTENDS Bits

Min3(a, b, c) == IF a < b THEN IF a < c THEN a ELSE c
                          ELSE IF b < c THEN b ELSE c

\* The variables of levenshtein_orig before the loop over s2; y > Len(s1):
\* the column of x is complete.  column[0] is not set yet: it is 0 here, and
\* in C read only when s2 is empty.
Begin(s1) == [x |-> 0, y |-> Len(s1) + 1, lastdiag |-> 0,
              column |-> [k \in 0 .. Len(s1) |-> k]]

\* A slip: the inner loop stops before the last cell.
FinishedEarly(s1, s2, f) == f.x = Len(s2) /\ f.y >= Len(s1)

Finished(s1, s2, f) == f.x = Len(s2) /\ f.y > Len(s1)

\* The head of the outer loop.
NextColumn(f) ==
    [x |-> f.x + 1, y |-> 1, lastdiag |-> f.x,
     column |-> [f.column EXCEPT ![0] = f.x + 1]]

\* Slip: the diagonal is read after it was overwritten.
CellLosesDiagonal(s1, s2, f) ==
    LET cell == Min3(f.column[f.y] + 1, f.column[f.y - 1] + 1,
                     f.lastdiag + (IF s1[f.y] = s2[f.x] THEN 0 ELSE 1))
    IN  [x |-> f.x, y |-> f.y + 1, lastdiag |-> cell,
         column |-> [f.column EXCEPT ![f.y] = cell]]

\* One pass of the inner loop.
Cell(s1, s2, f) ==
    LET cell == Min3(f.column[f.y] + 1, f.column[f.y - 1] + 1,
                     f.lastdiag + (IF s1[f.y] = s2[f.x] THEN 0 ELSE 1))
    IN  [x |-> f.x, y |-> f.y + 1, lastdiag |-> f.column[f.y],
         column |-> [f.column EXCEPT ![f.y] = cell]]

Advance(s1, s2, f) ==
    IF f.y > Len(s1) THEN NextColumn(f) ELSE Cell(s1, s2, f)

\* The inner loop for the next column.
Pass(s1, s2, f) ==
    LET upto[y \in 0 .. Len(s1)] ==
            IF y = 0 THEN NextColumn(f) ELSE Cell(s1, s2, upto[y - 1])
    IN  upto[Len(s1)]

\* levenshtein: the outer loop, and the last cell of the last column.
levenshtein(s1, s2) ==
    LET upto[x \in 0 .. Len(s2)] ==
            IF x = 0 THEN Begin(s1)
            ELSE LET f == upto[x - 1]
                 IN  IF Finished(s1, s2, f) THEN f ELSE Pass(s1, s2, f)
    IN  upto[Len(s2)].column[Len(s1)]

\* find_min of levenshtein_new; and a slip: it misses a tie of the first two
find_min_strict(x, y, z) ==
    IF x < y /\ x < z THEN x ELSE IF y < x /\ y < z THEN y ELSE z

find_min(x, y, z) ==
    IF x <= y /\ x <= z THEN x ELSE IF y <= x /\ y <= z THEN y ELSE z

\* The row of a[i] in the table of levenshtein_new, from the row before.
Row(a, b, i, above) ==
    LET row[j \in 0 .. Len(b)] ==
            IF j = 0 THEN i
            ELSE IF a[i] = b[j] THEN above[j - 1]
            ELSE 1 + find_min(row[j - 1], above[j], above[j - 1])
    IN  row

levenshtein_new(a, b) ==
    LET d[i \in 0 .. Len(a)] ==
            IF i = 0 THEN [j \in 0 .. Len(b) |-> j] ELSE Row(a, b, i, d[i - 1])
    IN  d[Len(a)][Len(b)]
===============================================================================
