------------------------------- MODULE AckStats -------------------------------
(***************************************************************************)
(* The sliding-window statistics of decode/ack-stats.c (option -w).  Every *)
(* block ack is counted into all-time totals, a histogram of lengths and   *)
(* the current totals of the last window_size acks.  The acks of the       *)
(* window live in an array that is overwritten in a circle; the circular   *)
(* queue holds pointers into that array, which are its indexes here.  The  *)
(* slot that is overwritten next is the one the queue's front points to,   *)
(* so that the old ack must be subtracted before the new one is stored.    *)
(*                                                                         *)
(* A window of one ack is left out: its queue breaks on the second ack     *)
(* (see ItemsWithinSize of CQueue).  The totals are of type int and are    *)
(* taken to fit it; a hundred times a total need not.                      *)
(***************************************************************************)
EXTENDS CQueueOps, Sequences, FiniteSets

CONSTANTS
    MaxBits,     \* max_bits: the length of the longest bitmap
    WindowSizes, \* the window sizes -w may ask for
    Garbage,     \* what malloc'ed memory may hold
    INT_MAX,     \* the largest int
    MaxAcks      \* bound of the model: the number of acks counted

ASSUME MaxBitsAssumption     == MaxBits \in Nat \ {0}
ASSUME WindowSizesAssumption == WindowSizes \subseteq Nat \ {0, 1}
ASSUME GarbageAssumption     == Garbage \subseteq Int
ASSUME MaxAcksAssumption     == MaxAcks \in Nat
ASSUME IntMaxAssumption      == INT_MAX \in Nat /\ MaxAcks * MaxBits <= INT_MAX
ASSUME NullAssumption        == NULL \notin Nat

VARIABLES
    ack_stats_cq,     \* the struct cqueue of pointers into window
    window,           \* the acks of the window: [bits, zeros]
    window_index,     \* where the next ack is stored
    lengths,          \* lengths[b]: the number of acks of b bits
    cur_bits_total,   \* the bits and zeros of the acks in the window
    cur_zeros_total,
    bits_total,       \* the bits and zeros of all acks
    zeros_total,
    ack_count,
    seen              \* history: every ack, with the all-time totals after it

vars == <<ack_stats_cq, window, window_index, lengths, cur_bits_total,
          cur_zeros_total, bits_total, zeros_total, ack_count, seen>>

window_size == ack_stats_cq.size

AckInfo == [bits : Int, zeros : Int]

-----------------------------------------------------------------------------
\* ack_stats_create: the loop that clears lengths stops before max_bits.
Init ==
    /\ \E size \in WindowSizes :
          /\ ack_stats_cq = cqueue_create(size)
          /\ window = [i \in 0 .. size - 1 |-> [bits |-> -1, zeros |-> -1]]
    /\ window_index = 0
    /\ \E g \in Garbage :
          lengths = [b \in 0 .. MaxBits |-> IF b < MaxBits THEN 0 ELSE g]
    /\ cur_bits_total = 0
    /\ cur_zeros_total = 0
    /\ bits_total = 0
    /\ zeros_total = 0
    /\ ack_count = 0
    /\ seen = <<>>

(* Plausible slips of ack_stats_update, kept for the mutation checks.       *)

\* the test for a full queue is never met
LeavingNever == [bits |-> 0, zeros |-> 0]

\* the zeros of the ack that leaves are not subtracted
LeavingBitsOnly ==
    IF cqueue_items(ack_stats_cq) >= window_size
    THEN [bits |-> window[cqueue_front(ack_stats_cq)].bits, zeros |-> 0]
    ELSE [bits |-> 0, zeros |-> 0]

\* the index runs on past the end of the array
NextIndexNoWrap == window_index + 1

-----------------------------------------------------------------------------
\* The ack that leaves the window when one is added, none before it is full.
Leaving ==
    IF cqueue_items(ack_stats_cq) >= window_size
    THEN window[cqueue_front(ack_stats_cq)]
    ELSE [bits |-> 0, zeros |-> 0]

\* a->window_index = (a->window_index + 1) % a->window_size
NextIndex == (window_index + 1) % window_size

\* a->lengths[bits]++
Counted(bits) == [lengths EXCEPT ![bits] = @ + 1]

\* ack_stats_update, with its assertions on the arguments as the guard
ack_stats_update(bits, zeros) ==
    /\ bits \in 1 .. MaxBits
    /\ zeros \in 0 .. bits
    /\ ack_count < MaxAcks
    /\ ack_count' = ack_count + 1
    /\ lengths' = Counted(bits)
    /\ cur_bits_total' = cur_bits_total - Leaving.bits + bits
    /\ cur_zeros_total' = cur_zeros_total - Leaving.zeros + zeros
    /\ bits_total' = bits_total + bits
    /\ zeros_total' = zeros_total + zeros
    /\ window' = [window EXCEPT ![window_index] =
                                    [bits |-> bits, zeros |-> zeros]]
    /\ ack_stats_cq' = cqueue_add(ack_stats_cq, window_index)
    /\ window_index' = NextIndex
    /\ seen' = Append(seen, [bits        |-> bits,
                             zeros       |-> zeros,
                             bits_total  |-> bits_total',
                             zeros_total |-> zeros_total'])

Next == \E bits \in 1 .. MaxBits : \E zeros \in 0 .. bits :
            ack_stats_update(bits, zeros)

Spec == Init /\ [][Next]_vars

-----------------------------------------------------------------------------
\* The int that holds x, and the division of C, which rounds towards 0.
Wrapped(x) == ((x + INT_MAX + 1) % (2 * (INT_MAX + 1))) - (INT_MAX + 1)
Quotient(x, y) == IF x >= 0 THEN x \div y ELSE -((-x) \div y)

\* What ack_stats_print prints of the window and of all acks.  Division by
\* zero ends the process, so these are used only where Printable holds.
PrintedCount ==
    IF cqueue_items(ack_stats_cq) < window_size
    THEN cqueue_items(ack_stats_cq) ELSE window_size
CurrentAverage      == cur_bits_total \div PrintedCount
CurrentZerosPercent == Quotient(Wrapped(cur_zeros_total * 100), cur_bits_total)
OverallAverage      == bits_total \div ack_count
OverallZerosPercent == Quotient(Wrapped(zeros_total * 100), bits_total)
Printable == 0 \notin {PrintedCount, cur_bits_total, ack_count, bits_total}

-----------------------------------------------------------------------------
(* The properties.                                                          *)

\* The number of acks in the window, and the all-time totals after k acks.
InWindow == IF ack_count < window_size THEN ack_count ELSE window_size
BitsAfter(k)  == IF k = 0 THEN 0 ELSE seen[k].bits_total
ZerosAfter(k) == IF k = 0 THEN 0 ELSE seen[k].zeros_total

\* The fields keep their types, and the indexes stay inside the arrays.
TypeOK ==
    /\ window_size \in WindowSizes
    /\ window \in [0 .. window_size - 1 -> AckInfo]
    /\ window_index \in 0 .. window_size - 1
    /\ lengths \in [0 .. MaxBits -> Int]
    /\ cur_bits_total \in Int /\ cur_zeros_total \in Int
    /\ bits_total \in Nat /\ zeros_total \in Nat
    /\ ack_count \in Nat
    /\ seen \in Seq([bits : Nat, zeros : Nat,
                     bits_total : Nat, zeros_total : Nat])
    /\ Len(seen) = ack_count

\* The current totals are the bits and zeros of the last InWindow acks and of
\* no other: what the all-time totals grew by since the ack before them
\* (ack-stats.c:103-118).
WindowTotals ==
    LET old == ack_count - InWindow
    IN  /\ cur_bits_total = BitsAfter(ack_count) - BitsAfter(old)
        /\ cur_zeros_total = ZerosAfter(ack_count) - ZerosAfter(old)
        /\ \A k \in 1 .. ack_count :
              /\ BitsAfter(k) = BitsAfter(k - 1) + seen[k].bits
              /\ ZerosAfter(k) = ZerosAfter(k - 1) + seen[k].zeros

\* The queue's pointers lead to the acks of the window in the order they
\* arrived: storing an ack never overwrites one that is still queued.
PointersFollowArrival ==
    /\ cqueue_items(ack_stats_cq) = InWindow
    /\ \A k \in 1 .. InWindow :
          LET ack == seen[ack_count - InWindow + k]
          IN  window[Contents(ack_stats_cq)[k]] =
                  [bits |-> ack.bits, zeros |-> ack.zeros]

\* From the first ack on ack_stats_print divides by no zero, an average is a
\* length a bitmap can have, and a share of zeros is a percentage as long as a
\* hundred times the bits of the acks it is about fits an int, which is so for
\* some 335,000 acks of 64 bits: the share of all acks may be wrong later on, that
\* of the window only if -w asks for so many (ack-stats.c:126-133, called from
\* decode.c:576).
PrintedInRange ==
    ack_count > 0 =>
        /\ Printable
        /\ {CurrentAverage, OverallAverage} \subseteq 1 .. MaxBits
        /\ InWindow * MaxBits * 100 <= INT_MAX =>
               CurrentZerosPercent \in 0 .. 100
        /\ ack_count * MaxBits * 100 <= INT_MAX =>
               OverallZerosPercent \in 0 .. 100

\* Once there are acks, the histogram that ack_stats_lengths_print prints,
\* max_bits included, counts each of them once: its percentages are shares of
\* ack_count (ack-stats.c:139-142; test-ack-stats.c:35-38 prints it after an
\* ack of max_bits bits).
AllLengthsCounted ==
    ack_count > 0 => \A b \in 0 .. MaxBits :
        lengths[b] = Cardinality({k \in 1 .. ack_count : seen[k].bits = b})
=============================================================================
