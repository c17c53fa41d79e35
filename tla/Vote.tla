--------------------------------- MODULE Vote ---------------------------------
(***************************************************************************)
(* The main loop of decode: each line of input is decoded to a value or is *)
(* found to be no packet, is stored in a window array that is overwritten  *)
(* in a circle, and its index is put in a circular queue.  The value sent  *)
(* is elected by a vote among the entries queued:                          *)
(*                                                                         *)
(*   -n size  the latest size lines, at every line from size + 1 on        *)
(*            (decode.c:488-573);                                          *)
(*   -l size  the latest size packets, at every packet                     *)
(*            (process_saved_packets, window.c:90-202), with an array and  *)
(*            a queue of their own;                                        *)
(*   -A       all lines, once, at the end (compute_most_freq).             *)
(*                                                                         *)
(* A pointer into an array is its index.  How a line is decoded is left to *)
(* the environment: its outcome is the parameter of the actions.  The      *)
(* counters of the final report, which the loop never reads, are left out. *)
(***************************************************************************)
EXTENDS CQueueOps, Sequences, FiniteSets

CONSTANTS
    MaxWindow,  \* MAX_WINDOW_SIZE, the length of the window array
    NumValues,  \* num_values: the values are 0 .. NumValues - 1
    Options,    \* the options decode may be started with
    NotHanded,  \* no value was given to write_value
    MaxLines    \* bound of the model: the lines of the input

Values == 0 .. NumValues - 1

\* What process_options lets through (process-options.c:552-565, 586-592 and
\* 624-629), for one of -n, -l and -A or none: the size is that of the option.
\* A size of 1 breaks the queue (ItemsWithinSize of CQueue) and is left out;
\* the queue of -A is as long as the window.
LegalOptions ==
    {o \in [mode : {"-n", "-l", "-A", "none"}, size : Nat, output : BOOLEAN,
            safe_mode : BOOLEAN, min_packet_count : Nat] :
        /\ o.mode = "-n" => o.size \in 2 .. MaxWindow
        /\ o.mode = "-l" => o.size >= 2
        /\ o.mode = "-A" => o.size = MaxWindow
        /\ o.mode = "none" => o.size = 0
        /\ o.safe_mode => o.output
        /\ o.output => o.mode # "none"}

ASSUME MaxWindowAssumption == MaxWindow \in Nat \ {0, 1}
ASSUME NumValuesAssumption == NumValues \in Nat \ {0}
ASSUME OptionsAssumption   == Options \subseteq LegalOptions
ASSUME MaxLinesAssumption  == MaxLines \in Nat
ASSUME NullAssumption      == NULL \notin Nat
ASSUME HandedAssumption    == NotHanded \notin Int

VARIABLES
    opts,                \* the options, which do not change
    status,              \* "reading", or how the process ended
    line_count,
    windex,              \* the slot of the window the current line uses
    window,              \* the struct match_info of each slot
    cq,                  \* -n and -A: the queue of indexes into window
    packet_count,
    prev_packet_count,
    packet_window,       \* -l: the same for the packets alone
    packet_windex,
    packet_cq,
    most_freq_value,     \* what the latest vote elected
    window_packet_count, \* the packets among the entries it counted
    voted,               \* a vote has been held for the latest line
    handed               \* what the latest line gave to write_value

vars == <<opts, status, line_count, windex, window, cq, packet_count,
          prev_packet_count, packet_window, packet_windex, packet_cq,
          most_freq_value, window_packet_count, voted, handed>>

VALUE_INVALID == -1

Statuses == {"STATUS_INVALID", "STATUS_UNUSED", "STATUS_MATCH",
             "STATUS_NOT_PACKET"}

\* struct match_info, with match as the set of the values whose flag is set
MatchInfo == [status : Statuses, match : SUBSET Values, is_packet : BOOLEAN,
              ack_number : Int]

\* An array of n fresh entries.
Fresh(n, st, ack) ==
    [i \in 0 .. n - 1 |->
        [status |-> st, match |-> {}, is_packet |-> FALSE, ack_number |-> ack]]

-----------------------------------------------------------------------------
\* The initialisation in main.  A queue that is not created has size 0.
Init ==
    /\ opts \in Options
    /\ status = "reading"
    /\ line_count = 0
    /\ windex = 0
    /\ window = Fresh(MaxWindow, "STATUS_INVALID", -1)
    /\ cq = cqueue_create(IF opts.mode \in {"-n", "-A"} THEN opts.size ELSE 0)
    /\ packet_count = 0
    /\ prev_packet_count = 0
    /\ LET size == IF opts.mode = "-l" THEN opts.size ELSE 0
       IN  /\ packet_window = Fresh(size, "STATUS_UNUSED", 0)
           /\ packet_cq = cqueue_create(size)
    /\ packet_windex = 0
    /\ most_freq_value = VALUE_INVALID
    /\ window_packet_count = 0
    /\ voted = FALSE
    /\ handed = NotHanded

(* Plausible slips of the loop, kept for the mutation checks.               *)

\* the window is one slot shorter than the queue that points into it
NextIndexShort == (line_count + 1) % (MaxWindow - 1)

\* the maximum is not raised when a value exceeds it
CountKeepsMax(tally, m, j) ==
    IF j \notin m.match THEN tally
    ELSE LET n == tally.freq[j] + 1
         IN  [tally EXCEPT !.freq[j] = n,
                           !.value   = IF n > tally.max THEN j ELSE @]

\* the entries are counted oldest first instead of slot by slot
EntriesByAge(q, w, n) ==
    [k \in 1 .. n |-> w[q.items[Slot(q.front, k - 1, q.size)]]]

\* both grounds for holding a value back are required at once
HoldBackOnBoth(value, packets) ==
    /\ opts.safe_mode
    /\ value = VALUE_INVALID
    /\ packets < opts.min_packet_count

\* a flag is set for a line that is no packet too, at index VALUE_INVALID
AddAlwaysFlags(w, index, value, st, is_packet, ack_num) ==
    [w EXCEPT ![index] =
        [status     |-> st,
         match      |-> {value},
         is_packet  |-> st # "STATUS_NOT_PACKET" /\ is_packet,
         ack_number |-> ack_num]]

\* the entry of a packet lacks its is_packet flag
AddNoFlag(w, index, value, st, is_packet, ack_num) ==
    [w EXCEPT ![index] =
        [status     |-> st,
         match      |-> IF st = "STATUS_MATCH" THEN {value} ELSE {},
         is_packet  |-> FALSE,
         ack_number |-> ack_num]]

-----------------------------------------------------------------------------
\* windex = line_count % MAX_WINDOW_SIZE, after line_count++
NextIndex == (line_count + 1) % MaxWindow

\* packet_windex = (packet_windex + 1) % overlap_packet_count
NextPacketIndex == (packet_windex + 1) % opts.size

\* window_add: the entry is cleared before it is filled.
window_add(w, index, value, st, is_packet, ack_num) ==
    [w EXCEPT ![index] =
        [status     |-> st,
         match      |-> IF st = "STATUS_MATCH" THEN {value} ELSE {},
         is_packet  |-> st # "STATUS_NOT_PACKET" /\ is_packet,
         ack_number |-> ack_num]]

\* One value's flag in the counting loops: a value that exceeds the maximum
\* leads.
Count(tally, m, j) ==
    IF j \notin m.match THEN tally
    ELSE LET n == tally.freq[j] + 1
         IN  [freq  |-> [tally.freq EXCEPT ![j] = n],
              max   |-> IF n > tally.max THEN n ELSE tally.max,
              value |-> IF n > tally.max THEN j ELSE tally.value]

\* One entry: the flags of a match are looked at from value 0 up.
CountEntry(m, tally) ==
    IF m.status # "STATUS_MATCH" THEN tally
    ELSE LET t[j \in 0 .. NumValues] ==
                 IF j = 0 THEN tally ELSE Count(t[j - 1], m, j - 1)
         IN  t[NumValues]

\* The entries the queue's first n slots point to, slot by slot.
Entries(q, w, n) == [k \in 1 .. n |-> w[q.items[k - 1]]]

\* The counting loops: the value that first exceeds all others wins.
MostFrequent(q, w, n) ==
    LET zero   == [freq  |-> [j \in Values |-> 0],
                   max   |-> 0,
                   value |-> VALUE_INVALID]
        t[k \in 0 .. n] == IF k = 0 THEN zero
                           ELSE CountEntry(Entries(q, w, n)[k], t[k - 1])
    IN  t[n].value

Packets(q, w, n) ==
    Cardinality({k \in 1 .. n : Entries(q, w, n)[k].is_packet})

\* assert(m), for each of the first n slots
SlotsFilled(q, n) == \A i \in 0 .. n - 1 : q.items[i] # NULL

\* Whether safe mode keeps the outcome of a vote from the output file.
HoldBack(value, packets) ==
    /\ opts.safe_mode
    /\ value = VALUE_INVALID \/ packets < opts.min_packet_count

-----------------------------------------------------------------------------
\* write_value, if there is an output file and the value is not held back.
\* It writes through outfp, which nothing ever opens: fseek on the null
\* pointer ends the process.
Output(value, held, otherwise) ==
    IF opts.output /\ ~held
    THEN handed' = value /\ status' = "crashed"
    ELSE UNCHANGED handed /\ status' = otherwise

\* -n: the vote among the latest lines, once there are more of them than the
\* queue holds; before that the outcome is VALUE_INVALID, written as such.
VoteOfLines ==
    /\ voted' = (line_count' > opts.size)
    /\ IF ~voted'
       THEN /\ most_freq_value' = VALUE_INVALID
            /\ UNCHANGED window_packet_count
            /\ Output(VALUE_INVALID,
                      HoldBack(VALUE_INVALID, window_packet_count), "reading")
       ELSE IF ~SlotsFilled(cq', opts.size)
       THEN /\ status' = "aborted"
            /\ UNCHANGED <<most_freq_value, window_packet_count, handed>>
       ELSE /\ most_freq_value' = MostFrequent(cq', window', opts.size)
            /\ window_packet_count' = Packets(cq', window', opts.size)
            /\ Output(most_freq_value',
                      HoldBack(most_freq_value', window_packet_count'),
                      "reading")

\* -l: process_saved_packets, with the assertions of its loop.  The number of
\* packets is not compared with min_packet_count.
process_saved_packets ==
    IF cqueue_items(packet_cq') < opts.size
    THEN /\ status' = "reading"
         /\ UNCHANGED <<most_freq_value, voted, handed>>
    ELSE IF /\ cqueue_items(packet_cq') = opts.size
            /\ SlotsFilled(packet_cq', opts.size)
            /\ \A k \in 1 .. opts.size :
                  LET m == Entries(packet_cq', packet_window', opts.size)[k]
                  IN  m.is_packet /\ m.ack_number # 0
    THEN /\ most_freq_value' =
                MostFrequent(packet_cq', packet_window', opts.size)
         /\ voted' = TRUE
         /\ Output(most_freq_value',
                   opts.safe_mode /\ most_freq_value' = VALUE_INVALID,
                   "reading")
    ELSE /\ status' = "aborted"
         /\ UNCHANGED <<most_freq_value, voted, handed>>

\* What follows the storing of a line in the body of the loop.
EndOfLine ==
    /\ cq' = IF opts.mode \in {"-n", "-A"} THEN cqueue_add(cq, windex') ELSE cq
    /\ IF opts.mode = "-l" /\ packet_count' # prev_packet_count
       THEN /\ process_saved_packets
            /\ prev_packet_count' = packet_count'
            /\ UNCHANGED window_packet_count
       ELSE /\ UNCHANGED prev_packet_count
            /\ IF opts.mode = "-n" THEN VoteOfLines
               ELSE UNCHANGED <<status, most_freq_value, window_packet_count,
                                voted, handed>>

\* What precedes it: -A stops where the window would be full.
StartOfLine ==
    /\ status = "reading"
    /\ line_count < MaxLines
    /\ ~(opts.mode = "-A" /\ line_count + 1 >= MaxWindow)
    /\ line_count' = line_count + 1
    /\ windex' = NextIndex
    /\ UNCHANGED opts

\* A line that is_packet turns down.
NotPacket ==
    /\ StartOfLine
    /\ window' = window_add(window, windex', VALUE_INVALID,
                            "STATUS_NOT_PACKET", FALSE, line_count')
    /\ UNCHANGED <<packet_count, packet_window, packet_windex, packet_cq>>
    /\ EndOfLine

\* A packet that detect_with_lev decodes to num: it always finds a match.
Packet(num) ==
    /\ StartOfLine
    /\ packet_count' = packet_count + 1
    /\ IF opts.mode = "-l"
       THEN /\ packet_windex' = NextPacketIndex
            /\ packet_window' = window_add(packet_window, packet_windex', num,
                                           "STATUS_MATCH", TRUE, line_count')
            /\ packet_cq' = cqueue_add(packet_cq, packet_windex')
       ELSE UNCHANGED <<packet_window, packet_windex, packet_cq>>
    /\ window' = window_add(window, windex', num, "STATUS_MATCH", TRUE,
                            line_count')
    /\ EndOfLine

\* The exit of -A when the input has too many lines.
TooManyLines ==
    /\ status = "reading"
    /\ opts.mode = "-A" /\ line_count + 1 >= MaxWindow
    /\ line_count' = line_count + 1
    /\ status' = "exited"
    /\ UNCHANGED <<opts, windex, window, cq, packet_count, prev_packet_count,
                   packet_window, packet_windex, packet_cq, most_freq_value,
                   window_packet_count, voted, handed>>

\* The end of the input, where -A votes.  window_packet_count is a local
\* variable of compute_most_freq then.
EndOfInput ==
    /\ status = "reading"
    /\ IF opts.mode = "-A"
       THEN IF SlotsFilled(cq, line_count)
            THEN /\ most_freq_value' = MostFrequent(cq, window, line_count)
                 /\ window_packet_count' = Packets(cq, window, line_count)
                 /\ voted' = TRUE
                 /\ Output(most_freq_value',
                           HoldBack(most_freq_value', window_packet_count'),
                           "ended")
            ELSE /\ status' = "aborted"
                 /\ UNCHANGED <<most_freq_value, window_packet_count, voted,
                                handed>>
       ELSE /\ status' = "ended"
            /\ UNCHANGED <<most_freq_value, window_packet_count, voted, handed>>
    /\ UNCHANGED <<opts, line_count, windex, window, cq, packet_count,
                   prev_packet_count, packet_window, packet_windex, packet_cq>>

Next == NotPacket \/ TooManyLines \/ EndOfInput \/ \E num \in Values : Packet(num)

Spec == Init /\ [][Next]_vars

-----------------------------------------------------------------------------
(* The properties.                                                          *)

\* The queue a vote counts, the array it points into and its entries, oldest
\* first.
Queue  == IF opts.mode = "-l" THEN packet_cq ELSE cq
Array  == IF opts.mode = "-l" THEN packet_window ELSE window
Queued == [k \in 1 .. cqueue_items(Queue) |-> Array[Contents(Queue)[k]]]

\* The variables keep their types; every pointer leads into its array.
TypeOK ==
    /\ opts \in Options
    /\ status \in {"reading", "ended", "exited", "crashed", "aborted"}
    /\ line_count \in 0 .. MaxLines + 1
    /\ windex \in 0 .. MaxWindow - 1
    /\ window \in [0 .. MaxWindow - 1 -> MatchInfo]
    /\ packet_window \in [0 .. packet_cq.size - 1 -> MatchInfo]
    /\ packet_windex \in 0 .. packet_cq.size
    /\ prev_packet_count \in 0 .. packet_count
    /\ packet_count \in 0 .. line_count
    /\ most_freq_value \in Values \cup {VALUE_INVALID}
    /\ window_packet_count \in 0 .. line_count
    /\ voted \in BOOLEAN
    /\ handed \in Values \cup {VALUE_INVALID, NotHanded}
    /\ \A i \in 0 .. cq.size - 1 : cq.items[i] \in (0 .. MaxWindow - 1) \cup {NULL}
    /\ \A i \in 0 .. packet_cq.size - 1 :
          packet_cq.items[i] \in (0 .. packet_cq.size - 1) \cup {NULL}

\* The entries queued are those of the latest lines, one of each in the order
\* they were read, and with -l those of different packets in that order: an
\* array that is reused in a circle never changes an entry still queued
\* (window.c:43-86 called before decode.c:469-473 and decode.c:457-459).
QueueInOrder ==
    status # "exited" =>
        \A k \in DOMAIN Queued :
            IF opts.mode = "-l"
            THEN /\ Queued[k].ack_number \in 1 .. line_count
                 /\ k > 1 => Queued[k].ack_number > Queued[k - 1].ack_number
            ELSE Queued[k].ack_number = line_count - Len(Queued) + k

\* No assertion of the voting loops fails: the slots they read without asking
\* the queue hold entries, and with -l entries of packets (decode.c:505, 927;
\* window.c:109, 119-127).
NoAssertionFails == status # "aborted"

\* In safe mode a value reaches the output file only if one of the entries
\* voted on decoded to it, and with -n and -A only if at least
\* min_packet_count of them were packets (decode.c:550-556, 965-974;
\* window.c:181-187).
SafeModeOutput ==
    opts.safe_mode /\ handed # NotHanded =>
        /\ \E k \in DOMAIN Queued : handed \in Queued[k].match
        /\ opts.mode # "-l" =>
              opts.min_packet_count <=
                  Cardinality({k \in DOMAIN Queued : Queued[k].is_packet})

\* The loop holds the votes of SlidingVote: the ballots are the latest lines
\* (-n), packets (-l) or all lines (-A), and the winner is outnumbered by no
\* other value.
ImplementedVote == INSTANCE SlidingVote WITH
    Value   <- Values,
    Blank   <- NULL,
    Nobody  <- VALUE_INVALID,
    NoVote  <- NotHanded,
    size    <- opts.size,
    ballots <- [k \in DOMAIN Queued |->
                   IF Queued[k].match = {} THEN NULL
                   ELSE CHOOSE v \in Values : v \in Queued[k].match],
    winner  <- IF voted THEN most_freq_value ELSE NotHanded
ImplementsVote == ImplementedVote!Spec

\* A line that repeats what the line it pushes out decoded to never changes
\* the winner, not even among tied values: the new entry takes the queue slot
\* of the old one, and the slots are counted in the same order as before
\* (decode.c:503-522, window.c:111-153).
RepeatKeepsWinner ==
    [][LET n == opts.size
       IN  /\ opts.mode \in {"-n", "-l"} /\ voted /\ voted'
           /\ (Queued')[n].match = Queued[1].match
           => most_freq_value' = most_freq_value]_vars

\* The option -m as process-options.c:70 describes it: "minimum packet count
\* to update output file (used with safe_mode)".
MinimumForUpdate ==
    opts.safe_mode /\ handed # NotHanded =>
        opts.min_packet_count <=
            Cardinality({k \in DOMAIN Queued : Queued[k].is_packet})

\* Writing a value to an output file leaves the decoder running: "Added
\* support for writing to different files for different sensors"
\* (CHANGELOG:3).
OutputKeepsRunning == status # "crashed"
=============================================================================
