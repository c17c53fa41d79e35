# TLA+ models of witag-artifacts

WiTAG sends sensor readings over Wi-Fi without a radio: a tag (`tag/`) destroys
chosen MPDUs of the A-MPDUs that a sender (`sender-ap/`) transmits, so that the
bitmaps of the access point's block acks carry the tag's bits.  `decode/` reads
the bitmaps, one block ack per line, finds the tag's packets in them, decodes
each packet to a number, and writes the number to files that a web page
(`sensors/`) shows.  Nearly all logic is in `decode/`; these modules model it, and
the tag as far as it decides what `decode` gets to see.

## Inventory

| Component | State | Operations | Hard behaviours | What makes it correct |
|---|---|---|---|---|
| Circular queue, `cqueue.c` | items, front, rear, size | create, items, add (evicts when full), remove, front | wrap-around, empty/full boundary, one slot | FIFO of the latest `size` elements; NULL exactly outside the arc from front to rear (callers scan the raw array) |
| Ack statistics, `ack-stats.c` (`-w`) | ring of acks, queue of pointers into it, histogram, current and all-time totals | create, update, print | read-before-overwrite of the leaving ack, two indexes turning together | current totals = totals of the window; pointers lead to the right acks; histogram counts each ack once |
| Main loop and votes, `decode.c`, `window.c` | `window` ring, `cq`, `packet_window`, `packet_cq`, counts | one line of input; votes of `-n`, `-l`, `-A`; safe mode | ring entries reused while queued, slots scanned unasked, ties, safe mode | winner is a mode of exactly the latest lines/packets; stable; safe mode never outputs a guess |
| Packet filter, `filter.c`, `regexes.c` | counters per reason, histograms, cached pre/postamble | `is_packet` and its helpers | order of filters, static caches, indexes up to 64 | each line in exactly one category and in every table once; locations right for the length asked |
| Levenshtein decoding, `decode-algs.c`, `levenshtein-new.c` | code words, tie list | create code words, distance, nearest, tie break | table bounds, ties, extra leading/trailing one | distance is the edit distance; nearest code word wins |
| Tallies and interval statistics, `interval-stats.c`, `globals.c` | `dt_*`, `cumm_*`, `counts`, `error_counts` | per line, per packet, fold at `rate_gap_thold`, final fold | counters shared by three files, folded twice or never | cumulative + current = all |
| Sensors, `sensors-new.c` | lux table and counts | split value, convert, write | null `outfp`, odd split | not modelled but for the end of `write_value` |
| Options, `process-options.c` | option globals | getopt loop, validation | fall-through cases, order, exclusive options, overflow of 2^B | what starts has tables for its values and files for its output |
| Input reader, `decode.c:278-373` | line buffers | by number of fields: skip, accept, exit | lines skipped before being counted, fields kept from an earlier line | every accepted line is counted once |
| Durations, `durations.c`; getopt; shell scripts; page | - | - | doubles, vendored, no logic | not modelled |
| Tag firmware, `tag/` | value, repetition, bit, level of the pins | `loop`, `rotate_w_burst`, `send_data` | not synchronised with the sender: messages cut by an A-MPDU, lost MPDUs | what is decoded was sent; what is covered arrives |

`decode` is one process and one thread: the components interact by calls and by
global variables, in the order of the main loop (read line -> `is_packet` ->
`ack_stats_update` inside it -> `detect_with_lev` -> `window_add` ->
`cqueue_add` -> vote -> `write_value`).  It has no callbacks and persists
nothing; what is hard in it is aliasing between rings and queues, order within a
line, stale statics, counters shared by three files, and boundaries.  The tag and
the sender run beside it without any synchronisation: an A-MPDU may begin and end
anywhere in a message, and MPDUs are lost.  `PROJECT.json` lists each hazard at
its line.

## Modules

| Module | Models | |
|---|---|---|
| `BoundedFifo` | what `cqueue.c` promises: a FIFO that drops its oldest element when full | abstract |
| `CQueueOps`, `CQueue` | each function of `cqueue.c` as an operator; a client calling them in any legal order | refines `BoundedFifo` |
| `CQueueProofs` | | proofs |
| `AckStats`, `AckStatsProofs` | `ack_stats_create`, `ack_stats_update`, the figures of `ack_stats_print` | composes `CQueueOps` |
| `SlidingVote` | what the votes promise: ballots kept, winner not outnumbered | abstract |
| `Vote`, `VoteProofs` | the main loop from a decoded line to `write_value` | composes `CQueueOps`, refines `SlidingVote` |
| `Bits`, `Regexes` | strings of bits; the regular expressions of `regexes.c` as the strings they match | pure |
| `PacketFilter`, `FilterProofs` | `filter.c` | uses `Regexes` |
| `EditDistance` | `levenshtein`, `levenshtein_new` and the steps of the former | pure |
| `Levenshtein` | `levenshtein` cell by cell, against the recurrence | |
| `CodeBook` | the code words and names of the values | pure |
| `Decoder` | `detect_with_lev`, value by value | uses `CodeBook`, `EditDistance` |
| `Tag` | the tag's firmware, delay by delay | |
| `Link`, `LinkProofs` | tag, A-MPDUs and block acks, filter and decoder; the proofs also of `Decoder` and `Levenshtein` | composes `Tag`, `Decoder`, `PacketFilter` |
| `Report`, `ReportProofs` | reading a line, every counter, intervals, the report | |
| `OptionParser`, `OptionParserProofs` | `process_options` | uses `CodeBook` |
| `Lemmas` | induction, sums, the queue's functions and the code words, for all the proofs | proofs |
| `MC*` | the constants of the runs | |

Names are the code's.  A pointer into an array is its index, the null pointer
is the model value `NULL`; a struct is a record.  Operators whose comment calls
them plausible slips are not part of any specification: they are wrong versions
of one definition each, with which the runs are repeated to see that the
properties notice.

**`CQueue`.**  State: the struct, the latest result, and whether an assertion
has ended the process.  `cqueue_front` and `cqueue_remove` are called on
non-empty queues only, as in the code.  With `front` -1 a load reads the word
before the array, which may be anything.

**`AckStats`.**  State: the fields of `struct ack_stats`, and the history
`seen` of all acks with the all-time totals after each.  The leaving ack is read
from the window through the queue's front before its slot is overwritten, in the
code's order.  `malloc`'ed counters hold an arbitrary value from `Garbage`.
The totals are taken to fit an `int`; a hundred times a total wraps around
(`Wrapped`), as it does after some 335,000 acks of 64 bits.

**`Vote`.**  State: `window`/`windex`/`cq`, `packet_window`/`packet_windex`/
`packet_cq`, the counts that decide what happens, and the outcome.  Each action
is the whole body of the loop: storing, queueing, voting and output.  How a line
is decoded is open: any outcome may come at any line.  The counting loop is
modelled slot by slot (`MostFrequent`), because the order decides ties.
`write_value` ends the process (see the findings), so the status is then
`"crashed"`.

**`PacketFilter`.**  State: the counters of each filter, the histograms, the
static preamble and postamble, the locations.  One action, `Line`: a bitmap goes
through the checks of `is_packet` in the code's order.  A static string is
represented by its length, 0 until it is filled.  The process ends at the
assertions on the distance (`"aborted"`), and where the string of `-C` or a
packet is longer than its array, since what such a write hits depends on the
build (`"undefined"`).  The one assertion outside `is_packet`, of the report, is
`Mirrored`; `MirroredUntilShort` says how long it holds.

**`Decoder`.**  State: the packet, the value compared next and `best` (`min`,
`min_index`, `ties_count`, `ties_index`).  One step per value, as the loop goes,
then `Decide`, where `rand()` is a choice of any tie it can draw.  A write past
`target` or `ties_index` makes the status `"undefined"`.

**`Tag` and `Link`.**  The tag's program counter moves from delay to delay, and
time is counted in MPDUs.  `Link` lets MPDUs pass, each acknowledged as the
tag's level says, or, `MaxErrors` times in an A-MPDU, not; the bitmap is then
given to `PacketFilter!Verdict` and, if it is a packet, to the decoder.  An
A-MPDU begins at any MPDU: the sender knows nothing of the tag.

**`Report`.**  State: the variables a line is read into, and every counter of
`decode.c`, `decode-algs.c` and `interval-stats.c` that the report uses.  The
actions are a line (skipped, refused, or counted with any outcome) and the
report.  `dt_...`/`delta_...` and `cumm_...` are the records `dt` and `cumm`.
A format without a length keeps the `r_sent` of an earlier line; 0 stands for
the empty string, and then the word before `t_f` is incremented.

**`OptionParser`.**  State: the command line, `optind`, the variables of
`options.c`, and how it ends.  `GetOpt` is one round of the loop, `Check` the
rest of the function, with the tables of code words and names it creates: their
assertions and their `malloc`s of negative sizes end the process.  Numbers are
of 16 bits, so that the length of a packet does not overflow; 2 to the power
`-B` does, as in the code.  `-n`, `-l` and `-w` are not bounded by anything: that
the queues of `Vote` and `AckStats` are not longer than their arrays is an
assumption of these modules and no property of this one.

## Runs

| Run | Instance | Shows |
|---|---|---|
| `cqueue` | sizes 2..4, 3 pointers, all orders of calls (full state space) | the FIFO, the ring and the assertions |
| `cqueue_one_slot` | size 1 | `ItemsWithinSize` fails: finding |
| `ack_stats` | windows 2 and 3, bitmaps of 1..2 bits, 6 acks, `int`s up to 1023 | current totals are those of the window; figures in range while a hundred times the totals fits an `int` |
| `ack_lengths` | the same, 2 acks | `AllLengthsCounted` fails: finding |
| `vote` | window of 4 slots, 3 values, 7 lines; `-n` 2, 3, 4, `-l` 2, 3, `-A`, none; no output, output, safe mode with minimum 0 and 2 | the votes refine `SlidingVote`; safe mode |
| `vote_minimum` | `-l 2 -S -m 3` | `MinimumForUpdate` fails: finding |
| `vote_output` | as `vote`, 5 lines | `OutputKeepsRunning` fails: finding |
| `packet_filter` | short bitmaps of every length, each filter on and off, `-C` up to the length of the arrays | one category per line, tallies and tables agree, histograms mirror each other until a short bitmap, room in the arrays, zeros located |
| `levenshtein` | all pairs of short strings | the column in place is the table; both implementations agree |
| `link` | B 2, M 3, P 3; A-MPDUs of 18 MPDUs, one error in each; and decoders of other sizes, with `-k`, `-x`, `-j`, given packets with errors | covered messages arrive and are decoded to what was sent; cut ones are discarded; ties are the nearest values |
| `report` | 2 values, 4 lengths, 3 lines in every format, 5 outcomes, 6 sets of options | intervals and histograms add up, columns agree, divisions |
| `options` | 54 options; a packet size before or after any two of them, and any three of the 18 that depend on one another | what is accepted has words and files; default thresholds |

The bounds.  A ring of *n* slots behaves the same after each turn; the runs let
every ring turn at least once completely (6 acks through windows of 2 and 3,
7 lines through a window of 4 whose largest queue is as long as the array, which
is where aliasing would begin).  Three values are the least with which two can
tie while a third has led.  In `link`, an A-MPDU holds a message of 12 MPDUs with
six MPDUs around it, of which up to five are on one side, so that a match may
also begin before the message or end after it; the wait after a message is as
long as an A-MPDU.  Three MPDUs per bit are the least with which one error leaves
the nearest word unique, and ambles of three the least with which one error
beside a message does no harm: with P 2 and 16 MPDUs or more the run refutes
`SentIsDecoded`.  The tag's values begin at one that is not a palindrome.  Three lines are
enough for `report` to close an interval at a packet, go on in the next, and
leave a rest, and for an expected value to change and change back.  Three options
are enough for `-U`, `-O` and a mode in every order, and one more size after the
packet's.  The filter's `AMPDU_LEN` of 11 leaves room for a packet of 5 and its
`-c`, and for bitmaps shorter than an A-MPDU and as long.  `MaxAcks` and `MaxLines` bound counters that the code leaves to `int`.
Runs end there, or where the process or the function ends, so they do not check
deadlock; `cqueue` does.  `link` never ends, but a decoder that has written past
an array stops, and that is the case `RoomForTies` excludes.

Fairness.  Only `Link` has it: time passes and the tag's statements are executed
(weak fairness of `Mpdu \/ Tagging`), and `decode` does not stop with a line it
has read.  The latter is written with `Busy` in the place of `ENABLED`: a process
that is not blocked goes on, and `decode` blocks on `fgets` only, when it is not
`Busy`.  No fairness is assumed of the errors: `Arrives` excepts the messages
whose ambles one of them hits.  Elsewhere the input decides how long the loop
runs, so nothing is claimed to happen eventually.

## Proofs

TLAPS proves, for every value of the constants and every number of steps:

* `CQueueProofs`: `TypeCorrect`, `RingAlwaysConsistent`, `AssertionsHold`,
  `Refinement` (`CQueue` implements `BoundedFifo`), each from the assumption
  that size 1 is not used, which the run `cqueue_one_slot` shows to be needed.
  The assertions and the FIFO order follow from the arc between front and rear,
  not from the counts alone.  `AddIsPut` and `RemoveIsTake` of `Lemmas` carry the
  refinement: they compare the contents before and after slot by slot, by cases
  on where the arc wraps.
* `VoteProofs`: `TypeCorrect`, `QueuedInOrder`, `NoAssertionEverFails`,
  `SafeModeHolds`, `RepeatKeeps`, and `LoopImplementsVote`, that the loop
  implements `SlidingVote`.  The invariant `Inv` ties each queue to its array:
  `LinesQueued` and `PacketsQueued` say that the pointers of the queue are the
  latest indexes of the ring, oldest first; without them nothing excludes that
  an entry is overwritten while it is queued.  `EntriesQueued` says what those
  entries hold, line by line; `VotesHeld`, that the counting loop was last run
  on these entries.  For the refinement the loop of slots (`MostFrequent`) is
  shown by induction to elect a value that no other outnumbers, and, for
  `RepeatKeeps`, to depend on nothing but the sequence of slots; the history
  that `SlidingVote` keeps is the latest entries of `Queued`, and each line is
  one of its votes, or a stutter when the mode counts packets and there is none.
* `AckStatsProofs`: `TypeCorrect`, `TotalsFollowWindow`, `PointersAlwaysFollow`,
  `PrintedAlwaysInRange`.  `WindowTotals` is not inductive: to know what leaves
  one must know that the queue's front is the slot about to be overwritten
  (`InStep`) and that each slot holds the ack of its age (`Held`).  The figures
  need a bound on a sum, `DivideBetween` after an induction over the window, and
  that what fits an `int` is not wrapped (`WrappedFits`).
* `FilterProofs`: `TypeCorrect`; the counters add up (`ReportAddsUp`,
  `TalliesAlwaysAgree`), and so do the tables of `-i` and `-C`
  (`HistogramsAlwaysAddUp`, `LocationsAlwaysAddUp`); the assertions of
  `is_packet` hold, and the arrays have room.  `MirrorsUntilShort` counts the bits
that whole A-MPDUs would have more than the lines so far (`Missing`): mirror
images lack none, no line has too many (`NothingExtra`), so what one short bitmap
lacks is never made up for.  `CacheOK` and `ZerosOfC` say of
  the static string of zeros, which `-i` and `-C` share, whose it is: the
  assertions rest on the one, `ZerosAlwaysLocated` on the other.  That the lines
  of zeros only are in the first place of a table needs that zeros no longer than
  the bitmap are found at its beginning (`FoundAtFirst`).  `RoomForPacket` has
  conditions on the sizes and on `-C`, which the code does not check.
* `LinkProofs`, of `Levenshtein`: `TypeCorrect`, `OneColumnIsEnough`,
  `DistanceReturned` and `NewReturnsTheSame`, for every pair of strings.  The
  invariant (`Good`) is that cells above and below the current one belong to two
  columns of the table.  The distance is a constant, assumed to satisfy its
  recurrence; the run gives it the least number of insertions, deletions and
  replacements, found by searching, and evaluates the assumption.
  `levenshtein_new` takes the diagonal where two characters are equal:
  `GrowsByOne` and `ShrinksAlong` show that neighbouring cells differ by at most
  one, so that the diagonal is then the least.
* `LinkProofs`, of `Decoder`: `NearestIsDecoded` and `RoomIsEnough`, for every
  code and packet.  The invariant `DecInv` says what `best` is between two values
  (`Leads`): with `-k` its ties are exactly the values seen so far whose result
  is the least, without it `min_index` is the first of them; and that there are
  at most two ties per value, less one, which bounds the writes to `ties_index`.
  That every result is below `INT_MAX`, with which `min` starts, needs a bound of
  the distance (`ResultBound`) and the length of a code word (`WordFacts`).
  `OneErrorIsCorrected`, with three MPDUs per bit or more: two words differ in a
  whole block of equal bits (`WordsApart`).  Where words are compared as they
  are, `SmallDistance`, an invariant of the loop that tells which of its cells
  are at most 1, and `NoneBetween` exclude that a packet is one edit from both.
  Where they get an extra 1 at either end, the packet may be two edits from its
  own word (`OneMore`); a function that obeys the inequalities of the recurrence
  bounds the distance from below (`DistanceAbove`), one such function
  (`CostBefore`, `CostAfter`) shows that any other word is four edits from it,
  and one edit costs one (`OneEditBelow`), so it stays at three.
* `LinkProofs`, of `Link`: `LinkDecodesNearest` and `LinkHasRoom`, whatever the
  waits, because all the filter finds is a packet.  From `LongWaits`, which says
  that a wait is as long as an A-MPDU, that an amble is at least two MPDUs long
  (at one the regular expression lets it be empty), and that the values have
  their bits: `CutMessagesDiscarded` and `ExactIsDecoded`, of any A-MPDU without
  errors; `FaithfulLinkDecodes`, on a link without errors; and, with three MPDUs
  per bit, `LinkCorrectsOneError`, when one MPDU of the message's bits is wrong,
  and `LinkCorrectsAnyError`, with ambles of three MPDUs, when any one is.
  `tag.ino:11-24` satisfies them (5 bits, 3 MPDUs per bit, ambles of 3, waits of
  1815 us or about 100 MPDUs of 18 us, of which an A-MPDU has 64).  `LinkInv`
  relates what an A-MPDU has seen to the tag's program counter: its part of the
  waits and of at most one message, and the place where that message began
  (`Seen`), and that what the filter hands over is the part of it that matches
  (`Handed`); without it nothing excludes that an A-MPDU joins two messages.
  `FilterFinds` says what the filter hands over, `OnlyPlace` and `OnlyMatch` that
  a part of these levels matches only where the whole word is, and `FewPlaces`
  that with one MPDU wrong it begins or ends one MPDU beside it at most, which
  makes it one edit from the word (`SlipIsOneEdit`).  `FewPlaces` needs the second
  zero of an amble that the regular expression then asks for.
* `ReportProofs`: `ReportTypes`, `IntervalsSum`, `ReportColumns`,
  `OneValueExpected`, `HistogramsSum`, `CrashesOnlyWhenEmpty`.  The first three
  are inductive together.  `OneValueExpected` is not: that one differing line is
  never forgotten needs `ExpectedInv`, by which no two values have more expected
  lines together than there are lines.  The histograms are sums over a set: that
  one more line adds one to them is `SumOneMore` of `Lemmas`, an induction over
  subsets.
* `OptionParserProofs`: `AcceptedAreLegal`, `OutputAlwaysOpened`,
  `DefaultsPass`, for command lines of any length.  What is accepted depends on
  options seen long before: `Inv` keeps, of the options parsed so far, which
  flags they set (`FlagsAreSet`), that the sizes passed their checks
  (`SizesPass`), how often an output was named (`OutputIsCounted`), and that
  thresholds no option gave are still the defaults (`ThresholdsAreDefaults`).
  `AcceptedAreLegal` is about every size that is accepted, `-M 0`, `-P 0` and
  `-B 32` among them: that each value has a word of the expected length is
  `WordLength`, and needs that the tables' assertions leave no negative number.
  `DefaultsPass` counts the zeros of a code word, and is about positive sizes.

Constants are assumed to be what the modules' `ASSUME`s say; the runs evaluate
them.  The strongest are those of `Decoder`: a message has at most 30 bits,
because an `int` that counts an array holds the number of its values, and the
longest strings have a distance an `int` can hold.  The type invariants of the
filter, of `levenshtein` and of the report are proved and not also checked.

Induction.  The library's induction theorems take an operator as a parameter,
which none of the provers can instantiate.  `Lemmas` therefore states induction
for a set of numbers (`Induction`, `InductionTo`), from the well-foundedness of
`<`, and shows that recursion along the numbers yields a function (`Recursion`);
the proofs about loops and recursive functions rest on these.

Only model-checked: liveness (`Arrives`, `LastValueSent`), which is out of the
provers' reach.

## Findings

Four, each with its run in `PROJECT.json`:

* a queue of one slot breaks on its second element (`cqueue_one_slot`);
* the histogram counter of the longest length is not initialised
  (`ack_lengths`);
* `-l` ignores `-m` in safe mode (`vote_minimum`);
* the first write to an output file goes through a null `FILE *`
  (`vote_output`).

What else the models show the code to do against what one would expect is listed
with the hazards, and the properties say under which condition they hold: one
bitmap shorter than an A-MPDU, if long enough to be counted, ends `decode -i` at
an assertion of its report; with `-i`, `-C` looks for the preamble and not for
the zeros it was given; `-C` also sets what `-G` and `-D` set, and `-G` what `-D`
sets, which the usage text has as three options; `-C`
of `AMPDU_LEN` or more writes past its string; the percentages of `-w` overflow
after some 335,000 acks; `-B 32` passes its check because 2 to the 32 is 0 in an
`int`; `-U 0` after `-O` leaves an output without a file; `-k` with expected
values in the input reads before an array; `-R` with an empty input divides by
zero; the ties of `-k` need two places per value; and with ambles of two MPDUs
(`-P 2`) a single MPDU lost before a message can be taken for the beginning of
its preamble, so that the match ends in the message and another value is
decoded.

## Plan

Done: all the modules above, and a theorem for every safety property that
holds.  Left: `Tag` with a wait shorter than an A-MPDU, where an A-MPDU
may cover parts of two messages.

## Not modelled

`durations.c` and `mpdusize-variation.c` (doubles); `sensors-new.c` but for the
end of `write_value`, which is reached at the first value; `queue/queue.c`, which
`decode` does not link; vendored `getopt/`; the shell scripts and the binary
without source they call; the page; the demo and the sweep of delays of the tag,
which are switched off; and `detect_with_regex`: `algorithm` is `ALG_LEV` from
the start and no option changes it.
