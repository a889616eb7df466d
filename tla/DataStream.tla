----------------------------- MODULE DataStream -----------------------------
(***************************************************************************)
(* The stream of samples of twr_data_stream.c: a ring of the latest ones   *)
(* with the queries that sensors' applications make of it.  Samples are    *)
(* integers.  (Floats are compared by the integer part of a difference, so *)
(* that what is closer than 1 is not sorted.)                              *)
(***************************************************************************)
EXTENDS Integers, Sequences, FiniteSets, SequencesExt, FiniteSetsExt

CONSTANTS
    Samples,                \* what is fed
    number_of_samples,      \* the samples there is room for
    min_number_of_samples,  \* samples needed for a statistic
    MaxFeeds                \* bound: samples fed between resets

VARIABLES feed, feed_head, counter

streamVars == <<feed, feed_head, counter>>

N == number_of_samples

\* twr_data_stream_init: the buffer is the application's, and static.
StreamInit ==
    /\ feed = [i \in 0 .. N - 1 |-> 0]
    /\ feed_head = N - 1
    /\ counter = 0

\* Mutant: the sample is stored before the head moves on.
MutFeed(x) ==
    /\ counter < MaxFeeds
    /\ feed_head' = IF feed_head + 1 = N THEN 0 ELSE feed_head + 1
    /\ feed' = [feed EXCEPT ![feed_head] = x]
    /\ counter' = counter + 1

\* twr_data_stream_feed
Feed(x) ==
    /\ counter < MaxFeeds
    /\ feed_head' = IF feed_head + 1 = N THEN 0 ELSE feed_head + 1
    /\ feed' = [feed EXCEPT ![feed_head'] = x]
    /\ counter' = counter + 1

\* twr_data_stream_reset, of its own or by a feed of nothing.
Reset ==
    /\ counter' = 0
    /\ feed_head' = N - 1
    /\ UNCHANGED feed

StreamNext == Reset \/ \E x \in Samples : Feed(x)
StreamSpec == StreamInit /\ [][StreamNext]_streamVars

-----------------------------------------------------------------------------
(***************************************************************************)
(* The queries, as they read the ring.                                     *)
(***************************************************************************)
Length == IF counter > N THEN N ELSE counter
Enough == counter >= min_number_of_samples
InUse == [i \in 1 .. Length |-> feed[i - 1]]

\* Division in C rounds toward zero.
Quotient(a, b) == IF a >= 0 THEN a \div b ELSE - (- a \div b)

GetAverage == Quotient(FoldSeq(LAMBDA x, sum : x + sum, 0, InUse), Length)
GetMax == FoldSeq(LAMBDA x, max : IF x > max THEN x ELSE max, feed[0], InUse)
GetMin == FoldSeq(LAMBDA x, min : IF x < min THEN x ELSE min, feed[0], InUse)

GetMedian ==
    LET sort == SortSeq(InUse, LAMBDA a, b : a < b)
    IN IF Length % 2 = 0
       THEN Quotient(sort[(Length - 2) \div 2 + 1] + sort[Length \div 2 + 1], 2)
       ELSE sort[(Length - 1) \div 2 + 1]

GetFirst == feed[IF counter < N THEN 0 ELSE (feed_head + 1) % N]
GetLast == feed[feed_head]

\* twr_data_stream_get_nth from the end, n = -1 for the last sample.
GetNth(n) == feed[((IF counter < N THEN counter ELSE feed_head + 1 + N) + n) % N]
NthAvailable(n) == counter + n >= 0 /\ N + n >= 0

-----------------------------------------------------------------------------
StreamTypeOK ==
    /\ feed \in [0 .. N - 1 -> Samples \cup {0}]
    /\ feed_head \in 0 .. N - 1
    /\ counter \in 0 .. MaxFeeds

\* The ring, oldest sample first.
Window == [k \in 1 .. Length |-> feed[(feed_head + N - Length + k) % N]]

W == INSTANCE SampleWindow WITH window <- Window
\* What the ring holds are the latest samples, whatever was fed and reset.
ImplementsWindow == W!WindowSpec

\* v is the median of an odd, or a or b the middle two of an even number.
Below(v) == Cardinality({k \in DOMAIN Window : Window[k] < v})
UpTo(v) == Cardinality({k \in DOMAIN Window : Window[k] <= v})
Ranked(v, rank) == Below(v) < rank /\ rank <= UpTo(v)

\* The queries for a place see the sample there: of a stream that has wrapped
\* around, that was reset, or that is not full yet.
PlacesAgree ==
    /\ Length > 0 => GetFirst = Head(Window) /\ GetLast = Last(Window)
    /\ \A n \in 1 .. N + 1 :
         /\ NthAvailable(- n) = (n <= Length)
         /\ n <= Length => GetNth(- n) = Window[Length + 1 - n]

\* The statistics are those of the samples of the window.
StatisticsAgree ==
    Enough =>
        /\ GetMax = Max(Range(Window)) /\ GetMin = Min(Range(Window))
        /\ GetMin <= GetAverage /\ GetAverage <= GetMax
        /\ IF Length % 2 = 1 THEN Ranked(GetMedian, (Length + 1) \div 2)
           ELSE \E a, b \in Range(Window) :
                  /\ Ranked(a, Length \div 2) /\ Ranked(b, Length \div 2 + 1)
                  /\ GetMedian = Quotient(a + b, 2)

QueriesAgree == PlacesAgree /\ StatisticsAgree

\* To its callers a stream is the window of the latest samples.
StreamIsWindow == ImplementsWindow /\ []QueriesAgree

=============================================================================
