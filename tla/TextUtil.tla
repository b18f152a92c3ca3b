------------------------------ MODULE TextUtil ------------------------------
(***************************************************************************)
(* The conversions of StringUtil that decide what a list shows: the time   *)
(* in an id, how long ago that was, and the start of a long text.          *)
(*                                                                         *)
(* A text is the sequence of the places at which its words end, with one   *)
(* space between two words and none after the last.                        *)
(***************************************************************************)
EXTENDS Integers, Sequences

\* getTimeStamp writes the hour as "hh", 01..12 without am or pm, and
\* extractDateFromDocumentId reads 12 as 0.  An hour is counted from the first
\* day on.
ReadBack(hour) == 24 * (hour \div 24) + (hour % 12)

\* The hour as it is written in the id, which orders ids of one day
Written(hour) == IF hour % 12 = 0 THEN 12 ELSE hour % 12

-----------------------------------------------------------------------------

\* calculateTimeDiff: a month is four weeks and a year twelve such months.
\* Counted in seconds; the code counts milliseconds.
Minute == 60
Hour   == 60 * Minute
Day    == 24 * Hour
Week   == 7 * Day
Month  == 4 * Week
Year   == 12 * Month

CeilDiv(a, b) == (a + b - 1) \div b

In(unit, name, past) == [value |-> CeilDiv(past, unit), unit |-> name]

\* Each case leaves its own unit out.
TimeDiff(past) ==
    IF past < Minute THEN [value |-> 0, unit |-> "just now"]
    ELSE IF Minute < past /\ past < Hour THEN In(Minute, "min", past)
    ELSE IF Hour < past /\ past < Day    THEN In(Hour, "h", past)
    ELSE IF Day < past /\ past < Week    THEN In(Day, "d", past)
    ELSE IF Week < past /\ past < Month  THEN In(Week, "w", past)
    ELSE IF Month < past /\ past < Year  THEN In(Month, "mo", past)
    ELSE IF Year < past                  THEN In(Year, "y", past)
    ELSE [value |-> 0, unit |-> ""]

-----------------------------------------------------------------------------

IsText(ends) ==
    /\ ends \in Seq(Nat) /\ Len(ends) > 0
    /\ \A j, k \in DOMAIN ends : j < k => ends[j] < ends[k]

TextLength(ends) == ends[Len(ends)]

\* The length of the first k words, each with the space after it
Taken(ends, k) == IF k = 0 THEN 0 ELSE ends[k] + 1

\* summarize leaves its loop after k words: no room, or the next is too long.
Stops(ends, limit, k) ==
    \/ Taken(ends, k) >= limit - 3
    \/ k < Len(ends) /\ ends[k + 1] > limit - 3

\* The loop has no other end: it reads past the last word.
SummarizeThrows(ends, limit) ==
    \A k \in 0..Len(ends) : ~Stops(ends, limit, k)

\* Post.getDescSummary: only a text of more than 50 letters is cut.
SummaryThrows(ends) == TextLength(ends) > 50 /\ SummarizeThrows(ends, 60)

\* News.getDescSummary
NewsSummaryThrows(ends) ==
    TextLength(ends) > 50 /\ SummarizeThrows(ends, 55)
=============================================================================
