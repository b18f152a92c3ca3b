------------------------------ MODULE MCReader ------------------------------
EXTENDS Reader, TLC

CONSTANTS p1, p2, me, other

\* 56 letters, and 51, which are too few for their own summary
Texts == (p1 :> <<27, 56>>) @@ (p2 :> <<20, 51>>)

\* Before noon, noon, one and two o'clock: the ids are read back as 11, 0, 1
\* and 2, and sorted as text they stand as 01, 02, 11, 12.
Hours == <<11, 12, 13, 14>>

\* Of all texts of two words, exactly those of 51 to 55 letters throw in the
\* forum, and none does in the news.
ASSUME SummaryCheck ==
    \A v, w \in 0..62 :
        LET ends == <<v, v + 1 + w>> IN
        /\ SummaryThrows(ends) <=> TextLength(ends) \in 51..55
        /\ ~NewsSummaryThrows(ends)
=============================================================================
