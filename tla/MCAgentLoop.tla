---------------------------- MODULE MCAgentLoop ----------------------------
(* One loop over two spans, the second longer than the character budget,    *)
(* and questions that may each be put as two JSON values.                   *)
EXTENDS AgentLoop
CONSTANTS s1, s2, t1, p1, p2
MCSpans == {s1, s2}
MCSpanChars == [s \in MCSpans |-> IF s = s1 THEN 1 ELSE 3]
MCGrowth == {1}
MCSpellings == {p1, p2}
MCTerms == {t1}
=============================================================================
