------------------------------- MODULE MCBoot -------------------------------
(* Three processes of two releases, and settings wrong in one way each.        *)
EXTENDS Boot

Good ==
    [mode |-> "vector", rrfK |-> 60, candidates |-> 40, floor |-> -1, maxSpans |-> 1,
     maxChars |-> 1, answer |-> "extractive", llm |-> "none", concurrent |-> 2,
     tokensPerHour |-> 1, embedder |-> "ollama", dim |-> "the schema's",
     limits |-> [k \in 1 .. 8 |-> 1], strategy |-> "ast", lines |-> 40, overlap |-> 10,
     maxDecl |-> 200]

MCSettings ==
    {Good, [Good EXCEPT !.embedder = "fake"], [Good EXCEPT !.dim = "other"],
     [Good EXCEPT !.rrfK = -1], [Good EXCEPT !.answer = "llm"],
     [Good EXCEPT !.llm = "anthropic", !.tokensPerHour = 0], [Good EXCEPT !.maxSpans = 0],
     [Good EXCEPT !.limits[6] = 0], [Good EXCEPT !.overlap = 40]}

MCRelease == [p \in Processes |-> IF p = "i1" THEN 1 ELSE 2]
=============================================================================
