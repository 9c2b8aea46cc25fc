SPECIFICATION ASpec
CONSTANTS
    s1 = s1
    s2 = s2
    t1 = t1
    p1 = p1
    p2 = p2
    Spans <- MCSpans
    NoSpan = NoSpan
    Terms <- MCTerms
    Spellings <- MCSpellings
    MaxSteps = 3
    MaxToolCalls = 3
    MaxToolErrors = 1
    MaxRepeats = 1
    MaxInputTokens = 5
    MaxOutputTokens = 2
    PerCallOutputCap = 2
    MaxSpanChars = 2
    SpanChars <- MCSpanChars
    Prompt = 1
    Growth <- MCGrowth
    Overshoot = 1
    MaxBatch = 2
INVARIANTS
    CitedWasOpened
    SpendBounded
    AskedOnce
    ReadWithinBudget
PROPERTY
    ImplementsSpender
CHECK_DEADLOCK FALSE
