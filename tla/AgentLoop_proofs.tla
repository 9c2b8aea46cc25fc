-------------------------- MODULE AgentLoop_proofs --------------------------
(* Theorems about one run of the answering loop, for all of its bounds.     *)
EXTENDS AgentLoop, TLAPS

-----------------------------------------------------------------------------
(* The inductive invariant: types, and what each property rests on.         *)

(* A call in flight is within the ceilings its turn was let in under.       *)
LetIn == stage = "calling" => /\ steps < MaxSteps
                              /\ usedIn + size <= MaxInputTokens
                              /\ usedOut < MaxOutputTokens

Correctable == stage # "stopped" => errs <= MaxToolErrors

(* What reached the database has been counted as made, once.                *)
Counted(c) == /\ served[Question(c)] <= 1
              /\ served[Question(c)] > 0 => seen[RepeatKey(c)] > 0
ReadTwice == \A i, k \in DOMAIN read : i # k /\ read[i] = read[k]
               => \E p1, p2 \in ReadAs(read[i]) : p1 # p2
AskedInv == /\ served \in [Questions -> Nat]
            /\ \A c \in ToolCall : Counted(c)
            /\ ReadTwice

OpenedServed == \A p \in DOMAIN read : ReadAs(read[p]) # {}

Uncited == stage # "stopped" => cited = {}

CallInv  == ATypeOK /\ LetIn /\ Correctable /\ SpendBounded
ReadInv  == /\ served \in [Questions -> Nat] /\ OpenedServed /\ Uncited
            /\ CitedWasOpened /\ ReadWithinBudget

LEMMA Ceilings ==
  /\ MaxSteps \in Nat /\ MaxToolCalls \in Nat /\ MaxToolErrors \in Nat
  /\ MaxRepeats \in Nat /\ MaxBatch \in Nat /\ PerCallOutputCap \in Nat
  /\ MaxInputTokens \in Nat /\ MaxOutputTokens \in Nat /\ Overshoot \in Nat
  /\ MaxSpanChars \in Nat /\ Prompt \in Nat /\ Growth \subseteq Nat
  /\ SpanChars \in [Spans -> Nat]
  BY LoopAssumption DEF LoopAssumption

(* One call has one key, and its key is a call.                             *)
LEMMA KeyIsCall == ASSUME NEW c \in ToolCall PROVE RepeatKey(c) \in ToolCall
  BY DEF ToolCall, RepeatKey

LEMMA QuestionIsAsked == ASSUME NEW c \in ToolCall PROVE Question(c) \in Questions
  BY DEF Questions

LEMMA ReadQuestion ==
  ASSUME NEW s \in Spans, NEW p \in Spellings PROVE <<"read_span", s, p>> \in Questions
<1> DEFINE c == [tool |-> "read_span", asks |-> s, spelling |-> p, written |-> "compact"]
<1>1. c \in ToolCall BY DEF ToolCall
<1>2. Question(c) = <<"read_span", s, p>> BY DEF Question
<1> QED BY <1>1, <1>2 DEF Questions

-----------------------------------------------------------------------------
(* Types and ceilings, over all turns.                                      *)
LEMMA CallInit == AInit => CallInv
<1> SUFFICES ASSUME AInit PROVE CallInv
  OBVIOUS
<1>1. seen \in [ToolCall -> Nat] BY DEF AInit
<1>2. chars \in Nat /\ read \in Seq(Spans) BY DEF AInit
<1>3. /\ steps \in 0 .. MaxSteps /\ toolCalls \in 0 .. MaxToolCalls
      /\ todo \in 0 .. MaxBatch /\ errs \in 0 .. MaxToolErrors + 1
      /\ size \in Nat /\ usedIn \in Nat /\ usedOut \in Nat
  BY Ceilings DEF AInit
<1>4. ATypeOK BY <1>1, <1>2, <1>3 DEF AInit, ATypeOK
<1>5. LetIn /\ Correctable /\ SpendBounded
  BY Ceilings DEF AInit, LetIn, Correctable, SpendBounded
<1> QED BY <1>4, <1>5 DEF CallInv

LEMMA CallStep == CallInv /\ [ANext]_vars => CallInv'
<1> SUFFICES ASSUME CallInv, [ANext]_vars PROVE CallInv'
  OBVIOUS
<1> USE Ceilings DEF CallInv, ATypeOK, LetIn, Correctable, SpendBounded, trace, tools
<1>1. CASE Head0
  BY <1>1 DEF Head0, HeadStop, Finish, Stops, OverInput, OverOutput
<1>2. CASE ProviderFails
  BY <1>2 DEF ProviderFails, Finish, Stops
<1>3. ASSUME stage = "calling", Charge
      PROVE  /\ steps' \in 0 .. MaxSteps
             /\ usedIn' \in Nat /\ usedIn' <= MaxInputTokens + Overshoot
             /\ usedOut' \in Nat /\ usedOut' <= MaxOutputTokens + Overshoot
  BY <1>3 DEF Charge, MaxTokens
<1>4. CASE Truncated
  BY <1>3, <1>4 DEF Truncated, Finish, Stops
<1>5. CASE FinalText
  <2>1. cited' \subseteq Nat
    <3>1. PICK markers \in SUBSET (0 .. Len(read) + 1) :
            cited' = Resolve(markers, Len(read))
      BY <1>5 DEF FinalText
    <3>2. Len(read) \in Nat BY DEF ATypeOK
    <3>3. ASSUME NEW m \in cited' PROVE m \in Nat
      <4>1. m \in markers BY <3>1, <3>3 DEF Resolve
      <4> QED BY <4>1, <3>2
    <3> QED BY <3>3
  <2> QED BY <1>3, <1>5, <2>1 DEF FinalText, Finish, Stops
<1>6. CASE AsksForTools
  BY <1>3, <1>6 DEF AsksForTools, Finish, Stops
<1>7. CASE TurnEnds
  BY <1>7 DEF TurnEnds, Finish, Stops
<1>8. CASE TooManyCalls
  BY <1>8 DEF TooManyCalls, Finish, Stops
<1>9. ASSUME NEW c \in ToolCall, Dispatch(c)
      PROVE  /\ toolCalls' \in 0 .. MaxToolCalls /\ todo' \in 0 .. MaxBatch
             /\ seen' \in [ToolCall -> Nat]
             /\ stage = "tools" /\ stop = "running"
  BY <1>9, KeyIsCall DEF Dispatch
<1>10. ASSUME NEW c \in ToolCall, RepeatedCall(c) PROVE CallInv'
  <2>1. Dispatch(c) BY <1>10 DEF RepeatedCall
  <2>2. errs' \in 0 .. MaxToolErrors + 1 /\ (stage' # "stopped" => errs' <= MaxToolErrors)
    BY <1>9, <1>10, <2>1 DEF RepeatedCall, Correct, Finish
  <2>3. \/ stage' = "stopped" /\ stop' = "repeated_tool_call"
        \/ stage' = stage /\ stop' = stop
    BY <1>10 DEF RepeatedCall, Correct, Finish
  <2> QED BY <1>9, <1>10, <2>1, <2>2, <2>3 DEF RepeatedCall, Stops, Dispatch
<1>11. ASSUME NEW c \in ToolCall, MalformedCall(c) PROVE CallInv'
  <2>1. Dispatch(c) BY <1>11 DEF MalformedCall
  <2>2. errs' \in 0 .. MaxToolErrors + 1 /\ (stage' # "stopped" => errs' <= MaxToolErrors)
    BY <1>9, <1>11, <2>1 DEF MalformedCall, Correct, Finish
  <2>3. \/ stage' = "stopped" /\ stop' = "malformed_tool_call"
        \/ stage' = stage /\ stop' = stop
    BY <1>11 DEF MalformedCall, Correct, Finish
  <2> QED BY <1>9, <1>11, <2>1, <2>2, <2>3 DEF MalformedCall, Stops, Dispatch
<1>12. ASSUME NEW c \in ToolCall, ReadSpan(c) PROVE CallInv'
  <2>1. Dispatch(c) BY <1>12 DEF ReadSpan
  <2>2. chars' \in Nat /\ read' \in Seq(Spans)
    BY <1>12 DEF ReadSpan, Opens
  <2> QED BY <1>9, <1>12, <2>1, <2>2 DEF ReadSpan, Dispatch
<1>13. ASSUME NEW c \in ToolCall, NothingRead(c) PROVE CallInv'
  <2>1. Dispatch(c) BY <1>13 DEF NothingRead
  <2> QED BY <1>9, <1>13, <2>1 DEF NothingRead, Dispatch
<1>14. ASSUME NEW c \in ToolCall, ToolFails(c) PROVE CallInv'
  <2>1. Dispatch(c) BY <1>14 DEF ToolFails
  <2> QED BY <1>9, <1>14, <2>1 DEF ToolFails, Finish, Stops, Dispatch
<1>15. CASE Expire
  BY <1>15 DEF Expire
<1>16. CASE UNCHANGED vars
  BY <1>16 DEF vars
<1> QED
  BY <1>1, <1>2, <1>4, <1>5, <1>6, <1>7, <1>8, <1>10, <1>11, <1>12, <1>13, <1>14,
     <1>15, <1>16 DEF ANext, Turn, Tool

(* No sequence of turns, batches, mistakes and failures passes a ceiling,   *)
(* and no reply costs the loop more than its budgets and one overshoot.     *)
THEOREM LoopBounded == ASpec => [](ATypeOK /\ SpendBounded)
<1>1. CallInv => ATypeOK /\ SpendBounded BY DEF CallInv
<1> QED BY CallInit, CallStep, <1>1, PTL DEF ASpec

-----------------------------------------------------------------------------
(* Citations, and the spans they name.                                      *)
LEMMA ServedGrows ==
  ASSUME NEW c \in ToolCall, served \in [Questions -> Nat], Served(c)
  PROVE  /\ served' \in [Questions -> Nat]
         /\ served'[Question(c)] = served[Question(c)] + 1
         /\ \A q \in Questions : q # Question(c) => served'[q] = served[q]
<1>1. Question(c) \in Questions BY QuestionIsAsked
<1> QED BY <1>1 DEF Served

NextAs(s) == {p \in Spellings : served'[<<"read_span", s, p>>] > 0}   \* ReadAs'

LEMMA JustAsked ==
  ASSUME NEW c \in ToolCall, c.tool = "read_span", c.asks \in Spans,
         served \in [Questions -> Nat], served'[Question(c)] = served[Question(c)] + 1
  PROVE  c.spelling \in NextAs(c.asks)
<1>1. c.spelling \in Spellings BY DEF ToolCall
<1>2. <<"read_span", c.asks, c.spelling>> = Question(c) BY DEF Question
<1>3. served[Question(c)] \in Nat BY QuestionIsAsked
<1>4. served'[<<"read_span", c.asks, c.spelling>>] > 0 BY <1>2, <1>3
<1> QED BY <1>1, <1>4 DEF NextAs

(* A spelling in which a span has been asked for stays one.                 *)
LEMMA ReadAsGrows ==
  ASSUME NEW s \in Spans, served \in [Questions -> Nat], served' \in [Questions -> Nat],
         \A q \in Questions : served'[q] >= served[q]
  PROVE  ReadAs(s) \subseteq NextAs(s)
<1>1. ASSUME NEW p \in ReadAs(s) PROVE p \in NextAs(s)
  <2>1. p \in Spellings /\ served[<<"read_span", s, p>>] > 0 BY DEF ReadAs
  <2>2. <<"read_span", s, p>> \in Questions BY <2>1, ReadQuestion
  <2>3. served'[<<"read_span", s, p>>] > 0 BY <2>1, <2>2
  <2> QED BY <2>1, <2>3 DEF NextAs
<1> QED BY <1>1

LEMMA ReadInit == AInit => ReadInv
<1> SUFFICES ASSUME AInit PROVE ReadInv
  OBVIOUS
<1>1. served \in [Questions -> Nat] BY DEF AInit
<1>2. chars = 0 /\ read = <<>> /\ cited = {} /\ stop = "running" BY DEF AInit
<1> QED BY <1>1, <1>2, Ceilings
        DEF ReadInv, OpenedServed, Uncited, CitedWasOpened, ReadWithinBudget

LEMMA ReadStep == CallInv /\ ReadInv /\ [ANext]_vars => ReadInv'
<1> SUFFICES ASSUME CallInv, ReadInv, [ANext]_vars PROVE ReadInv'
  OBVIOUS
<1> USE DEF trace, tools
<1>1. ASSUME UNCHANGED <<served, read, chars, cited>>,
             stage # "stopped" \/ UNCHANGED stage,
             stop' # "final" \/ UNCHANGED stop
      PROVE  ReadInv'
  BY <1>1 DEF ReadInv, OpenedServed, Uncited, CitedWasOpened, ReadWithinBudget, ReadAs
<1>2. ASSUME served \in [Questions -> Nat], served' \in [Questions -> Nat],
             \A q \in Questions : served'[q] >= served[q],
             UNCHANGED <<read, chars, cited>>,
             stage # "stopped", stop' # "final"
      PROVE  ReadInv'
  <2>1. ASSUME NEW p \in DOMAIN read PROVE NextAs(read[p]) # {}
    <3>1. read[p] \in Spans BY DEF CallInv, ATypeOK
    <3>2. ReadAs(read[p]) \subseteq NextAs(read[p]) BY <1>2, <3>1, ReadAsGrows
    <3>3. ReadAs(read[p]) # {} BY DEF ReadInv, OpenedServed
    <3> QED BY <3>2, <3>3
  <2>2. cited = {} BY <1>2 DEF ReadInv, Uncited
  <2> QED BY <1>2, <2>1, <2>2
          DEF ReadInv, OpenedServed, Uncited, CitedWasOpened, ReadWithinBudget, ReadAs, NextAs
<1>3. CASE Head0
  BY <1>1, <1>3 DEF Head0, HeadStop, Finish
<1>4. CASE ProviderFails
  BY <1>1, <1>4 DEF ProviderFails, Finish
<1>5. CASE Truncated
  BY <1>1, <1>5 DEF Truncated, Finish
<1>6. CASE FinalText
  <2>1. UNCHANGED <<served, read, chars>> /\ stage' = "stopped"
    BY <1>6 DEF FinalText, Finish
  <2>2. PICK markers \in SUBSET (0 .. Len(read) + 1) :
          /\ cited' = Resolve(markers, Len(read))
          /\ stop' = IF cited' = {} THEN "uncited" ELSE "final"
    BY <1>6 DEF FinalText, Finish
  <2>3. read \in Seq(Spans) /\ Len(read) \in Nat BY DEF CallInv, ATypeOK
  <2>4. ASSUME NEW p \in cited' PROVE p \in DOMAIN read
    <3>1. p \in markers /\ p >= 1 /\ p <= Len(read) BY <2>2, <2>4 DEF Resolve
    <3>2. p \in Nat BY <3>1, <2>3
    <3> QED BY <3>1, <3>2, <2>3
  <2> QED BY <2>1, <2>2, <2>4
          DEF ReadInv, OpenedServed, Uncited, CitedWasOpened, ReadWithinBudget, ReadAs
<1>7. CASE AsksForTools
  BY <1>1, <1>7 DEF AsksForTools
<1>8. CASE TurnEnds
  BY <1>1, <1>8 DEF TurnEnds
<1>9. CASE TooManyCalls
  BY <1>1, <1>9 DEF TooManyCalls, Finish
<1>10. ASSUME NEW c \in ToolCall, RepeatedCall(c) PROVE ReadInv'
  <2>1. stop' = "repeated_tool_call" \/ UNCHANGED stop
    BY <1>10 DEF RepeatedCall, Correct, Finish
  <2> QED BY <1>1, <1>10, <2>1 DEF RepeatedCall, Dispatch
<1>11. ASSUME NEW c \in ToolCall, MalformedCall(c) PROVE ReadInv'
  <2>1. stop' = "malformed_tool_call" \/ UNCHANGED stop
    BY <1>11 DEF MalformedCall, Correct, Finish
  <2> QED BY <1>1, <1>11, <2>1 DEF MalformedCall, Dispatch
<1>12. ASSUME NEW c \in ToolCall, Served(c)
       PROVE  served' \in [Questions -> Nat] /\ \A q \in Questions : served'[q] >= served[q]
  <2>1. served \in [Questions -> Nat] BY DEF ReadInv
  <2> QED BY <1>12, <2>1, ServedGrows
<1>13. ASSUME NEW c \in ToolCall, ReadSpan(c) PROVE ReadInv'
  <2>1. /\ served' \in [Questions -> Nat] /\ \A q \in Questions : served'[q] >= served[q]
        /\ served'[Question(c)] = served[Question(c)] + 1
    BY <1>12, <1>13, ServedGrows DEF ReadSpan, ReadInv
  <2>2. /\ c.tool = "read_span" /\ c.asks \in Spans /\ Affordable(c.asks)
        /\ read' = Append(read, c.asks) /\ chars' = chars + SpanChars[c.asks]
        /\ UNCHANGED <<stop, cited, stage>> /\ stage = "tools"
    BY <1>13 DEF ReadSpan, Opens, Dispatch
  <2>3. read \in Seq(Spans) /\ chars \in Nat /\ stop = "running" /\ cited = {}
    BY <2>2 DEF CallInv, ATypeOK, ReadInv, Uncited
  <2>4. ASSUME NEW p \in DOMAIN read' PROVE NextAs(read'[p]) # {}
    <3>1. CASE p = Len(read) + 1
      <4>1. read'[p] = c.asks BY <2>2, <2>3, <3>1
      <4> QED BY <4>1, <2>1, <2>2, JustAsked DEF ReadInv
    <3>2. CASE p # Len(read) + 1
      <4>1. p \in DOMAIN read /\ read'[p] = read[p] BY <2>2, <2>3, <3>2
      <4>2. read[p] \in Spans BY <4>1, <2>3
      <4>3. ReadAs(read[p]) # {} BY <4>1 DEF ReadInv, OpenedServed
      <4>4. \A s \in Spans : ReadAs(s) \subseteq NextAs(s) BY <2>1, ReadAsGrows DEF ReadInv
      <4> QED BY <4>1, <4>2, <4>3, <4>4
    <3> QED BY <3>1, <3>2
  <2>5. ReadWithinBudget'
    BY <2>2, <2>3, Ceilings DEF ReadWithinBudget, Affordable
  <2> QED BY <2>1, <2>2, <2>3, <2>4, <2>5
          DEF ReadInv, OpenedServed, Uncited, CitedWasOpened, ReadAs, NextAs
<1>14. ASSUME NEW c \in ToolCall, NothingRead(c) PROVE ReadInv'
  <2>1. stage = "tools" /\ UNCHANGED <<read, chars, cited, stop>> /\ Served(c)
    BY <1>14 DEF NothingRead, Dispatch
  <2>2. stop = "running" BY <2>1 DEF CallInv, ATypeOK
  <2>3. served \in [Questions -> Nat] BY DEF ReadInv
  <2> QED BY <1>2, <1>12, <2>1, <2>2, <2>3
<1>15. ASSUME NEW c \in ToolCall, ToolFails(c) PROVE ReadInv'
  <2>1. stage = "tools" /\ UNCHANGED <<read, chars, cited>> /\ Served(c)
    BY <1>15 DEF ToolFails, Dispatch
  <2>2. stop' = "tool_error" BY <1>15 DEF ToolFails, Finish
  <2>3. served \in [Questions -> Nat] BY DEF ReadInv
  <2> QED BY <1>2, <1>12, <2>1, <2>2, <2>3
<1>16. CASE Expire
  BY <1>1, <1>16 DEF Expire
<1>17. CASE UNCHANGED vars
  BY <1>1, <1>17 DEF vars
<1> QED
  BY <1>3, <1>4, <1>5, <1>6, <1>7, <1>8, <1>9, <1>10, <1>11, <1>13, <1>14, <1>15,
     <1>16, <1>17 DEF ANext, Turn, Tool

(* A served answer cites, and every citation is of a span this loop opened. *)
THEOREM Citations == ASpec => []CitedWasOpened
<1>1. ReadInv => CitedWasOpened BY DEF ReadInv
<1> QED BY CallInit, CallStep, ReadInit, ReadStep, <1>1, PTL DEF ASpec

(* Only a first span can take the loop past its character budget: whatever  *)
(* the order of reads, refusals and failures, a later one never does.       *)
THEOREM OpensWithinBudget == ASpec => []ReadWithinBudget
<1>1. ReadInv => ReadWithinBudget BY DEF ReadInv
<1> QED BY CallInit, CallStep, ReadInit, ReadStep, <1>1, PTL DEF ASpec

-----------------------------------------------------------------------------
(* The repeat guard: one key for every way of writing down one JSON value.  *)
LEMMA OneKey ==
  ASSUME NEW c \in ToolCall, NEW d \in ToolCall, Question(c) = Question(d)
  PROVE  RepeatKey(c) = RepeatKey(d)
<1>1. c.tool = d.tool /\ c.asks = d.asks /\ c.spelling = d.spelling BY DEF Question
<1>2. ASSUME NEW e \in ToolCall
      PROVE  RepeatKey(e) = [tool |-> e.tool, asks |-> e.asks,
                             spelling |-> e.spelling, written |-> "compact"]
  BY DEF ToolCall, RepeatKey
<1> QED BY <1>1, <1>2

LEMMA DispatchCounts ==
  ASSUME NEW c \in ToolCall, seen \in [ToolCall -> Nat], Dispatch(c)
  PROVE  /\ \A k \in ToolCall : seen[k] > 0 => seen'[k] > 0
         /\ seen'[RepeatKey(c)] > 0
  BY KeyIsCall DEF Dispatch

LEMMA AskedInit == AInit => AskedInv
<1> SUFFICES ASSUME AInit PROVE AskedInv
  OBVIOUS
<1>1. served = [q \in Questions |-> 0] /\ read = <<>> BY DEF AInit
<1>2. ASSUME NEW c \in ToolCall PROVE served[Question(c)] = 0 BY <1>1, QuestionIsAsked
<1> QED BY <1>1, <1>2 DEF AskedInv, Counted, ReadTwice

LEMMA AskedStep ==
  ASSUME CallInv, ReadInv, AskedInv, [ANext]_vars
  PROVE  AskedInv'
<1> USE DEF trace, tools
<1>1. seen \in [ToolCall -> Nat] /\ served \in [Questions -> Nat]
  BY DEF CallInv, ATypeOK, AskedInv
<1>2. ASSUME UNCHANGED <<served, read>>, \A k \in ToolCall : seen[k] > 0 => seen'[k] > 0
      PROVE  AskedInv'
  <2>1. ASSUME NEW c \in ToolCall PROVE Counted(c)'
    <3>1. Counted(c) BY DEF AskedInv
    <3>2. seen[RepeatKey(c)] > 0 => seen'[RepeatKey(c)] > 0 BY <1>2, KeyIsCall
    <3>3. served'[Question(c)] = served[Question(c)] BY <1>2
    <3> QED BY <3>1, <3>2, <3>3 DEF Counted
  <2> QED BY <1>1, <1>2, <2>1 DEF AskedInv, ReadTwice, ReadAs
<1>3. ASSUME UNCHANGED <<served, seen, read>> PROVE AskedInv'
  BY <1>3 DEF AskedInv, Counted, ReadTwice, ReadAs
<1>4. ASSUME NEW c \in ToolCall, Dispatch(c), Repeat(c) = 0, Served(c)
      PROVE  /\ served[Question(c)] = 0
             /\ served' \in [Questions -> Nat] /\ served'[Question(c)] = 1
             /\ \A q \in Questions : served'[q] >= served[q]
             /\ \A d \in ToolCall : Counted(d)'
  <2>1. Question(c) \in Questions /\ RepeatKey(c) \in ToolCall
    BY QuestionIsAsked, KeyIsCall
  <2>2. served[Question(c)] = 0
    <3>1. Counted(c) BY DEF AskedInv
    <3>2. ~(served[Question(c)] > 0) BY <1>4, <3>1 DEF Counted, Repeat
    <3> QED BY <1>1, <2>1, <3>2
  <2>3. /\ served' \in [Questions -> Nat] /\ served'[Question(c)] = 1
        /\ \A q \in Questions : q # Question(c) => served'[q] = served[q]
    BY <1>1, <1>4, <2>2, ServedGrows
  <2>4. ASSUME NEW d \in ToolCall PROVE Counted(d)'
    <3>1. CASE Question(d) = Question(c)
      <4>1. seen'[RepeatKey(d)] > 0 BY <1>1, <1>4, <3>1, OneKey, DispatchCounts
      <4> QED BY <2>3, <3>1, <4>1 DEF Counted
    <3>2. CASE Question(d) # Question(c)
      <4>1. Counted(d) BY DEF AskedInv
      <4>2. served'[Question(d)] = served[Question(d)] BY <2>3, <3>2, QuestionIsAsked
      <4>3. seen[RepeatKey(d)] > 0 => seen'[RepeatKey(d)] > 0
        BY <1>1, <1>4, DispatchCounts, KeyIsCall
      <4> QED BY <4>1, <4>2, <4>3 DEF Counted
    <3> QED BY <3>1, <3>2
  <2> QED BY <1>1, <2>2, <2>3, <2>4
<1>5. CASE Turn \/ TooManyCalls \/ Expire \/ UNCHANGED vars
  BY <1>3, <1>5 DEF Turn, Head0, ProviderFails, Truncated, FinalText, AsksForTools,
     TurnEnds, TooManyCalls, Expire, vars
<1>6. ASSUME NEW c \in ToolCall, RepeatedCall(c) \/ MalformedCall(c) PROVE AskedInv'
  BY <1>1, <1>2, <1>6, DispatchCounts DEF RepeatedCall, MalformedCall
<1>7. \A i \in DOMAIN read : read[i] \in Spans
  BY DEF CallInv, ATypeOK
<1>8. ASSUME NEW c \in ToolCall, NothingRead(c) \/ ToolFails(c) PROVE AskedInv'
  <2>1. Dispatch(c) /\ Repeat(c) = 0 /\ Served(c) /\ UNCHANGED read
    BY <1>8 DEF NothingRead, ToolFails
  <2>2. \A s \in Spans : ReadAs(s) \subseteq NextAs(s) BY <1>1, <1>4, <2>1, ReadAsGrows
  <2>3. ReadTwice'
    <3> SUFFICES ASSUME NEW i \in DOMAIN read, NEW k \in DOMAIN read,
                        i # k, read[i] = read[k]
                 PROVE  \E p1, p2 \in NextAs(read[i]) : p1 # p2
      BY <2>1 DEF ReadTwice, ReadAs, NextAs
    <3>1. PICK p1, p2 \in ReadAs(read[i]) : p1 # p2 BY DEF AskedInv, ReadTwice
    <3>2. read[i] \in Spans BY <1>7
    <3> QED BY <2>2, <3>1, <3>2
  <2> QED BY <1>4, <2>1, <2>3 DEF AskedInv
<1>9. ASSUME NEW c \in ToolCall, ReadSpan(c) PROVE AskedInv'
  <2>1. /\ Dispatch(c) /\ Repeat(c) = 0 /\ Served(c) /\ c.tool = "read_span"
        /\ c.asks \in Spans /\ read' = Append(read, c.asks)
    BY <1>9 DEF ReadSpan, Opens
  <2>2. \A s \in Spans : ReadAs(s) \subseteq NextAs(s) BY <1>1, <1>4, <2>1, ReadAsGrows
  <2>3. c.spelling \in NextAs(c.asks) BY <1>1, <1>4, <2>1, JustAsked
  <2>4. c.spelling \notin ReadAs(c.asks)
    <3>1. Question(c) = <<"read_span", c.asks, c.spelling>> BY <2>1 DEF Question
    <3>2. served[Question(c)] = 0 BY <1>4, <2>1
    <3> QED BY <3>1, <3>2 DEF ReadAs
  (* An earlier position has a spelling the new one has not.                *)
  <2>5. ASSUME NEW i \in DOMAIN read, read[i] = c.asks
        PROVE  \E p1, p2 \in NextAs(c.asks) : p1 # p2
    <3>1. PICK p1 \in ReadAs(c.asks) : TRUE BY <2>5 DEF ReadInv, OpenedServed
    <3> QED BY <2>1, <2>2, <2>3, <2>4, <3>1
  <2>6. read \in Seq(Spans) BY DEF CallInv, ATypeOK
  <2>7. ReadTwice'
    <3> SUFFICES ASSUME NEW i \in DOMAIN read', NEW k \in DOMAIN read',
                        i # k, read'[i] = read'[k]
                 PROVE  \E p1, p2 \in NextAs(read'[i]) : p1 # p2
      BY DEF ReadTwice, ReadAs, NextAs
    <3>1. \A m \in DOMAIN read' : \/ m = Len(read) + 1 /\ read'[m] = c.asks
                                  \/ m \in DOMAIN read /\ read'[m] = read[m]
      BY <2>1, <2>6
    <3>2. CASE i \in DOMAIN read /\ k \in DOMAIN read
      <4>1. read'[i] = read[i] /\ read'[k] = read[k] BY <2>1, <2>6, <3>2
      <4>2. PICK p1, p2 \in ReadAs(read[i]) : p1 # p2
        BY <3>2, <4>1 DEF AskedInv, ReadTwice
      <4>3. read[i] \in Spans BY <1>7, <3>2
      <4> QED BY <2>2, <4>1, <4>2, <4>3
    <3>3. CASE ~(i \in DOMAIN read /\ k \in DOMAIN read)
      <4>1. read'[i] = c.asks /\ \E m \in DOMAIN read : read[m] = c.asks BY <3>1, <3>3
      <4> QED BY <2>5, <4>1
    <3> QED BY <3>2, <3>3
  <2> QED BY <1>4, <2>1, <2>7 DEF AskedInv
<1> QED BY <1>5, <1>6, <1>8, <1>9 DEF ANext, Tool

(* Whatever the model writes, a question put as one JSON value reaches the  *)
(* database once, and a span is read twice only for a second value of it.   *)
THEOREM RepeatGuard == ASpec => []AskedOnce
<1>1. AskedInv => AskedOnce
  <2> SUFFICES ASSUME AskedInv PROVE \A q \in DOMAIN served : served[q] <= 1
    BY DEF AskedOnce, AskedInv, ReadTwice
  <2>1. ASSUME NEW q \in DOMAIN served PROVE served[q] <= 1
    <3>1. PICK c \in ToolCall : q = Question(c) BY DEF AskedInv, Questions
    <3> QED BY <3>1 DEF AskedInv, Counted
  <2> QED BY <2>1
<1>2. CallInv /\ ReadInv /\ AskedInv /\ [ANext]_vars => AskedInv'
  BY AskedStep
<1> QED BY CallInit, CallStep, ReadInit, ReadStep, AskedInit, <1>1, <1>2, PTL DEF ASpec

-----------------------------------------------------------------------------
LEMMA AddBounds ==
  ASSUME NEW a \in Nat, NEW b \in Nat, NEW c \in Nat, NEW d \in Nat, NEW o \in Nat,
         NEW x \in Nat, NEW y \in Nat,
         x >= a, y >= b, x <= c + o, y <= d + o
  PROVE  x + y \in (a + b) .. (c + d + 2 * o)
  OBVIOUS

(* The hourly budget's view of a loop (its return is left to TLC).          *)
THEOREM LoopSpends ==
  ASpec => Loop!SInit /\ [][Loop!Spend]_<<stage # "stopped", usedIn + usedOut>>
<1>1. AInit => Loop!SInit
  BY DEF AInit, Loop!SInit
<1>2. CallInv /\ [ANext]_vars /\ CallInv'
        => [Loop!Spend]_<<stage # "stopped", usedIn + usedOut>>
  <2> SUFFICES ASSUME CallInv, [ANext]_vars, CallInv'
               PROVE  [Loop!Spend]_<<stage # "stopped", usedIn + usedOut>>
    OBVIOUS
  <2>1. \/ stage # "stopped" /\ usedIn' >= usedIn /\ usedOut' >= usedOut
        \/ UNCHANGED <<stage, usedIn, usedOut>>
    <3> USE Ceilings DEF CallInv, ATypeOK, LetIn, trace, tools
    <3>1. CASE Head0 BY <3>1 DEF Head0
    <3>2. CASE ProviderFails BY <3>2 DEF ProviderFails
    <3>3. ASSUME Charge, stage = "calling" PROVE usedIn' >= usedIn /\ usedOut' >= usedOut
      BY <3>3 DEF Charge, MaxTokens
    <3>4. CASE Truncated \/ FinalText \/ AsksForTools
      BY <3>3, <3>4 DEF Truncated, FinalText, AsksForTools
    <3>5. CASE TurnEnds \/ TooManyCalls \/ Expire
      BY <3>5 DEF TurnEnds, TooManyCalls, Expire
    <3>6. ASSUME NEW c \in ToolCall,
                 \/ RepeatedCall(c) \/ MalformedCall(c) \/ ReadSpan(c)
                 \/ NothingRead(c) \/ ToolFails(c)
          PROVE  stage # "stopped" /\ UNCHANGED <<usedIn, usedOut>>
      BY <3>6 DEF RepeatedCall, MalformedCall, ReadSpan, NothingRead, ToolFails, Dispatch
    <3>7. CASE UNCHANGED vars BY <3>7 DEF vars
    <3> QED BY <3>1, <3>2, <3>4, <3>5, <3>6, <3>7 DEF ANext, Turn, Tool
  <2>2. usedIn \in Nat /\ usedOut \in Nat /\ usedIn' \in Nat /\ usedOut' \in Nat
    BY DEF CallInv, ATypeOK
  <2>3. usedIn' <= MaxInputTokens + Overshoot /\ usedOut' <= MaxOutputTokens + Overshoot
    BY DEF CallInv, SpendBounded
  <2>4. CASE UNCHANGED <<stage, usedIn, usedOut>> BY <2>4
  <2>5. CASE stage # "stopped" /\ usedIn' >= usedIn /\ usedOut' >= usedOut
    <3>1. usedIn' + usedOut' \in (usedIn + usedOut) ..
            (MaxInputTokens + MaxOutputTokens + 2 * Overshoot)
      BY <2>2, <2>3, <2>5, Ceilings, AddBounds
    <3>2. (stage' # "stopped") \in BOOLEAN OBVIOUS
    <3> QED BY <2>5, <3>1, <3>2 DEF Loop!Spend, Loop!Budgeted
  <2> QED BY <2>1, <2>4, <2>5
<1> QED BY CallInit, CallStep, <1>1, <1>2, PTL DEF ASpec
=============================================================================
