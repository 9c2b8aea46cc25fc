----------------------------- MODULE AgentLoop -----------------------------
(***************************************************************************)
(* One run of the answering loop, agent.Run: turns of a model that asks    *)
(* for tools, under ceilings on turns, calls, mistakes, tokens and time.   *)
(*                                                                         *)
(* The model, the provider and the database are the environment: any       *)
(* reply, any failure, any tool outcome, and a deadline that may pass at   *)
(* any moment.  Text, schemas and arguments are abstracted to what the     *)
(* loop decides on: how large the transcript is, which calls are one call, *)
(* and which positions the final text cites.                               *)
(***************************************************************************)
EXTENDS Naturals, Sequences

CONSTANTS
    Spans,         \* the spans of the repository the tools are bound to
    NoSpan,        \* an id that is in no row
    Terms,         \* what the lookups may be asked
    Spellings,     \* the JSON values one question may be put as
    MaxSteps, MaxToolCalls, MaxToolErrors, MaxRepeats,
    MaxInputTokens, MaxOutputTokens,
    PerCallOutputCap,
    MaxSpanChars,  \* of all spans opened, but never of the first
    SpanChars,     \* [Spans -> Nat]: len(Text)
    Prompt,        \* estimated tokens of the prompt, the schemas, the question
    Growth,        \* estimated tokens one more turn adds to the transcript
    Overshoot,     \* how far reported usage may exceed an estimate
    MaxBatch       \* bound: tool calls in one reply

ASSUME LoopAssumption ==
    /\ NoSpan \notin Spans
    /\ Spellings # {}
    /\ {MaxSteps, MaxToolCalls, MaxInputTokens, MaxOutputTokens} \subseteq Nat \ {0}
    /\ {MaxToolErrors, MaxRepeats, PerCallOutputCap, MaxSpanChars} \subseteq Nat
    /\ SpanChars \in [Spans -> Nat]
    /\ Prompt \in Nat /\ Growth \subseteq Nat /\ Overshoot \in Nat
    /\ MaxBatch \in Nat

VARIABLES
    stage,      \* "head" of a turn, "calling" the model, "tools", "stopped"
    expired,    \* the loop's context is done: its deadline or its caller's
    steps,      \* Trace.Steps: model calls made
    size,       \* llm.EstimateRequest of the transcript so far
    usedIn, usedOut,
    todo,       \* calls of the current reply not dispatched yet
    toolCalls,  \* Trace.ToolCalls
    errs,       \* recoverable mistakes so far
    seen,       \* how often each call has been made
    chars,      \* what read_span has spent
    read,       \* Answer.Read
    stop,       \* Trace.Stop, "running" until then
    cited,      \* Answer.Cited
    served      \* history: the questions put to the database, and how often

trace == <<steps, usedIn, usedOut, toolCalls, errs>>
tools == <<seen, chars, read, served>>
vars  == <<stage, expired, size, todo, stop, cited, trace, tools>>

-----------------------------------------------------------------------------
(* Calls.  The arguments are JSON the model writes.  repeatKey re-encodes   *)
(* them, so how they are written - white space, the order of the keys -     *)
(* does not make two calls of one.  Two values that decode to the same      *)
(* arguments are two spellings, and two calls: a key in another case, which *)
(* encoding/json takes for the field; a q that search_code trims after the  *)
(* call was keyed; the pkg, suffix or depth a missing one stands for.       *)

Lookups == {"search_code", "definition_of", "callers_of"}

ToolCall ==
    [tool : {"read_span"}, asks : Spans \cup {NoSpan},
     spelling : Spellings, written : {"compact", "spaced"}]
    \cup [tool : Lookups \cup {"no_such_tool", "bad_arguments"}, asks : Terms,
          spelling : Spellings, written : {"compact", "spaced"}]

Verbatim(c) == c          \* mutant: keyed on the bytes of the arguments

RepeatKey(c) == [c EXCEPT !.written = "compact"]

(* What a call asks, and the value it asks it with.                         *)
Question(c) == <<c.tool, c.asks, c.spelling>>
Questions   == {Question(c) : c \in ToolCall}

Stops == {"final", "step_limit", "tool_call_limit", "token_budget", "deadline",
          "malformed_tool_call", "tool_error", "repeated_tool_call", "uncited",
          "rate_limited", "unauthorized", "provider_unavailable",
          "malformed_response"}

AInit ==
    /\ stage = "head" /\ expired = FALSE /\ steps = 0 /\ size = Prompt
    /\ usedIn = 0 /\ usedOut = 0 /\ todo = 0 /\ toolCalls = 0 /\ errs = 0
    /\ seen = [c \in ToolCall |-> 0] /\ chars = 0 /\ read = <<>>
    /\ stop = "running" /\ cited = {}
    /\ served = [q \in Questions |-> 0]

Finish(why) == stage' = "stopped" /\ stop' = why

-----------------------------------------------------------------------------
(* The head of a turn: the ceilings that are read before a model call.      *)

OverInputAlready == usedIn > MaxInputTokens   \* mutant: after the call is paid for

OverInput  == usedIn + size > MaxInputTokens
OverOutput == usedOut >= MaxOutputTokens

HeadStopLate ==   \* mutant: one turn too many
    IF steps > MaxSteps THEN "step_limit"
    ELSE IF expired THEN "deadline"
    ELSE IF OverInput \/ OverOutput THEN "token_budget"
    ELSE "running"

HeadStop ==
    IF steps >= MaxSteps THEN "step_limit"
    ELSE IF expired THEN "deadline"
    ELSE IF OverInput \/ OverOutput THEN "token_budget"
    ELSE "running"

Head0 ==
    /\ stage = "head"
    /\ \/ HeadStop = "running" /\ stage' = "calling" /\ stop' = stop
       \/ HeadStop # "running" /\ Finish(HeadStop)
    /\ UNCHANGED <<expired, size, todo, cited, trace, tools>>

(* The call.  A provider that fails reports no usage.                       *)
PerCallOnly == PerCallOutputCap   \* mutant: not clamped to what is left

MaxTokens == IF MaxOutputTokens - usedOut < PerCallOutputCap
             THEN MaxOutputTokens - usedOut ELSE PerCallOutputCap

ProviderFails ==
    /\ stage = "calling"
    /\ \E kind \in {"rate_limited", "unauthorized", "provider_unavailable",
                    "deadline", "malformed_response"} : Finish(kind)
    /\ steps' = steps + 1
    /\ UNCHANGED <<expired, size, todo, cited, usedIn, usedOut, toolCalls,
                   errs, tools>>

Charge == /\ usedIn' \in usedIn .. usedIn + size + Overshoot
          /\ usedOut' \in usedOut .. usedOut + MaxTokens + Overshoot
          /\ steps' = steps + 1

Truncated ==
    /\ stage = "calling" /\ Charge /\ Finish("token_budget")
    /\ UNCHANGED <<expired, size, todo, cited, toolCalls, errs, tools>>

(* The citation gate: marker n is the span read at position n.              *)
ResolveFromZero(markers, n) == {m + 1 : m \in {k \in markers : k <= n}}  \* mutant

Resolve(markers, n) == {m \in markers : m >= 1 /\ m <= n}

FinalText ==
    /\ stage = "calling" /\ Charge
    /\ \E markers \in SUBSET (0 .. Len(read) + 1) :
         /\ cited' = Resolve(markers, Len(read))
         /\ Finish(IF cited' = {} THEN "uncited" ELSE "final")
    /\ UNCHANGED <<expired, size, todo, toolCalls, errs, tools>>

AsksForTools ==
    /\ stage = "calling" /\ Charge
    /\ stage' = "tools" /\ todo' \in 1 .. MaxBatch
    /\ UNCHANGED <<expired, size, stop, cited, toolCalls, errs, tools>>

-----------------------------------------------------------------------------
(* dispatch, one call at a time.                                            *)

TooManyCalls ==
    /\ stage = "tools" /\ todo > 0 /\ toolCalls >= MaxToolCalls
    /\ Finish("tool_call_limit")
    /\ UNCHANGED <<expired, size, todo, cited, trace, tools>>

Dispatch(c) ==
    /\ stage = "tools" /\ todo > 0 /\ toolCalls < MaxToolCalls
    /\ toolCalls' = toolCalls + 1
    /\ seen' = [seen EXCEPT ![RepeatKey(c)] = @ + 1]
    /\ todo' = todo - 1
    /\ UNCHANGED <<expired, size, cited, steps, usedIn, usedOut>>

Repeat(c) == seen[RepeatKey(c)]

(* A mistake the model is told about, until it has made too many.           *)
Correct(why) ==
    /\ errs' = errs + 1
    /\ IF errs' > MaxToolErrors THEN Finish(why) ELSE UNCHANGED <<stage, stop>>

RepeatedCall(c) ==
    /\ Dispatch(c) /\ Repeat(c) > 0
    /\ IF Repeat(c) > MaxRepeats THEN Finish("repeated_tool_call") /\ UNCHANGED errs
                                 ELSE Correct("repeated_tool_call")
    /\ UNCHANGED <<chars, read, served>>

MalformedCall(c) ==
    /\ Dispatch(c) /\ Repeat(c) = 0
    /\ c.tool \in {"no_such_tool", "bad_arguments"}
    /\ Correct("malformed_tool_call")
    /\ UNCHANGED <<chars, read, served>>

(* The database answers (callers_of's two queries are one question).  A     *)
(* span read is a span that may be cited; the character budget refuses the  *)
(* next one and never clips this one.                                       *)
Served(c) == served' = [served EXCEPT ![Question(c)] = @ + 1]

NotYetSpent(s) == chars <= MaxSpanChars   \* mutant: the span itself not counted

Affordable(s) == chars = 0 \/ chars + SpanChars[s] <= MaxSpanChars

Opens(c) == c.tool = "read_span" /\ c.asks \in Spans /\ Affordable(c.asks)

ReadSpan(c) ==
    /\ Dispatch(c) /\ Repeat(c) = 0 /\ Opens(c)
    /\ chars' = chars + SpanChars[c.asks] /\ read' = Append(read, c.asks)
    /\ Served(c)
    /\ UNCHANGED <<stage, stop, errs>>

NothingRead(c) ==
    /\ Dispatch(c) /\ Repeat(c) = 0 /\ c.tool \in Lookups \cup {"read_span"}
    /\ ~Opens(c)
    /\ Served(c)
    /\ UNCHANGED <<stage, stop, errs, chars, read>>

(* A query fails because the database does, or because its context is done: *)
(* the stop reason is the same.                                             *)
ToolFails(c) ==
    /\ Dispatch(c) /\ Repeat(c) = 0 /\ c.tool \in Lookups \cup {"read_span"}
    /\ Served(c) /\ Finish("tool_error")
    /\ UNCHANGED <<errs, chars, read>>

TurnEnds ==
    /\ stage = "tools" /\ todo = 0
    /\ stage' = "head" /\ \E g \in Growth : size' = size + g
    /\ UNCHANGED <<expired, todo, stop, cited, trace, tools>>

Expire ==
    /\ stage # "stopped" /\ ~expired /\ expired' = TRUE
    /\ UNCHANGED <<stage, size, todo, stop, cited, trace, tools>>

Turn == Head0 \/ ProviderFails \/ Truncated \/ FinalText \/ AsksForTools \/ TurnEnds

Tool == \/ TooManyCalls
        \/ \E c \in ToolCall : \/ RepeatedCall(c) \/ MalformedCall(c) \/ ReadSpan(c)
                               \/ NothingRead(c) \/ ToolFails(c)

ANext == Turn \/ Tool \/ Expire

(* Run is one goroutine, and every model and tool call returns: each is     *)
(* under the deadline of the loop's context.                                *)
ASpec == AInit /\ [][ANext]_vars /\ WF_vars(Turn \/ Tool)

-----------------------------------------------------------------------------
(* Types, with the ceilings on turns and calls: neither counter passes its  *)
(* bound however the turns, batches and mistakes fall.                      *)
ATypeOK ==
    /\ stage \in {"head", "calling", "tools", "stopped"} /\ expired \in BOOLEAN
    /\ steps \in 0 .. MaxSteps /\ toolCalls \in 0 .. MaxToolCalls
    /\ size \in Nat /\ usedIn \in Nat /\ usedOut \in Nat /\ todo \in 0 .. MaxBatch
    /\ errs \in 0 .. MaxToolErrors + 1
    /\ seen \in [ToolCall -> Nat] /\ chars \in Nat /\ read \in Seq(Spans)
    /\ stop \in Stops \cup {"running"} /\ (stage = "stopped" <=> stop # "running")
    /\ cited \subseteq Nat

(* The spellings in which a span has been asked for.                        *)
ReadAs(s) == {p \in Spellings : served[<<"read_span", s, p>>] > 0}

(* An answer is served only with a citation, and every citation names a     *)
(* span this loop opened (agent.go:293-318, the citation gate): whatever    *)
(* the model wrote, a position it did not earn never reaches the response.  *)
CitedWasOpened ==
    /\ stop = "final" => cited # {}
    /\ \A p \in cited : p \in DOMAIN read /\ ReadAs(read[p]) # {}

(* Both token budgets are totals of the whole loop (bounds.go:12-16): over  *)
(* all its turns the loop reports no more than its budgets, plus what the   *)
(* last call overshot its estimate by.                                      *)
SpendBounded == /\ usedIn <= MaxInputTokens + Overshoot
                /\ usedOut <= MaxOutputTokens + Overshoot

(* The repeat guard (agent.go:247-277) and what it is for.  However often,  *)
(* in whichever turn and with whatever white space a call is made, it       *)
(* reaches the database once; and a span is at two positions of Read, where *)
(* two markers resolve to two citations of one span, only if the model      *)
(* asked for it in two spellings - which repeatKey takes for two calls, so  *)
(* that the code does then ask, and charge the budget, twice.               *)
AskedOnce ==
    /\ \A q \in DOMAIN served : served[q] <= 1
    /\ \A i, k \in DOMAIN read : i # k /\ read[i] = read[k]
         => \E p1, p2 \in ReadAs(read[i]) : p1 # p2

(* The character budget is cumulative over the loop and refuses rather than *)
(* clips (tools.go:33-37): more than it is opened only by a first span.     *)
ReadWithinBudget == chars > MaxSpanChars => \E s \in Spans : chars = SpanChars[s]

(* The loop is what the hourly budget takes it for: it spends within what   *)
(* was reserved for it, up to the estimates' error, and it returns.         *)
Loop == INSTANCE Spender WITH
          Want <- MaxInputTokens + MaxOutputTokens, Slack <- 2 * Overshoot,
          running <- stage # "stopped", used <- usedIn + usedOut
ImplementsSpender == Loop!SSpec

=============================================================================
