-------------------------------- MODULE Reads --------------------------------
(***************************************************************************)
(* The gateway's read routes over a corpus that changes under them.  A     *)
(* request is a handful of separate statements - the repository, its       *)
(* tombstone, spans, symbols, a later commit, the touch - with an embedder *)
(* or a model called in between, and no transaction around them.           *)
(* Retrieval is in its default mode, hybrid; listing repositories reads    *)
(* once and answers.                                                       *)
(***************************************************************************)
EXTENDS Corpus

CONSTANTS
    Requests,        \* requests, each served once
    Asked,           \* the repositories they may be about
    EmbedModel,      \* the gateway's embedder
    BelowFloor       \* LLM_BELOW_FLOOR

Routes == {"repo", "span", "symbols", "symbol", "callers", "search", "ask"}

ASSUME ReadsAssumption ==
    Asked \subseteq Repos /\ EmbedModel \in Models /\ BelowFloor \in BOOLEAN

VARIABLES
    at,         \* at[q]: what q's handler does next
    route, repo, want,       \* what was asked, and of which answerer
    link, cites,             \* the span_id in hand; those cited so far
    hits, verdict,           \* VectorSearch's rows, until fused; Decide's outcome or reason
    reply, by,               \* what the caller is told, and who answered
    saw,        \* history: the states q's repository was in during q
    rewritten   \* history: its spans were replaced or dropped during q

asked   == <<route, repo, want>>
locals  == <<link, cites, hits>>
request == <<asked, locals, verdict, reply, by>>
rvars   == <<corpus, at, request, saw, rewritten>>

RInit ==
    /\ CInit
    /\ at = [q \in Requests |-> "idle"]
    /\ route \in [Requests -> Routes] /\ repo \in [Requests -> Asked]
    /\ want \in [Requests -> {"extractive", "llm"}]
    /\ \A q \in Requests : want[q] = "llm" => route[q] = "ask"
    /\ link = [q \in Requests |-> "null"] /\ cites = [q \in Requests |-> {}]
    /\ hits = [q \in Requests |-> {}] /\ verdict = [q \in Requests |-> "undecided"]
    /\ reply = [q \in Requests |-> "none"] /\ by = [q \in Requests |-> "none"]
    /\ saw = [q \in Requests |-> {}] /\ rewritten = [q \in Requests |-> FALSE]

Goto(q, step) == at' = [at EXCEPT ![q] = step]

(* The response is written, and the handler's locals are gone.              *)
Reply(q, what) ==
    /\ Goto(q, "replied") /\ reply' = [reply EXCEPT ![q] = what]
    /\ link' = [link EXCEPT ![q] = "null"] /\ cites' = [cites EXCEPT ![q] = {}]
    /\ hits' = [hits EXCEPT ![q] = {}]

-----------------------------------------------------------------------------
(* The repository.                                                          *)

Unvalidated == {"repo", "span", "symbol"}

(* A malformed body or parameter, or an answerer this deployment lacks.     *)
Arrive(q) ==
    /\ at[q] = "idle"
    /\ \/ Goto(q, "lookup") /\ UNCHANGED <<locals, reply>>
       \/ route[q] \notin Unvalidated /\ Reply(q, "bad request")
    /\ UNCHANGED <<corpus, asked, verdict, by>>

(* Every statement can fail, and a failed one is a 500 - but for the touch, *)
(* the loop and the approximate callers.                                    *)
Failing == {"lookup", "missing", "read", "callers", "vector", "lexical", "newer",
            "cite", "cite approximate"}
Fail(q) ==
    /\ at[q] \in Failing /\ Reply(q, "failed")
    /\ UNCHANGED <<corpus, asked, verdict, by>>

TombstoneFirst(q) ==   \* mutant: asks whether it is gone before what it is
    /\ at[q] = "lookup"
    /\ IF Remembered(repo[q])
       THEN Reply(q, "gone")
       ELSE /\ Goto(q, IF Held(repo[q]) THEN "read" ELSE "missing")
            /\ UNCHANGED <<locals, reply>>
    /\ UNCHANGED <<corpus, asked, verdict, by>>

(* lookupRepo: repos first, and the tombstone only when it holds nothing.   *)
GetRepo(q) ==
    /\ at[q] = "lookup"
    /\ Goto(q, IF Held(repo[q]) THEN "read" ELSE "missing")
    /\ UNCHANGED <<corpus, request>>

RepoGone(q) ==
    /\ at[q] = "missing"
    /\ Reply(q, IF Status(repo[q]) = "gone" THEN "gone" ELSE "unknown")
    /\ UNCHANGED <<corpus, asked, verdict, by>>

(* NewerCommit, then whatever the route has left to read.                   *)
Newer(q) ==
    /\ at[q] = "newer"
    /\ Goto(q, IF route[q] \in {"symbol", "callers"} THEN "cite" ELSE "answer")
    /\ UNCHANGED <<corpus, request>>

(* h.touch: a failure is logged and dropped.                                *)
WindClock(r) == Touch(r) \/ UNCHANGED corpus

Answer(q) ==
    /\ at[q] = "answer" /\ Reply(q, "ok") /\ WindClock(repo[q])
    /\ UNCHANGED <<asked, verdict, by>>

-----------------------------------------------------------------------------
(* Spans and symbols.                                                       *)

(* RepoStats, or Definitions.                                               *)
ReadCounts(q) ==
    /\ at[q] = "read" /\ route[q] \in {"repo", "symbols"} /\ Goto(q, "newer")
    /\ UNCHANGED <<corpus, request>>

GetSpan(q) ==
    /\ at[q] = "read" /\ route[q] = "span"
    /\ \/ spans[repo[q]] # {} /\ Goto(q, "newer") /\ UNCHANGED <<locals, reply>>
       \/ Reply(q, "no such")
    /\ UNCHANGED <<corpus, asked, verdict, by>>

(* One row of symbols: some definitions have no span.                       *)
ReadRow(q) ==
    /\ \E l \in {linked[repo[q]], "null"} : link' = [link EXCEPT ![q] = l]
    /\ UNCHANGED <<cites, hits, reply>>

Symbol(q) ==
    /\ at[q] = "read" /\ route[q] \in {"symbol", "callers"}
    /\ \/ /\ linked[repo[q]] # "no rows" /\ ReadRow(q)
          /\ Goto(q, IF route[q] = "symbol" THEN "newer" ELSE "callers")
       \/ Reply(q, "no such")
    /\ UNCHANGED <<corpus, asked, verdict, by>>

Callers(q) ==
    /\ at[q] = "callers" /\ ReadRow(q) /\ Goto(q, "newer")
    /\ UNCHANGED <<corpus, asked, verdict, by>>

(* citer.of: a row's span, read once per request; a span_id that names none *)
(* is an error.                                                             *)
Cite(q) ==
    /\ at[q] \in {"cite", "cite approximate"}
    /\ IF link[q] \in {"null", "no rows"} \cup cites[q] \cup IdsOf(spans[repo[q]])
       THEN /\ Goto(q, IF at[q] = "cite" /\ route[q] = "callers"
                       THEN "approximate" ELSE "answer")
            /\ cites' = [cites EXCEPT ![q] = @ \cup ({link[q]} \cap Ids)]
            /\ link' = [link EXCEPT ![q] = "null"]
            /\ UNCHANGED <<hits, reply>>
       ELSE Reply(q, "broken")
    /\ UNCHANGED <<corpus, asked, verdict, by>>

(* The approximate callers; if the query fails, the precise answer stands.  *)
Approximate(q) ==
    /\ at[q] = "approximate"
    /\ \/ ReadRow(q) /\ Goto(q, "cite approximate")
       \/ Goto(q, "answer") /\ UNCHANGED <<locals, reply>>
    /\ UNCHANGED <<corpus, asked, verdict, by>>

-----------------------------------------------------------------------------
(* Retrieval.                                                               *)

Decided(q, v) ==
    /\ verdict' = [verdict EXCEPT ![q] = v]
    /\ Goto(q, IF route[q] = "search" THEN "newer" ELSE "decided")

AnyModel(rows) == TRUE   \* mutant: neither ErrMixedEmbedders nor ErrModelMismatch

SameModel(rows) == \A s \in rows : s.model = EmbedModel

(* What the repository was embedded with: nothing to rank, or an embedder,  *)
(* which must be this process's own and the only one.                       *)
SpanEmbedder(q) ==
    /\ at[q] = "read" /\ route[q] \in {"search", "ask"}
    /\ CASE spans[repo[q]] = {} -> Decided(q, "no_spans") /\ UNCHANGED <<locals, reply>>
         [] spans[repo[q]] # {} /\ SameModel(spans[repo[q]]) ->
              Goto(q, "vector") /\ UNCHANGED <<locals, verdict, reply>>
         [] OTHER -> Reply(q, "mismatch") /\ UNCHANGED verdict
    /\ UNCHANGED <<corpus, asked, by>>

(* The question is embedded, then compared.                                 *)
VectorSearch(q) ==
    /\ at[q] = "vector" /\ Goto(q, "lexical")
    /\ hits' = [hits EXCEPT ![q] = spans[repo[q]]]
    /\ UNCHANGED <<corpus, asked, link, cites, verdict, reply, by>>

(* Decide, over what both arms found.  A vector arm that found nothing has  *)
(* no top score.                                                            *)
Decide(vector, lexical) ==
    IF vector = {} /\ lexical = {} THEN {"no_spans"}
    ELSE IF vector = {} THEN {"unscored"}
    ELSE {"unscored", "below_floor", "answered"}

LexicalSearch(q) ==
    /\ at[q] = "lexical"
    /\ \E lexical \in {spans[repo[q]], {}} :
         \E v \in Decide(hits[q], lexical) : Decided(q, v)
    /\ hits' = [hits EXCEPT ![q] = {}]
    /\ UNCHANGED <<corpus, asked, link, cites, reply, by>>

-----------------------------------------------------------------------------
(* The answer.                                                              *)

TryOnAnyRefusal(q) ==   \* mutant: LLM_BELOW_FLOOR read as "whatever was refused"
    want[q] = "llm" /\ (verdict[q] = "answered" \/ BelowFloor)

TryLoop(q) ==
    /\ want[q] = "llm"
    /\ verdict[q] = "answered" \/ (verdict[q] = "below_floor" /\ BelowFloor)

(* The loop ends in an answer, or in one of its other stops - busy, out of  *)
(* budget, a ceiling, a failure - and what would have been said without it  *)
(* is said instead.                                                         *)
Answerer(q) ==
    /\ at[q] = "decided"
    /\ \/ /\ TryLoop(q) /\ by' = [by EXCEPT ![q] = "llm"] /\ Goto(q, "newer")
          /\ UNCHANGED <<corpus, locals, reply>>
       \/ /\ by' = [by EXCEPT ![q] = "extractive"]
          /\ \/ /\ verdict[q] = "answered" /\ Goto(q, "newer")
                /\ UNCHANGED <<corpus, locals, reply>>
             \/ verdict[q] # "answered" /\ Reply(q, "refused") /\ WindClock(repo[q])
    /\ UNCHANGED <<asked, verdict>>

-----------------------------------------------------------------------------

Handle(q) ==
    \/ Arrive(q) \/ Fail(q) \/ GetRepo(q) \/ RepoGone(q) \/ ReadCounts(q) \/ GetSpan(q)
    \/ Symbol(q) \/ Callers(q) \/ Newer(q) \/ Cite(q) \/ Approximate(q)
    \/ SpanEmbedder(q) \/ VectorSearch(q) \/ LexicalSearch(q) \/ Answerer(q) \/ Answer(q)

(* What an observer of the whole request would have seen.                   *)
Open(q) == at[q] \notin {"idle", "replied"}
Watch ==
    /\ saw' = [q \in Requests |-> IF Open(q) \/ Open(q)'
                                  THEN saw[q] \cup {Status(repo[q])'} ELSE saw[q]]
    /\ rewritten' = [q \in Requests |-> rewritten[q] \/
                       (Open(q) /\ spans'[repo[q]] # spans[repo[q]])]

(* The corpus changes until the last request has its reply.                 *)
Unserved == \E q \in Requests : at[q] # "replied"

RNext ==
    /\ \/ Unserved /\ CNext /\ UNCHANGED <<at, request>>
       \/ \E q \in Requests : Handle(q)
    /\ Watch

RSpec == RInit /\ [][RNext]_rvars

-----------------------------------------------------------------------------

Steps == Failing \cup {"idle", "approximate", "decided", "answer", "replied"}
Replies == {"none", "bad request", "failed", "gone", "unknown", "no such", "broken",
            "mismatch", "ok", "refused"}
Verdicts == {"undecided", "no_spans", "unscored", "below_floor", "answered"}

RequestsTyped ==
    /\ at \in [Requests -> Steps] /\ reply \in [Requests -> Replies]
    /\ route \in [Requests -> Routes] /\ repo \in [Requests -> Repos]
    /\ link \in [Requests -> Ids \cup {"null", "no rows"}]
    /\ cites \in [Requests -> SUBSET Ids] /\ hits \in [Requests -> SUBSET Rows]
    /\ verdict \in [Requests -> Verdicts]
    /\ by \in [Requests -> {"none", "extractive", "llm"}]
    /\ saw \in [Requests -> SUBSET {"held", "gone", "unknown"}]
    /\ rewritten \in [Requests -> BOOLEAN]

(* What a reply says of the repository was so at some point of the request:  *)
(* 410 only for one that was gone then, an answer only for one that was      *)
(* held.  404 alone may be untrue, of a repository that was gone when repos  *)
(* was read and indexed again before its tombstone was.                      *)
RepliesWereTrue ==
    \A q \in Requests :
      /\ reply[q] = "gone" => "gone" \in saw[q]
      /\ reply[q] \in {"ok", "refused", "no such", "mismatch", "broken"} => "held" \in saw[q]
      /\ reply[q] = "unknown" => "unknown" \in saw[q] \/ {"gone", "held"} \subseteq saw[q]

(* The question's vector is only ever compared with vectors of its own model *)
(* - unless the repository's spans changed between SpanEmbedder and          *)
(* VectorSearch, which nothing prevents.                                     *)
RankedAsEmbedded ==
    \A q \in Requests : (\A s \in hits[q] : s.model = EmbedModel) \/ rewritten[q]

(* citer.of's 500, "a broken invariant", means only that the spans were      *)
(* replaced or dropped between a row's read and its citation.                *)
BrokenMeansRewritten ==
    \A q \in Requests : reply[q] = "broken" => rewritten[q]

(* Grounded or refused: only what Decide answered is answered, except that   *)
(* with LLM_BELOW_FLOOR the loop itself may answer below the floor; a loop   *)
(* that degrades does not inherit that, and no loop runs on nothing found or *)
(* nothing scored.                                                           *)
GroundedOrRefused ==
    \A q \in Requests :
      /\ route[q] = "ask" /\ reply[q] = "ok" =>
           \/ verdict[q] = "answered"
           \/ verdict[q] = "below_floor" /\ BelowFloor /\ by[q] = "llm"
      /\ reply[q] = "refused" => verdict[q] # "answered"
=============================================================================
