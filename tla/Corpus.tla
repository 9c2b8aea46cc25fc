------------------------------- MODULE Corpus -------------------------------
(***************************************************************************)
(* The tables readers read, and the statements that change them.  Two of   *)
(* them see one state and commit in another, at READ COMMITTED.  PutSpans  *)
(* begins by deleting the spans it sees and ends by committing its own;    *)
(* rows another PutSpans commits in between are not among those it saw.    *)
(* The trim of the tombstones chooses from a snapshot and then deletes the *)
(* rows of the ids it chose, as they are by then.                          *)
(*                                                                         *)
(* A repository's spans are rows [ids, model]: what its files were chunked *)
(* to - rows of one chunking have the same ids, whoever wrote them - and   *)
(* the model they were embedded with.  A definition's span_id is one of    *)
(* those ids or null.  Indexer models the window inside the two DELETEs on *)
(* repos and the jobs these statements are issued for.                     *)
(***************************************************************************)
EXTENDS Lists, FiniteSets, Functions

CONSTANTS
    Repos,      \* repository ids
    Writers,    \* PutSpans transactions that may overlap
    Trimmers,   \* indexers whose Evict may overlap, in its second statement
    Ids,        \* sets of span ids a repository's files may be chunked to
    Models,     \* embedding models indexers are configured with
    Chunked,    \* Chunked[r]: the spans an indexer may write for r
    KeepRepos, KeepTombstones

Rows == [ids : Ids, model : Models]

ASSUME CorpusAssumption ==
    /\ Chunked \in [Repos -> SUBSET Rows]
    /\ KeepRepos \in Nat \ {0} /\ KeepTombstones \in Nat
    /\ "null" \notin Ids /\ "no rows" \notin Ids

VARIABLES
    lru,        \* repos, by last_queried_at DESC
    spans,      \* spans[r]: r's rows
    linked,     \* linked[r]: the span_id of r's symbols, "null", or "no rows"
    tombs,      \* evicted_repos, by evicted_at DESC
    trims,      \* trims[e]: the tombstones e's trim has chosen and not deleted
    putting,    \* putting[w]: w's PutSpans: for whom, what it writes, what it saw
    renewed,    \* history: those of trims[e] that were renewed since
    latest      \* history: the KeepTombstones latest evictions, newest first,
                \* but for those a trim took that had chosen an older one

trimming == <<trims, renewed>>
corpus   == <<lru, spans, linked, tombs, trimming, putting, latest>>

Held(r) == \E i \in DOMAIN lru : lru[i] = r
Remembered(r) == \E i \in DOMAIN tombs : tombs[i] = r
Status(r) == IF Held(r) THEN "held" ELSE IF Remembered(r) THEN "gone" ELSE "unknown"
IdsOf(rows) == {s.ids : s \in rows}

Idle == [to |-> "none"]
Busy == [to : Repos, with : Rows, seen : SUBSET Rows]

CInit ==
    /\ lru = <<>> /\ tombs = <<>> /\ latest = <<>>
    /\ trims = [e \in Trimmers |-> {}] /\ renewed = [e \in Trimmers |-> {}]
    /\ spans = [r \in Repos |-> {}] /\ linked = [r \in Repos |-> "no rows"]
    /\ putting = [w \in Writers |-> Idle]

-----------------------------------------------------------------------------

Used(r) == <<r>> \o Without(lru, {r})

PutRepo(r) ==
    /\ lru' = Used(r)
    /\ UNCHANGED <<spans, linked, tombs, trimming, putting, latest>>

Touch(r) ==
    /\ lru' = IF Held(r) THEN Used(r) ELSE lru
    /\ UNCHANGED <<spans, linked, tombs, trimming, putting, latest>>

KeepLinks(r, gone) == linked[r]   \* mutant: no ON DELETE SET NULL

(* ON DELETE SET NULL: symbols outlive the spans they named.                *)
Unlinked(r, gone) == IF linked[r] \in IdsOf(gone) THEN "null" ELSE linked[r]

BeginSpans(w, r, s) ==
    /\ putting[w] = Idle /\ Held(r)
    /\ putting' = [putting EXCEPT ![w] = [to |-> r, with |-> s, seen |-> spans[r]]]
    /\ UNCHANGED <<lru, spans, linked, tombs, trimming, latest>>

(* Rows of r are gone, or written anew: what a PutSpans saw is no longer    *)
(* what is there.                                                           *)
Minus(p, rows) == [to |-> p.to, with |-> p.with, seen |-> p.seen \ rows]
Unseen(gone, rows) ==
    [w \in Writers |-> IF putting[w] # Idle /\ putting[w].to \in gone
                       THEN Minus(putting[w], rows) ELSE putting[w]]

(* Its inserts update the rows of the same ids; the foreign key needs r.    *)
CommitSpans(w) ==
    LET r == putting[w].to
        s == putting[w].with
        seen == putting[w].seen
        stay == {x \in spans[r] \ seen : x.ids # s.ids}
    IN  /\ putting[w] # Idle /\ Held(r)
        /\ spans' = [spans EXCEPT ![r] = stay \cup {s}]
        /\ linked' = [linked EXCEPT ![r] = Unlinked(r, seen)]
        /\ putting' = [Unseen({r}, seen \cup {s}) EXCEPT ![w] = Idle]
        /\ UNCHANGED <<lru, tombs, trimming, latest>>

(* The deadline, the connection or the process; the transaction is undone.  *)
AbortSpans(w) ==
    /\ putting[w] # Idle
    /\ putting' = [putting EXCEPT ![w] = Idle]
    /\ UNCHANGED <<lru, spans, linked, tombs, trimming, latest>>

(* Replaces the graph: of definitions with spans, without, or of nothing.  A *)
(* repository that is chunked to nothing has no definitions.                *)
PutGraph(r) ==
    /\ Held(r) /\ Chunked[r] # {}
    /\ \E l \in IdsOf(spans[r]) \cup {"null", "no rows"} :
         linked' = [linked EXCEPT ![r] = l]
    /\ UNCHANGED <<lru, spans, tombs, trimming, putting, latest>>

(* The cascade from repos to files, spans, symbols and edges.               *)
Drop(gone) ==
    /\ lru' = Without(lru, gone)
    /\ spans' = [r \in Repos |-> IF r \in gone THEN {} ELSE spans[r]]
    /\ linked' = [r \in Repos |-> IF r \in gone THEN "no rows" ELSE linked[r]]
    /\ putting' = Unseen(gone, Rows)

DeleteEmptyRepo(r) ==
    /\ Held(r) /\ spans[r] = {}
    /\ Drop({r})
    /\ UNCHANGED <<tombs, trimming, latest>>

-----------------------------------------------------------------------------
(* Evict is two statements.  The first deletes and tombstones; a repository *)
(* evicted again has its tombstone renewed.  An indexer with nothing to     *)
(* evict trims all the same.                                                *)

OnConflictDoNothing(new, list) == Without(new, Range(list)) \o list   \* mutant
Buried(new, list) == new \o Without(list, Range(new))

Newest(list) ==
    SubSeq(list, 1, IF Len(list) < KeepTombstones THEN Len(list) ELSE KeepTombstones)

Surplus == {lru[i] : i \in {n \in DOMAIN lru : n > KeepRepos}}

Evict ==
    /\ Surplus # {} /\ Drop(Surplus)
    /\ \E new \in Bijection(1 .. Cardinality(Surplus), Surplus) :
         /\ tombs' = Buried(new, tombs)
         /\ latest' = Newest(new \o Without(latest, Surplus))
    /\ renewed' = [e \in Trimmers |-> renewed[e] \cup (trims[e] \cap Surplus)]
    /\ UNCHANGED trims

(* The trim's subquery.                                                     *)
BeginTrim(e) ==
    /\ trims[e] = {}
    /\ trims' = [trims EXCEPT ![e] = Range(tombs) \ Range(Newest(tombs))]
    /\ UNCHANGED <<lru, spans, linked, tombs, renewed, putting, latest>>

(* Its DELETE.  A tombstone that was renewed meanwhile still has the id that *)
(* was chosen, and goes; one that another trim deleted and an eviction wrote *)
(* again is a row it never saw.                                             *)
Rest(chosen, e) ==
    [f \in Trimmers |-> IF f = e THEN {} ELSE chosen[f] \ trims[e]]
EndTrim(e) ==
    /\ trims[e] # {}
    /\ tombs' = Without(tombs, trims[e])
    /\ trims' = Rest(trims, e) /\ renewed' = Rest(renewed, e)
    /\ latest' = Without(latest, renewed[e])
    /\ UNCHANGED <<lru, spans, linked, putting>>

(* An error, or a crash: the next Evict trims.                              *)
AbortTrim(e) ==
    /\ trims[e] # {}
    /\ trims' = [trims EXCEPT ![e] = {}] /\ renewed' = [renewed EXCEPT ![e] = {}]
    /\ UNCHANGED <<lru, spans, linked, tombs, putting, latest>>

CNext ==
    \/ \E r \in Repos : PutRepo(r) \/ Touch(r) \/ PutGraph(r) \/ DeleteEmptyRepo(r)
    \/ \E w \in Writers : \/ CommitSpans(w) \/ AbortSpans(w)
                          \/ \E r \in Repos : \E s \in Chunked[r] : BeginSpans(w, r, s)
    \/ Evict \/ \E e \in Trimmers : BeginTrim(e) \/ EndTrim(e) \/ AbortTrim(e)

CSpec == CInit /\ [][CNext]_corpus

-----------------------------------------------------------------------------

(* A definition's span_id names a span of its repository or nothing, however *)
(* PutSpans, PutGraph, eviction and cleanup overlap: symbols.span_id.        *)
LinksResolve ==
    \A r \in Repos : linked[r] \in Ids => linked[r] \in IdsOf(spans[r])

(* The KeepTombstones latest evictions are remembered, whatever was indexed  *)
(* and evicted again and however many trims overlap or are lost: a caller of *)
(* one of them is told 410.  The exception is the code's: a repository that  *)
(* is indexed and evicted again while a trim is under way that has chosen    *)
(* its old tombstone loses the new one to it.                                *)
LatestRemembered ==
    \A i \in DOMAIN latest : Remembered(latest[i])

(* What PutSpans is said to guarantee: a repository's spans are those of one *)
(* call, so of one chunking and one model.                                   *)
OneAuthor == \A r \in Repos : Cardinality(spans[r]) <= 1
=============================================================================
