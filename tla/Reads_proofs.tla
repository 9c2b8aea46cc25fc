---------------------------- MODULE Reads_proofs ----------------------------
(***************************************************************************)
(* Theorems about the corpus tables, for any number of repositories and of *)
(* PutSpans that overlap, and about the read routes over them, for any     *)
(* number of concurrent requests.                                          *)
(***************************************************************************)
EXTENDS Reads, Lists_proofs

-----------------------------------------------------------------------------
(* The corpus: links.                                                      *)

(* The types of the tables that the links depend on.                      *)
TablesTyped ==
    /\ spans \in [Repos -> SUBSET Rows]
    /\ linked \in [Repos -> Ids \cup {"null", "no rows"}]
    /\ putting \in [Writers -> {Idle} \cup Busy]

CInv == TablesTyped /\ LinksResolve

LEMMA Settings ==
    /\ Chunked \in [Repos -> SUBSET Rows]
    /\ "null" \notin Ids /\ "no rows" \notin Ids
  BY CorpusAssumption DEF CorpusAssumption

(* A write in progress names a repository, rows and what it saw.           *)
LEMMA InProgress ==
    ASSUME TablesTyped, NEW w \in Writers, putting[w] # Idle
    PROVE  /\ putting[w] \in Busy /\ putting[w].to \in Repos
           /\ putting[w].with \in Rows /\ putting[w].seen \subseteq Rows
  BY DEF TablesTyped, Busy

LEMMA UnseenTyped ==
    ASSUME TablesTyped, NEW gone, NEW rows
    PROVE  Unseen(gone, rows) \in [Writers -> {Idle} \cup Busy]
<1> SUFFICES ASSUME NEW w \in Writers, putting[w] # Idle
             PROVE  Minus(putting[w], rows) \in Busy
  BY DEF Unseen, TablesTyped
<1> QED BY InProgress DEF Minus, Busy

LEMMA InitCInv == CInit => CInv
  BY Settings DEF CInit, CInv, TablesTyped, LinksResolve, Busy, Rows, IdsOf

(* A cascade takes the links together with the spans they name.            *)
LEMMA DropKeeps ==
    ASSUME CInv, NEW gone, Drop(gone)
    PROVE  CInv'
<1>1. spans' \in [Repos -> SUBSET Rows]
  BY DEF CInv, TablesTyped, Drop
<1>2. linked' \in [Repos -> Ids \cup {"null", "no rows"}]
  BY DEF CInv, TablesTyped, Drop
<1>3. putting' \in [Writers -> {Idle} \cup Busy]
  BY UnseenTyped DEF CInv, Drop
<1>4. LinksResolve'
  <2> SUFFICES ASSUME NEW r \in Repos, linked'[r] \in Ids
               PROVE  linked'[r] \in IdsOf(spans'[r])
    BY DEF LinksResolve, IdsOf
  <2>1. r \notin gone
    BY Settings DEF Drop
  <2> QED BY <2>1 DEF CInv, Drop, LinksResolve
<1> QED BY <1>1, <1>2, <1>3, <1>4 DEF CInv, TablesTyped

(* A span whose id a symbol names is deleted, and the link set to null, or *)
(* stays, or is written anew under the same id.                            *)
LEMMA CommitKeeps ==
    ASSUME CInv, NEW w \in Writers, CommitSpans(w)
    PROVE  CInv'
<1> DEFINE r == putting[w].to
           s == putting[w].with
           seen == putting[w].seen
           stay == {x \in spans[r] \ seen : x.ids # s.ids}
<1>1. r \in Repos /\ s \in Rows /\ seen \subseteq Rows /\ s.ids \in Ids
  BY InProgress DEF CInv, CommitSpans, Rows
<1>2. /\ spans' = [spans EXCEPT ![r] = stay \cup {s}]
      /\ linked' = [linked EXCEPT ![r] = Unlinked(r, seen)]
      /\ putting' = [Unseen({r}, seen \cup {s}) EXCEPT ![w] = Idle]
  BY DEF CommitSpans
<1>3. spans' \in [Repos -> SUBSET Rows]
  <2>1. stay \cup {s} \subseteq Rows
    BY <1>1 DEF CInv, TablesTyped
  <2> QED BY <2>1, <1>1, <1>2 DEF CInv, TablesTyped
<1>4. linked' \in [Repos -> Ids \cup {"null", "no rows"}]
  BY <1>1, <1>2 DEF CInv, TablesTyped, Unlinked
<1>5. putting' \in [Writers -> {Idle} \cup Busy]
  BY UnseenTyped, <1>2 DEF CInv
<1>6. LinksResolve'
  <2> SUFFICES ASSUME NEW t \in Repos, linked'[t] \in Ids
               PROVE  linked'[t] \in IdsOf(spans'[t])
    BY DEF LinksResolve, IdsOf
  <2>1. CASE t # r
    BY <2>1, <1>1, <1>2 DEF CInv, TablesTyped, LinksResolve
  <2>2. CASE t = r
    <3>1. linked'[r] = Unlinked(r, seen) /\ spans'[r] = stay \cup {s}
      BY <1>1, <1>2 DEF CInv, TablesTyped
    <3>2. linked'[r] = linked[r] /\ linked[r] \notin IdsOf(seen) /\ linked[r] \in Ids
      BY <3>1, <2>2, Settings DEF Unlinked
    <3>3. PICK x \in spans[r] : x.ids = linked[r]
      BY <3>2, <1>1 DEF CInv, LinksResolve, IdsOf
    <3>4. x \notin seen
      BY <3>2, <3>3 DEF IdsOf
    <3>5. \E y \in stay \cup {s} : y.ids = linked[r]
      BY <3>3, <3>4
    <3> QED BY <3>1, <3>2, <3>5, <2>2 DEF IdsOf
  <2> QED BY <2>1, <2>2
<1> QED BY <1>3, <1>4, <1>5, <1>6 DEF CInv, TablesTyped

LEMMA NextCInv == CInv /\ [CNext]_corpus => CInv'
<1> SUFFICES ASSUME CInv, [CNext]_corpus PROVE CInv'
  OBVIOUS
<1>1. ASSUME UNCHANGED <<spans, linked, putting>> PROVE CInv'
  BY <1>1 DEF CInv, TablesTyped, LinksResolve, Busy, Rows, IdsOf
<1>2. ASSUME NEW r \in Repos, PutRepo(r) \/ Touch(r) PROVE CInv'
  BY <1>2, <1>1 DEF PutRepo, Touch
<1>3. ASSUME NEW r \in Repos, PutGraph(r) PROVE CInv'
  <2>1. PICK l \in IdsOf(spans[r]) \cup {"null", "no rows"} :
          linked' = [linked EXCEPT ![r] = l]
    BY <1>3 DEF PutGraph
  <2>2. UNCHANGED <<spans, putting>>
    BY <1>3 DEF PutGraph
  <2>3. IdsOf(spans[r]) \subseteq Ids
    <3>1. \A x \in spans[r] : x \in Rows
      BY DEF CInv, TablesTyped
    <3>2. \A x \in Rows : x.ids \in Ids
      BY DEF Rows
    <3> QED BY <3>1, <3>2 DEF IdsOf
  <2>4. TablesTyped'
    BY <2>1, <2>2, <2>3 DEF CInv, TablesTyped
  <2>5. LinksResolve'
    BY <2>1, <2>2, Settings DEF CInv, TablesTyped, LinksResolve
  <2> QED BY <2>4, <2>5 DEF CInv
<1>4. ASSUME NEW r \in Repos, DeleteEmptyRepo(r) PROVE CInv'
  BY <1>4, DropKeeps DEF DeleteEmptyRepo
<1>5. ASSUME NEW w \in Writers, CommitSpans(w) PROVE CInv'
  BY <1>5, CommitKeeps
<1>6. ASSUME NEW w \in Writers, AbortSpans(w) PROVE CInv'
  BY <1>6 DEF AbortSpans, CInv, TablesTyped, LinksResolve
<1>7. ASSUME NEW w \in Writers, NEW r \in Repos, NEW s \in Chunked[r], BeginSpans(w, r, s)
      PROVE  CInv'
  <2>1. s \in Rows /\ spans[r] \subseteq Rows
    BY Settings DEF CInv, TablesTyped
  <2>2. [to |-> r, with |-> s, seen |-> spans[r]] \in Busy
    BY <2>1 DEF Busy
  <2> QED BY <1>7, <2>2 DEF BeginSpans, CInv, TablesTyped, LinksResolve
<1>8. ASSUME Evict PROVE CInv'
  BY <1>8, DropKeeps DEF Evict
<1>9. ASSUME NEW e \in Trimmers, BeginTrim(e) \/ EndTrim(e) \/ AbortTrim(e) PROVE CInv'
  BY <1>9, <1>1 DEF BeginTrim, EndTrim, AbortTrim
<1>10. CASE UNCHANGED corpus
  BY <1>10, <1>1 DEF corpus
<1> QED
  BY <1>2, <1>3, <1>4, <1>5, <1>6, <1>7, <1>8, <1>9, <1>10 DEF CNext

(* A definition's span_id names a span of its repository or nothing, however *)
(* PutSpans, PutGraph, eviction and cleanup overlap.                         *)
THEOREM Links == CSpec => []LinksResolve
<1>1. CInv => LinksResolve
  BY DEF CInv
<1> QED BY <1>1, InitCInv, NextCInv, PTL DEF CSpec
-----------------------------------------------------------------------------
(* What is remembered of the evictions.                                     *)

LEMMA NewestIs ==
  ASSUME NEW S, NEW list \in Seq(S)
  PROVE  /\ Newest(list) \in Seq(S) /\ Begins(Newest(list), list)
         /\ Len(Newest(list)) <= KeepTombstones
         /\ \A a \in Seq(S) :
              Begins(a, list) /\ Len(a) <= KeepTombstones => Begins(a, Newest(list))
<1> DEFINE n == IF Len(list) < KeepTombstones THEN Len(list) ELSE KeepTombstones
<1>1. KeepTombstones \in Nat BY CorpusAssumption DEF CorpusAssumption
<1>2. n \in Nat /\ n <= Len(list) /\ n <= KeepTombstones /\ Len(list) \in Nat BY <1>1
<1>3. Newest(list) = SubSeq(list, 1, n) BY DEF Newest
<1>4. n = Len(list) \/ n = KeepTombstones OBVIOUS
<1> HIDE DEF n
<1>5. /\ SubSeq(list, 1, n) \in Seq(S) /\ Len(SubSeq(list, 1, n)) = n
      /\ \A i \in 1 .. n : SubSeq(list, 1, n)[i] = list[i]
  BY <1>2
<1>6. ASSUME NEW a \in Seq(S), Begins(a, list), Len(a) <= KeepTombstones
      PROVE  Begins(a, Newest(list))
  <2>1. Len(a) <= n /\ Len(a) \in Nat BY <1>4, <1>6 DEF Begins
  <2> QED BY <1>2, <1>3, <1>5, <1>6, <2>1 DEF Begins
<1> QED BY <1>2, <1>3, <1>5, <1>6 DEF Begins

-----------------------------------------------------------------------------
(* Tombstones.  The latest evictions are what evicted_repos begins with: an *)
(* eviction puts the same repositories at the head of both, and a trim that *)
(* is lost leaves a longer table that begins alike.                         *)
Ordered ==
  /\ lru \in Seq(Repos) /\ tombs \in Seq(Repos) /\ latest \in Seq(Repos)
  /\ Begins(latest, tombs) /\ Len(latest) <= KeepTombstones

(* What a trim has chosen is none of them, unless it was renewed since.     *)
Trims ==
  /\ trims \in [Trimmers -> SUBSET Repos] /\ renewed \in [Trimmers -> SUBSET Repos]
  /\ \A e \in Trimmers : renewed[e] \subseteq trims[e]
  /\ \A e \in Trimmers : trims[e] \cap Range(latest) \subseteq renewed[e]

EvInv == Ordered /\ Trims

LEMMA EvInit == CInit => EvInv
<1> SUFFICES ASSUME CInit PROVE EvInv
  OBVIOUS
<1>1. lru = <<>> /\ tombs = <<>> /\ latest = <<>> BY DEF CInit
<1>2. KeepTombstones \in Nat BY CorpusAssumption DEF CorpusAssumption
<1>3. \A s : s = <<>> => s \in Seq(Repos) /\ Len(s) = 0 OBVIOUS
<1>4. Ordered BY <1>1, <1>2, <1>3 DEF Ordered, Begins
<1>5. Trims BY DEF CInit, Trims
<1> QED BY <1>4, <1>5 DEF EvInv

LEMMA UsedTyped ==
  ASSUME EvInv, NEW r \in Repos
  PROVE  Used(r) \in Seq(Repos)
<1>1. Without(lru, {r}) \in Seq(Repos) BY WithoutTyped DEF EvInv, Ordered
<1> QED BY <1>1 DEF Used

LEMMA SurplusIsFinite ==
  ASSUME EvInv
  PROVE  Surplus \subseteq Repos /\ IsFiniteSet(Surplus)
<1> DEFINE P == {n \in DOMAIN lru : n > KeepRepos}
           f == [n \in P |-> lru[n]]
<1>1. lru \in Seq(Repos) /\ Len(lru) \in Nat /\ DOMAIN lru = 1 .. Len(lru)
  BY DEF EvInv, Ordered
<1>2. IsFiniteSet(P)
  <2>1. IsFiniteSet(1 .. Len(lru)) BY <1>1, FS_Interval
  <2>2. P \in SUBSET (1 .. Len(lru)) BY <1>1
  <2> QED BY <2>1, <2>2, FS_Subset
<1>3. f \in Surjection(P, Surplus) BY DEF Surjection, Surplus
<1>4. Surplus \subseteq Repos BY <1>1 DEF Surplus
<1>5. IsFiniteSet(Surplus)
  <2> HIDE DEF P, f
  <2> QED BY <1>2, <1>3, FS_Surjection
<1> QED BY <1>4, <1>5

LEMMA EvictKeeps == EvInv /\ Evict => EvInv'
<1> SUFFICES ASSUME EvInv, Evict PROVE EvInv'
  OBVIOUS
<1>1. PICK new \in Bijection(1 .. Cardinality(Surplus), Surplus) :
        tombs' = Buried(new, tombs) /\ latest' = Newest(new \o Without(latest, Surplus))
  BY DEF Evict
<1>2. Surplus \subseteq Repos /\ Cardinality(Surplus) \in Nat
  BY SurplusIsFinite, FS_CardinalityType
<1>3. new \in Seq(Surplus) /\ Range(new) = Surplus
  BY <1>2 DEF Bijection, Injection, Surjection, Range
<1>4. new \in Seq(Repos) BY <1>2, <1>3
<1> DEFINE kept == Without(latest, Surplus)
           left == Without(tombs, Surplus)
<1>5. kept \in Seq(Repos) /\ left \in Seq(Repos) BY WithoutTyped DEF EvInv, Ordered
<1>6. Begins(kept, left) BY WithoutBegins DEF EvInv, Ordered
<1>7. tombs' = new \o left BY <1>1, <1>3 DEF Buried
<1>8. latest' = Newest(new \o kept) BY <1>1
<1>9. Range(kept) \subseteq Range(latest)
  BY WithoutElements DEF EvInv, Ordered
<1> HIDE DEF kept, left
<1>10. new \o kept \in Seq(Repos) /\ new \o left \in Seq(Repos) BY <1>4, <1>5
<1>11. Begins(new \o kept, new \o left) BY <1>4, <1>5, <1>6, ConcatBegins
<1>12. /\ latest' \in Seq(Repos) /\ Begins(latest', new \o kept)
       /\ Len(latest') <= KeepTombstones
  BY <1>8, <1>10, NewestIs
<1>13. Begins(latest', tombs') BY <1>7, <1>10, <1>11, <1>12, BeginsTransitive
<1>14. lru' \in Seq(Repos) BY WithoutTyped DEF Evict, Drop, EvInv, Ordered
<1>15. Ordered' BY <1>7, <1>10, <1>12, <1>13, <1>14 DEF Ordered, Begins
<1>16. Range(latest') \subseteq Surplus \cup Range(latest)
  <2> SUFFICES ASSUME NEW i \in DOMAIN latest' PROVE latest'[i] \in Surplus \cup Range(latest)
    BY DEF Range
  <2>1. i \in 1 .. Len(new \o kept) /\ latest'[i] = (new \o kept)[i]
    BY <1>10, <1>12 DEF Begins
  <2>2. CASE i <= Len(new)
    <3>1. i \in DOMAIN new /\ (new \o kept)[i] = new[i] BY <1>4, <1>5, <2>1, <2>2
    <3> QED BY <1>3, <2>1, <3>1
  <2>3. CASE i > Len(new)
    <3> DEFINE k == i - Len(new)
    <3>1. k \in DOMAIN kept /\ (new \o kept)[i] = kept[k] BY <1>4, <1>5, <2>1, <2>3
    <3> QED BY <1>9, <2>1, <3>1 DEF Range
  <2>4. i <= Len(new) \/ i > Len(new) BY <1>4, <2>1
  <2> QED BY <2>2, <2>3, <2>4
<1>17. /\ trims' = trims
       /\ renewed' = [e \in Trimmers |-> renewed[e] \cup (trims[e] \cap Surplus)]
  BY DEF Evict
<1>18. Trims' BY <1>2, <1>16, <1>17 DEF EvInv, Trims
<1> QED BY <1>15, <1>18 DEF EvInv

(* A trim chooses what is behind the latest.                                *)
LEMMA BeginKeeps ==
  ASSUME EvInv, NEW e \in Trimmers, BeginTrim(e)
  PROVE  EvInv'
<1>1. /\ trims' = [trims EXCEPT ![e] = Range(tombs) \ Range(Newest(tombs))]
      /\ UNCHANGED <<lru, tombs, latest, renewed>> /\ trims[e] = {}
  BY DEF BeginTrim
<1>2. Range(latest) \subseteq Range(Newest(tombs))
  <2>1. Newest(tombs) \in Seq(Repos) /\ Begins(latest, Newest(tombs)) /\ latest \in Seq(Repos)
    BY NewestIs DEF EvInv, Ordered
  <2>2. ASSUME NEW i \in DOMAIN latest PROVE latest[i] \in Range(Newest(tombs))
    <3>1. i \in DOMAIN Newest(tombs) /\ latest[i] = Newest(tombs)[i] BY <2>1 DEF Begins
    <3> QED BY <3>1 DEF Range
  <2> QED BY <2>2 DEF Range
<1>3. Range(tombs) \subseteq Repos BY DEF EvInv, Ordered, Range
<1>4. Trims' BY <1>1, <1>2, <1>3 DEF EvInv, Trims
<1> QED BY <1>1, <1>4 DEF EvInv, Ordered, Begins

(* What it deletes is none of the latest but those renewed since.           *)
LEMMA EndKeeps ==
  ASSUME EvInv, NEW e \in Trimmers, EndTrim(e)
  PROVE  EvInv'
<1>1. /\ tombs' = Without(tombs, trims[e]) /\ latest' = Without(latest, renewed[e])
      /\ trims' = Rest(trims, e) /\ renewed' = Rest(renewed, e) /\ lru' = lru
  BY DEF EndTrim
<1>2. /\ lru \in Seq(Repos) /\ tombs \in Seq(Repos) /\ latest \in Seq(Repos)
      /\ Begins(latest, tombs) /\ Len(latest) <= KeepTombstones /\ Len(latest) \in Nat
  BY DEF EvInv, Ordered
<1>3. \A i \in 1 .. Len(latest) : latest[i] \in renewed[e] <=> latest[i] \in trims[e]
  BY <1>2 DEF EvInv, Trims, Range
<1>4. latest' = Without(latest, trims[e]) /\ Len(latest') <= Len(latest)
  BY <1>1, <1>2, <1>3, WithoutSame
<1>5. tombs' \in Seq(Repos) /\ latest' \in Seq(Repos)
  BY <1>1, <1>2, WithoutTyped
<1>6. Begins(latest', tombs')
  BY <1>1, <1>2, <1>4, WithoutBegins
<1>7. Len(latest') \in Nat BY <1>5
<1>8. KeepTombstones \in Nat BY CorpusAssumption DEF CorpusAssumption
<1>9. Ordered' BY <1>1, <1>2, <1>4, <1>5, <1>6, <1>7, <1>8 DEF Ordered, Begins
<1>10. Range(latest') = Range(latest) \ trims[e]
  BY <1>2, <1>4, WithoutElements
<1>11. Trims' BY <1>1, <1>10 DEF EvInv, Trims, Rest
<1> QED BY <1>9, <1>11 DEF EvInv

LEMMA EvStep == EvInv /\ [CNext]_corpus => EvInv'
<1> SUFFICES ASSUME EvInv, [CNext]_corpus PROVE EvInv'
  OBVIOUS
<1>1. ASSUME UNCHANGED <<tombs, latest, trims, renewed>>, lru' \in Seq(Repos) PROVE EvInv'
  BY <1>1 DEF EvInv, Ordered, Trims, Begins
<1>2. ASSUME NEW r \in Repos, PutRepo(r) \/ Touch(r) PROVE EvInv'
  BY <1>1, <1>2, UsedTyped DEF PutRepo, Touch, trimming, EvInv, Ordered
<1>3. ASSUME NEW r \in Repos, PutGraph(r) PROVE EvInv'
  BY <1>1, <1>3 DEF PutGraph, trimming, EvInv, Ordered
<1>4. ASSUME NEW r \in Repos, DeleteEmptyRepo(r) PROVE EvInv'
  BY <1>1, <1>4, WithoutTyped DEF DeleteEmptyRepo, Drop, trimming, EvInv, Ordered
<1>5. ASSUME NEW w \in Writers,
             \/ CommitSpans(w) \/ AbortSpans(w)
             \/ \E r \in Repos : \E s \in Chunked[r] : BeginSpans(w, r, s)
      PROVE  EvInv'
  BY <1>1, <1>5 DEF CommitSpans, AbortSpans, BeginSpans, trimming, EvInv, Ordered
<1>6. ASSUME NEW e \in Trimmers, BeginTrim(e) \/ EndTrim(e) \/ AbortTrim(e) PROVE EvInv'
  <2>1. CASE AbortTrim(e)
    <3>1. /\ trims' = [trims EXCEPT ![e] = {}] /\ renewed' = [renewed EXCEPT ![e] = {}]
          /\ UNCHANGED <<lru, tombs, latest>>
      BY <2>1 DEF AbortTrim
    <3>2. Trims' BY <3>1 DEF EvInv, Trims
    <3> QED BY <3>1, <3>2 DEF EvInv, Ordered, Begins
  <2> QED BY <1>6, <2>1, BeginKeeps, EndKeeps
<1>7. CASE UNCHANGED corpus
  BY <1>1, <1>7 DEF corpus, trimming, EvInv, Ordered
<1> QED BY <1>2, <1>3, <1>4, <1>5, <1>6, <1>7, EvictKeeps DEF CNext

(* The latest evictions, as many as are to be remembered, are remembered:   *)
(* whatever is indexed and evicted again, however many trims overlap or are *)
(* lost to a crash, save where a trim takes a tombstone renewed under it.   *)
THEOREM Tombstones == CSpec => []LatestRemembered
<1>1. EvInv => LatestRemembered
  <2> SUFFICES ASSUME EvInv, NEW i \in DOMAIN latest PROVE Remembered(latest[i])
    BY DEF LatestRemembered
  <2>1. /\ Len(latest) \in Nat /\ Len(tombs) \in Nat /\ DOMAIN latest = 1 .. Len(latest)
        /\ DOMAIN tombs = 1 .. Len(tombs)
    BY DEF EvInv, Ordered
  <2>2. i \in DOMAIN tombs /\ tombs[i] = latest[i] BY <2>1 DEF EvInv, Ordered, Begins
  <2> QED BY <2>2 DEF Remembered
<1> QED BY <1>1, EvInit, EvStep, PTL DEF CSpec

-----------------------------------------------------------------------------
LEMMA ReadSettings == Asked \subseteq Repos /\ EmbedModel \in Models
  BY ReadsAssumption DEF ReadsAssumption

-----------------------------------------------------------------------------
(* Requests only read the corpus and wind its clock.                       *)

LEMMA InitCorpus == RInit => CInit /\ RequestsTyped
  BY ReadSettings DEF RInit, RequestsTyped, Steps, Replies, Verdicts, Failing, Routes

LEMMA HandleCorpus ==
    ASSUME RequestsTyped, NEW q \in Requests, Handle(q)
    PROVE  [CNext]_corpus
<1>1. WindClock(repo[q]) => [CNext]_corpus
  BY DEF WindClock, RequestsTyped, CNext
<1>2. CASE Answer(q)
  BY <1>1, <1>2 DEF Answer
<1>3. CASE Answerer(q)
  BY <1>1, <1>3 DEF Answerer
<1>4. CASE ~Answer(q) /\ ~Answerer(q)
  <2>1. UNCHANGED corpus
    BY <1>4 DEF Handle, Arrive, Fail, GetRepo, RepoGone, ReadCounts, GetSpan, Symbol,
         Callers, Newer, Cite, Approximate, SpanEmbedder, VectorSearch, LexicalSearch
  <2> QED BY <2>1
<1> QED BY <1>2, <1>3, <1>4

LEMMA NextCorpus == RequestsTyped /\ [RNext]_rvars => [CNext]_corpus
  BY HandleCorpus DEF RNext, rvars

-----------------------------------------------------------------------------
(* Types.                                                                  *)

LEMMA WatchTyped ==
    ASSUME RequestsTyped, Watch
    PROVE  /\ saw' \in [Requests -> SUBSET {"held", "gone", "unknown"}]
           /\ rewritten' \in [Requests -> BOOLEAN]
<1>1. ASSUME NEW r PROVE Status(r)' \in {"held", "gone", "unknown"}
  BY DEF Status
<1> QED BY <1>1 DEF Watch, RequestsTyped

(* A handler changes nothing of another request.                           *)
LocalTo(q) ==
    /\ at' = [at EXCEPT ![q] = at'[q]] /\ reply' = [reply EXCEPT ![q] = reply'[q]]
    /\ link' = [link EXCEPT ![q] = link'[q]] /\ cites' = [cites EXCEPT ![q] = cites'[q]]
    /\ hits' = [hits EXCEPT ![q] = hits'[q]]
    /\ verdict' = [verdict EXCEPT ![q] = verdict'[q]] /\ by' = [by EXCEPT ![q] = by'[q]]
    /\ UNCHANGED asked

(* What a handler makes of its own request is well formed.                 *)
TypedFor(q) ==
    /\ at[q] \in Steps /\ reply[q] \in Replies
    /\ link[q] \in Ids \cup {"null", "no rows"}
    /\ cites[q] \subseteq Ids /\ hits[q] \subseteq Rows
    /\ verdict[q] \in Verdicts /\ by[q] \in {"none", "extractive", "llm"}

LEMMA ReplyLocal ==
    ASSUME RequestsTyped, NEW q \in Requests, NEW what \in Replies, Reply(q, what),
           UNCHANGED <<asked, verdict>>, by' = [by EXCEPT ![q] = by'[q]],
           by'[q] \in {"none", "extractive", "llm"}
    PROVE  LocalTo(q) /\ TypedFor(q)'
  BY DEF RequestsTyped, Reply, Goto, LocalTo, TypedFor, Steps, asked

LEMMA HandleLocal ==
    ASSUME RequestsTyped, CInv, NEW q \in Requests, Handle(q)
    PROVE  LocalTo(q) /\ TypedFor(q)'
<1>1. ASSUME NEW what \in Replies, Reply(q, what), UNCHANGED <<asked, verdict, by>>
      PROVE  LocalTo(q) /\ TypedFor(q)'
  <2>1. by' = [by EXCEPT ![q] = by'[q]] /\ by'[q] \in {"none", "extractive", "llm"}
    BY <1>1 DEF RequestsTyped
  <2> QED BY <1>1, <2>1, ReplyLocal
<1>2. ASSUME NEW step \in Steps, Goto(q, step), UNCHANGED request
      PROVE  LocalTo(q) /\ TypedFor(q)'
  BY <1>2 DEF RequestsTyped, Goto, LocalTo, TypedFor, request, locals, asked
<1>3. \A what \in {"bad request", "failed", "gone", "unknown", "no such", "broken",
                   "mismatch", "ok", "refused"} : what \in Replies
  BY DEF Replies
<1>4. ASSUME NEW step \in Steps, Goto(q, step), ReadRow(q), UNCHANGED <<asked, verdict, by>>
      PROVE  LocalTo(q) /\ TypedFor(q)'
  <2>1. linked[repo[q]] \in Ids \cup {"null", "no rows"}
    BY DEF RequestsTyped, CInv, TablesTyped
  <2> QED BY <2>1, <1>4 DEF RequestsTyped, Goto, ReadRow, LocalTo, TypedFor, asked
<1>5. CASE Arrive(q)
  BY <1>1, <1>2, <1>3, <1>5 DEF Arrive, request, Steps, Failing
<1>6. CASE Fail(q) \/ RepoGone(q)
  BY <1>1, <1>3, <1>6 DEF Fail, RepoGone
<1>7. CASE GetRepo(q) \/ ReadCounts(q) \/ Newer(q)
  BY <1>2, <1>7 DEF GetRepo, ReadCounts, Newer, Steps, Failing
<1>8. CASE GetSpan(q)
  BY <1>1, <1>2, <1>3, <1>8 DEF GetSpan, request, Steps, Failing
<1>9. CASE Symbol(q) \/ Callers(q)
  BY <1>1, <1>3, <1>4, <1>9 DEF Symbol, Callers, Steps, Failing
<1>10. CASE Cite(q)
  <2>1. CASE Reply(q, "broken")
    BY <2>1, <1>1, <1>3, <1>10 DEF Cite
  <2>2. CASE ~Reply(q, "broken")
    <3>1. PICK step \in {"approximate", "answer"} : Goto(q, step)
      BY <2>2, <1>10 DEF Cite
    <3>2. /\ cites' = [cites EXCEPT ![q] = @ \cup ({link[q]} \cap Ids)]
          /\ link' = [link EXCEPT ![q] = "null"]
          /\ UNCHANGED <<hits, reply, asked, verdict, by>>
      BY <2>2, <1>10 DEF Cite
    <3>3. cites'[q] \subseteq Ids
      BY <3>2 DEF RequestsTyped
    <3> QED BY <3>1, <3>2, <3>3 DEF RequestsTyped, Goto, LocalTo, TypedFor, asked, Steps
  <2> QED BY <2>1, <2>2
<1>11. CASE Approximate(q)
  BY <1>2, <1>4, <1>11 DEF Approximate, request, Steps, Failing
<1>12. ASSUME NEW v \in Verdicts, Decided(q, v), UNCHANGED <<asked, locals, reply, by>>
       PROVE  LocalTo(q) /\ TypedFor(q)'
  BY <1>12 DEF RequestsTyped, Decided, Goto, LocalTo, TypedFor, locals, asked, Steps, Failing
<1>13. CASE SpanEmbedder(q)
  BY <1>1, <1>2, <1>3, <1>12, <1>13 DEF SpanEmbedder, request, Steps, Failing, Verdicts
<1>14. CASE VectorSearch(q)
  <2>1. spans[repo[q]] \subseteq Rows
    BY DEF RequestsTyped, CInv, TablesTyped
  <2> QED BY <2>1, <1>14 DEF VectorSearch, RequestsTyped, Goto, LocalTo, TypedFor, asked,
               Steps, Failing
<1>15. CASE LexicalSearch(q)
  <2>1. \A v, l : Decide(v, l) \subseteq Verdicts
    BY DEF Decide, Verdicts
  <2>2. PICK v \in Verdicts : Decided(q, v)
    BY <2>1, <1>15 DEF LexicalSearch
  <2>3. /\ hits' = [hits EXCEPT ![q] = {}]
        /\ UNCHANGED <<asked, link, cites, reply, by>>
    BY <1>15 DEF LexicalSearch
  <2> QED BY <2>2, <2>3 DEF RequestsTyped, Decided, Goto, LocalTo, TypedFor, asked, Steps,
            Failing
<1>16. CASE Answerer(q)
  <2>1. by' = [by EXCEPT ![q] = by'[q]] /\ by'[q] \in {"extractive", "llm"}
    BY <1>16 DEF Answerer, RequestsTyped
  <2>2. CASE Reply(q, "refused")
    BY <2>1, <2>2, <1>16, <1>3, ReplyLocal DEF Answerer
  <2>3. CASE ~Reply(q, "refused")
    <3>1. Goto(q, "newer") /\ UNCHANGED <<locals, reply, asked, verdict>>
      BY <2>3, <1>16 DEF Answerer
    <3> QED BY <2>1, <3>1 DEF RequestsTyped, Goto, LocalTo, TypedFor, locals, asked, Steps,
              Failing
  <2> QED BY <2>2, <2>3
<1>17. CASE Answer(q)
  BY <1>1, <1>3, <1>17 DEF Answer
<1> QED
  BY <1>5, <1>6, <1>7, <1>8, <1>9, <1>10, <1>11, <1>13, <1>14, <1>15, <1>16, <1>17 DEF Handle

RInv == RequestsTyped /\ CInv

LEMMA NextRInv == RInv /\ [RNext]_rvars => RInv'
<1> SUFFICES ASSUME RInv, [RNext]_rvars PROVE RInv'
  OBVIOUS
<1>1. CInv'
  BY NextCorpus, NextCInv DEF RInv
<1>2. CASE UNCHANGED rvars
  BY <1>1, <1>2 DEF RInv, RequestsTyped, rvars, request, locals, asked
<1>3. CASE RNext
  <2>1. /\ saw' \in [Requests -> SUBSET {"held", "gone", "unknown"}]
        /\ rewritten' \in [Requests -> BOOLEAN]
    BY <1>3, WatchTyped DEF RNext, RInv
  <2>2. CASE UNCHANGED <<at, request>>
    BY <1>1, <2>1, <2>2 DEF RInv, RequestsTyped, request, locals, asked
  <2>3. ASSUME NEW q \in Requests, Handle(q) PROVE RInv'
    <3>1. LocalTo(q) /\ TypedFor(q)'
      BY <2>3, HandleLocal DEF RInv
    <3> QED BY <1>1, <2>1, <3>1 DEF RInv, RequestsTyped, LocalTo, TypedFor, asked
  <2> QED BY <1>3, <2>2, <2>3 DEF RNext
<1> QED BY <1>2, <1>3

LEMMA Always == RSpec => []RInv
<1>1. RInit => RInv
  BY InitCorpus, InitCInv DEF RInv
<1> QED BY <1>1, NextRInv, PTL DEF RSpec

(* Requests only read the corpus and wind its clock: whatever holds of the *)
(* corpus alone holds of the corpus under any number of readers.           *)
THEOREM ReadersAreHarmless == RSpec => CSpec
<1>1. RInit => CInit
  BY InitCorpus
<1>2. RInv /\ [RNext]_rvars => [CNext]_corpus
  BY NextCorpus DEF RInv
<1> QED BY <1>1, <1>2, Always, PTL DEF RSpec, CSpec

-----------------------------------------------------------------------------
(* An observer forgets nothing, and sees what becomes of the repository of *)
(* every request that is open.                                             *)

LEMMA Watching ==
    ASSUME RequestsTyped, Watch, UNCHANGED asked, NEW p \in Requests
    PROVE  /\ saw[p] \subseteq saw'[p] /\ (rewritten[p] => rewritten'[p])
           /\ Open(p) \/ Open(p)' => Status(repo[p])' \in saw'[p]
           /\ Open(p) /\ spans'[repo[p]] # spans[repo[p]] => rewritten'[p]
  BY DEF RequestsTyped, Watch, asked

(* The other requests during a handler's step, and all of them during a    *)
(* writer's.                                                               *)
Still(p) ==
    /\ at'[p] = at[p] /\ reply'[p] = reply[p] /\ link'[p] = link[p]
    /\ cites'[p] = cites[p] /\ hits'[p] = hits[p] /\ verdict'[p] = verdict[p]
    /\ by'[p] = by[p] /\ UNCHANGED asked

LEMMA OneAtATime ==
    ASSUME RInv, RNext, NEW p \in Requests
    PROVE  UNCHANGED asked /\ Watch /\ (Still(p) \/ Handle(p))
<1>1. CASE UNCHANGED <<at, request>>
  BY <1>1 DEF RNext, Still, request, locals, asked
<1>2. ASSUME NEW q \in Requests, Handle(q), p # q PROVE Still(p) /\ UNCHANGED asked
  <2>1. LocalTo(q)
    BY <1>2, HandleLocal DEF RInv
  <2> QED BY <2>1, <1>2 DEF LocalTo, Still, RInv, RequestsTyped
<1>3. CASE Handle(p)
  BY <1>3, HandleLocal DEF RNext, RInv, LocalTo
<1> QED BY <1>1, <1>2, <1>3 DEF RNext

-----------------------------------------------------------------------------
(* What a reply says of the repository.                                    *)

TrueReply(q) ==
    /\ reply[q] = "gone" => "gone" \in saw[q]
    /\ reply[q] \in {"ok", "refused", "no such", "mismatch", "broken"} => "held" \in saw[q]
    /\ reply[q] = "unknown" => "unknown" \in saw[q] \/ {"gone", "held"} \subseteq saw[q]

Looking == {"idle", "lookup", "missing", "replied"}

Told(q) ==
    /\ Open(q) => Status(repo[q]) \in saw[q]
    /\ at[q] \notin Looking => "held" \in saw[q]
    /\ at[q] = "missing" => "unknown" \in saw[q] \/ "gone" \in saw[q]
    /\ reply[q] # "none" => at[q] = "replied"
    /\ TrueReply(q)

(* A handler looks its repository up, tells what it found, and speaks as   *)
(* of a held one only past that.                                           *)
Says(q) ==
    \/ at[q] = "idle" /\ at'[q] = "lookup" /\ reply'[q] = reply[q]
    \/ at'[q] = "replied" /\ reply'[q] \in {"bad request", "failed"}
    \/ /\ at[q] = "lookup" /\ reply'[q] = reply[q]
       /\ at'[q] = IF Status(repo[q]) = "held" THEN "read" ELSE "missing"
    \/ /\ at[q] = "missing" /\ at'[q] = "replied"
       /\ reply'[q] = IF Status(repo[q]) = "gone" THEN "gone" ELSE "unknown"
    \/ at[q] \notin Looking /\ at'[q] \notin Looking /\ reply'[q] = reply[q]
    \/ /\ at[q] \notin Looking /\ at'[q] = "replied"
       /\ reply'[q] \in {"ok", "refused", "no such", "mismatch", "broken"}

LEMMA HandleSays ==
    ASSUME RequestsTyped, NEW q \in Requests, Handle(q)
    PROVE  Says(q) /\ at[q] # "replied"
<1>1. ASSUME NEW what, Reply(q, what) PROVE at'[q] = "replied" /\ reply'[q] = what
  BY <1>1 DEF Reply, Goto, RequestsTyped
<1>2. ASSUME NEW step, Goto(q, step) PROVE at'[q] = step
  BY <1>2 DEF Goto, RequestsTyped
<1>3. CASE Arrive(q)
  BY <1>1, <1>2, <1>3 DEF Arrive, Says
<1>4. CASE Fail(q)
  BY <1>1, <1>4 DEF Fail, Says, Failing
<1>5. CASE GetRepo(q)
  <2>1. Held(repo[q]) <=> Status(repo[q]) = "held"
    BY DEF Status
  <2> QED BY <2>1, <1>2, <1>5 DEF GetRepo, Says, request
<1>6. CASE RepoGone(q)
  BY <1>1, <1>6 DEF RepoGone, Says
<1>7. CASE ReadCounts(q) \/ Newer(q)
  BY <1>2, <1>7 DEF ReadCounts, Newer, Says, Looking, request
<1>8. CASE GetSpan(q)
  BY <1>1, <1>2, <1>8 DEF GetSpan, Says, Looking
<1>9. CASE Symbol(q) \/ Callers(q)
  BY <1>1, <1>2, <1>9 DEF Symbol, Callers, ReadRow, Says, Looking
<1>10. CASE Cite(q)
  BY <1>1, <1>2, <1>10 DEF Cite, Says, Looking
<1>11. CASE Approximate(q)
  BY <1>2, <1>11 DEF Approximate, ReadRow, Says, Looking
<1>12. CASE SpanEmbedder(q)
  BY <1>1, <1>2, <1>12 DEF SpanEmbedder, Decided, Says, Looking
<1>13. CASE VectorSearch(q) \/ LexicalSearch(q)
  BY <1>2, <1>13 DEF VectorSearch, LexicalSearch, Decided, Says, Looking
<1>14. CASE Answerer(q)
  BY <1>1, <1>2, <1>14 DEF Answerer, Says, Looking
<1>15. CASE Answer(q)
  BY <1>1, <1>15 DEF Answer, Says, Looking
<1> QED
  BY <1>3, <1>4, <1>5, <1>6, <1>7, <1>8, <1>9, <1>10, <1>11, <1>12, <1>13, <1>14, <1>15
  DEF Handle

LEMMA NextTold ==
    ASSUME RInv, RNext, NEW p \in Requests, Told(p)
    PROVE  Told(p)'
<1>1. Watch /\ UNCHANGED asked /\ (Still(p) \/ Handle(p))
  BY OneAtATime
<1>2. /\ saw[p] \subseteq saw'[p]
      /\ Open(p) \/ Open(p)' => Status(repo[p])' \in saw'[p]
  BY <1>1, Watching DEF RInv
<1>3. CASE Still(p)
  BY <1>2, <1>3 DEF Still, Told, TrueReply, Open
<1>4. CASE Handle(p)
  <2>1. Says(p) /\ at[p] # "replied" /\ reply[p] = "none"
    BY <1>4, HandleSays DEF RInv, Told
  <2>2. Open(p)' => Status(repo[p])' \in saw'[p]
    BY <1>2
  <2>3. at[p] \in {"lookup", "missing"} => Status(repo[p]) \in saw'[p]
    BY <1>2 DEF Told, Open
  <2>4. Status(repo[p]) \in {"held", "gone", "unknown"}
    BY DEF Status
  <2>5. at[p] = "missing" => "unknown" \in saw'[p] \/ "gone" \in saw'[p]
    BY <1>2 DEF Told
  <2>6. at[p] \notin Looking => "held" \in saw'[p]
    BY <1>2 DEF Told
  <2> QED BY <2>1, <2>2, <2>3, <2>4, <2>5, <2>6 DEF Says, Told, TrueReply, Looking
<1> QED BY <1>1, <1>3, <1>4

(* What a reply says of the repository was so at some point of the request,  *)
(* however it is evicted, indexed again and forgotten meanwhile.             *)
THEOREM HonestReplies == RSpec => []RepliesWereTrue
<1> DEFINE TInv == \A q \in Requests : Told(q)
<1>1. RInit => TInv
  BY DEF RInit, Told, TrueReply, Open, Looking
<1>2. TInv /\ RInv /\ [RNext]_rvars => TInv'
  <2> SUFFICES ASSUME TInv, RInv, [RNext]_rvars, NEW p \in Requests PROVE Told(p)'
    OBVIOUS
  <2>1. CASE UNCHANGED rvars
    <3>1. UNCHANGED <<lru, tombs, at, repo, reply, saw>>
      BY <2>1 DEF rvars, corpus, request, asked
    <3>2. Status(repo[p])' = Status(repo[p])
      BY <3>1 DEF Status, Held, Remembered
    <3>3. Told(p)
      OBVIOUS
    <3> QED BY <3>1, <3>2, <3>3 DEF Told, TrueReply, Open
  <2>2. CASE RNext
    BY <2>2, NextTold
  <2> QED BY <2>1, <2>2
<1>3. TInv => RepliesWereTrue
  BY DEF Told, TrueReply, RepliesWereTrue
<1> QED BY <1>1, <1>2, <1>3, Always, PTL DEF RSpec

-----------------------------------------------------------------------------
(* Ranking.                                                                *)

Own(rows) == \A s \in rows : s.model = EmbedModel

Ranked(q) ==
    /\ at[q] = "vector" => Own(spans[repo[q]]) \/ rewritten[q]
    /\ Own(hits[q]) \/ rewritten[q]

(* Only VectorSearch finds, and only SpanEmbedder lets it search.          *)
Finds(q) ==
    /\ at'[q] = "vector" => Own(spans[repo[q]])
    /\ \/ hits'[q] = {} \/ hits'[q] = hits[q]
       \/ at[q] = "vector" /\ hits'[q] = spans[repo[q]]

LEMMA HandleFinds ==
    ASSUME RequestsTyped, NEW q \in Requests, Handle(q)
    PROVE  Finds(q)
<1>1. ASSUME NEW what, Reply(q, what) PROVE at'[q] = "replied" /\ hits'[q] = {}
  BY <1>1 DEF Reply, Goto, RequestsTyped
<1>2. ASSUME NEW step, Goto(q, step) PROVE at'[q] = step
  BY <1>2 DEF Goto, RequestsTyped
<1>3. CASE Arrive(q) \/ Fail(q) \/ GetRepo(q) \/ RepoGone(q)
  BY <1>1, <1>2, <1>3 DEF Arrive, Fail, GetRepo, RepoGone, Finds, request, locals
<1>4. CASE ReadCounts(q) \/ Newer(q) \/ GetSpan(q)
  BY <1>1, <1>2, <1>4 DEF ReadCounts, Newer, GetSpan, Finds, request, locals
<1>5. CASE Symbol(q) \/ Callers(q) \/ Cite(q) \/ Approximate(q)
  BY <1>1, <1>2, <1>5 DEF Symbol, Callers, Cite, Approximate, ReadRow, Finds, locals
<1>6. CASE SpanEmbedder(q)
  BY <1>1, <1>2, <1>6 DEF SpanEmbedder, SameModel, Own, Decided, Finds, locals
<1>7. CASE VectorSearch(q)
  BY <1>2, <1>7 DEF VectorSearch, Finds, RequestsTyped
<1>8. CASE LexicalSearch(q)
  BY <1>2, <1>8 DEF LexicalSearch, Decided, Finds, locals
<1>9. CASE Answerer(q) \/ Answer(q)
  BY <1>1, <1>2, <1>9 DEF Answerer, Answer, Finds, locals
<1> QED BY <1>3, <1>4, <1>5, <1>6, <1>7, <1>8, <1>9 DEF Handle

LEMMA NextRanked ==
    ASSUME RInv, RNext, NEW p \in Requests, Ranked(p)
    PROVE  Ranked(p)'
<1>1. Watch /\ UNCHANGED asked /\ (Still(p) \/ Handle(p))
  BY OneAtATime
<1>2. /\ rewritten[p] => rewritten'[p]
      /\ Open(p) /\ spans'[repo[p]] # spans[repo[p]] => rewritten'[p]
  BY <1>1, Watching DEF RInv
<1>3. repo'[p] = repo[p]
  BY <1>1 DEF asked
<1>4. CASE Still(p)
  BY <1>2, <1>3, <1>4 DEF Still, Ranked, Open, Own
<1>5. CASE Handle(p)
  <2>1. Finds(p) /\ at[p] # "replied"
    BY <1>5, HandleFinds, HandleSays DEF RInv
  <2>2. spans' = spans
    BY <1>5 DEF Handle, Arrive, Fail, GetRepo, RepoGone, ReadCounts, GetSpan, Symbol, Callers,
         Newer, Cite, Approximate, SpanEmbedder, VectorSearch, LexicalSearch, Answerer, Answer,
         WindClock, Touch, corpus
  <2> QED BY <1>2, <1>3, <2>1, <2>2 DEF Finds, Ranked, Own
<1> QED BY <1>1, <1>4, <1>5

(* The question's vector is compared only with vectors of its own model,     *)
(* unless spans are replaced between SpanEmbedder and VectorSearch.          *)
THEOREM OneVectorSpace == RSpec => []RankedAsEmbedded
<1> DEFINE KInv == \A q \in Requests : Ranked(q)
<1>1. RInit => KInv
  BY DEF RInit, Ranked, Own
<1>2. KInv /\ RInv /\ [RNext]_rvars => KInv'
  <2> SUFFICES ASSUME KInv, RInv, [RNext]_rvars, NEW p \in Requests PROVE Ranked(p)'
    OBVIOUS
  <2>1. CASE UNCHANGED rvars
    BY <2>1 DEF rvars, corpus, request, asked, locals, Ranked, Own
  <2>2. CASE RNext
    BY <2>2, NextRanked
  <2> QED BY <2>1, <2>2
<1>3. KInv => RankedAsEmbedded
  BY DEF Ranked, RankedAsEmbedded, Own
<1> QED BY <1>1, <1>2, <1>3, Always, PTL DEF RSpec

-----------------------------------------------------------------------------
(* Citations of definitions.                                               *)

Citable(q) ==
    /\ link[q] \in Ids => \/ link[q] \in cites[q] \cup IdsOf(spans[repo[q]])
                          \/ rewritten[q]
    /\ ~Open(q) => link[q] = "null"
    /\ reply[q] = "broken" => rewritten[q]

(* A link is read from a row, which names a span or nothing, and is        *)
(* forgotten with the request; only a dangling one is called broken.       *)
LinkRead(q) ==
    /\ \/ link'[q] = "null"
       \/ link'[q] = linked[repo[q]]
       \/ link'[q] = link[q] /\ cites[q] \subseteq cites'[q]
    /\ at'[q] = "replied" => link'[q] = "null"
    /\ at'[q] # "idle"
    /\ \/ reply'[q] = reply[q] \/ reply'[q] # "broken"
       \/ link[q] \in Ids /\ link[q] \notin cites[q] \cup IdsOf(spans[repo[q]])

LEMMA HandleLinks ==
    ASSUME RequestsTyped, NEW q \in Requests, Handle(q)
    PROVE  LinkRead(q)
<1>1. ASSUME NEW what, Reply(q, what)
      PROVE  at'[q] = "replied" /\ link'[q] = "null" /\ reply'[q] = what
  BY <1>1 DEF Reply, Goto, RequestsTyped
<1>2. ASSUME NEW what, Reply(q, what), what # "broken" PROVE LinkRead(q)
  BY <1>1, <1>2 DEF LinkRead
<1>3. ASSUME NEW step, Goto(q, step), step \notin {"idle", "replied"},
             UNCHANGED <<link, cites, reply>>
      PROVE  LinkRead(q)
  <2>1. at'[q] = step
    BY <1>3 DEF Goto, RequestsTyped
  <2> QED BY <2>1, <1>3 DEF LinkRead
<1>4. ASSUME NEW step, Goto(q, step), step \notin {"idle", "replied"}, ReadRow(q)
      PROVE  LinkRead(q)
  <2>1. at'[q] = step
    BY <1>4 DEF Goto, RequestsTyped
  <2>2. link'[q] \in {linked[repo[q]], "null"} /\ reply' = reply
    BY <1>4 DEF ReadRow, RequestsTyped
  <2> QED BY <2>1, <2>2, <1>4 DEF LinkRead
<1>5. CASE Arrive(q) \/ Fail(q)
  BY <1>2, <1>3, <1>5 DEF Arrive, Fail, locals
<1>6. CASE GetRepo(q) \/ RepoGone(q)
  BY <1>2, <1>3, <1>6 DEF GetRepo, RepoGone, request, locals
<1>7. CASE ReadCounts(q) \/ Newer(q)
  BY <1>3, <1>7 DEF ReadCounts, Newer, request, locals
<1>8. CASE GetSpan(q)
  BY <1>2, <1>3, <1>8 DEF GetSpan, locals
<1>9. CASE Symbol(q) \/ Callers(q)
  BY <1>2, <1>4, <1>9 DEF Symbol, Callers
<1>10. CASE Approximate(q)
  BY <1>3, <1>4, <1>10 DEF Approximate, locals
<1>11. CASE Cite(q)
  <2>1. CASE Reply(q, "broken")
    <3>1. link[q] \in Ids /\ link[q] \notin cites[q] \cup IdsOf(spans[repo[q]])
      <4>1. link[q] \in {"null", "no rows"} \cup cites[q] \cup IdsOf(spans[repo[q]])
              => at'[q] # "replied"
        BY <1>11 DEF Cite, Goto, RequestsTyped
      <4> QED BY <2>1, <1>1, <4>1 DEF RequestsTyped
    <3> QED BY <2>1, <3>1, <1>1 DEF LinkRead
  <2>2. CASE ~Reply(q, "broken")
    <3>1. PICK step \in {"approximate", "answer"} : Goto(q, step)
      BY <2>2, <1>11 DEF Cite
    <3>2. reply' = reply /\ link'[q] = "null"
      BY <2>2, <1>11 DEF Cite, RequestsTyped
    <3>3. at'[q] = step
      BY <3>1 DEF Goto, RequestsTyped
    <3> QED BY <3>1, <3>2, <3>3 DEF LinkRead
  <2> QED BY <2>1, <2>2
<1>12. CASE SpanEmbedder(q)
  BY <1>2, <1>3, <1>12 DEF SpanEmbedder, Decided, locals
<1>13. CASE VectorSearch(q) \/ LexicalSearch(q)
  BY <1>3, <1>13 DEF VectorSearch, LexicalSearch, Decided, locals
<1>14. CASE Answerer(q) \/ Answer(q)
  BY <1>2, <1>3, <1>14 DEF Answerer, Answer, locals
<1> QED
  BY <1>5, <1>6, <1>7, <1>8, <1>9, <1>10, <1>11, <1>12, <1>13, <1>14 DEF Handle

LEMMA NextCitable ==
    ASSUME RInv, RNext, NEW p \in Requests, Citable(p)
    PROVE  Citable(p)'
<1>1. Watch /\ UNCHANGED asked /\ (Still(p) \/ Handle(p))
  BY OneAtATime
<1>2. /\ rewritten[p] => rewritten'[p]
      /\ Open(p) /\ spans'[repo[p]] # spans[repo[p]] => rewritten'[p]
  BY <1>1, Watching DEF RInv
<1>3. repo'[p] = repo[p]
  BY <1>1 DEF asked
<1>4. CASE Still(p)
  <2>1. Open(p) => IdsOf(spans[repo[p]])' = IdsOf(spans[repo[p]]) \/ rewritten'[p]
    BY <1>2, <1>3 DEF IdsOf
  <2>2. ~Open(p) => link[p] \notin Ids
    BY Settings DEF Citable
  <2> QED BY <1>2, <1>3, <1>4, <2>1, <2>2 DEF Still, Citable, Open
<1>5. CASE Handle(p)
  <2>1. LinkRead(p)
    BY <1>5, HandleLinks DEF RInv
  <2>2. spans' = spans
    BY <1>5 DEF Handle, Arrive, Fail, GetRepo, RepoGone, ReadCounts, GetSpan, Symbol, Callers,
         Newer, Cite, Approximate, SpanEmbedder, VectorSearch, LexicalSearch, Answerer, Answer,
         WindClock, Touch, corpus
  <2>3. IdsOf(spans[repo[p]])' = IdsOf(spans[repo[p]])
    BY <2>2, <1>3 DEF IdsOf
  <2>4. linked[repo[p]] \in Ids => linked[repo[p]] \in IdsOf(spans[repo[p]])
    BY DEF RInv, CInv, LinksResolve, RequestsTyped
  <2>5. ~Open(p)' => link'[p] = "null"
    BY <2>1 DEF LinkRead, Open
  <2>6. reply'[p] = "broken" => rewritten'[p]
    BY <2>1, <1>2 DEF LinkRead, Citable
  <2>7. link'[p] \in Ids => link'[p] \in cites'[p] \cup IdsOf(spans[repo[p]])' \/ rewritten'[p]
    BY <2>1, <2>3, <2>4, <1>2, Settings DEF LinkRead, Citable
  <2> QED BY <2>5, <2>6, <2>7 DEF Citable
<1> QED BY <1>1, <1>4, <1>5

(* The handlers' "broken invariant" is never the corpus's: a span_id that a  *)
(* request read and cannot cite was rewritten under it.                      *)
THEOREM CorpusIsNotBroken == RSpec => []BrokenMeansRewritten
<1> DEFINE BInv == \A q \in Requests : Citable(q)
<1>1. RInit => BInv
  <2> SUFFICES ASSUME RInit, NEW p \in Requests PROVE Citable(p)
    OBVIOUS
  <2>1. link[p] = "null" /\ reply[p] = "none"
    BY DEF RInit
  <2>2. link[p] \notin Ids /\ reply[p] # "broken"
    BY <2>1, Settings
  <2> QED BY <2>1, <2>2 DEF Citable
<1>2. BInv /\ RInv /\ [RNext]_rvars => BInv'
  <2> SUFFICES ASSUME BInv, RInv, [RNext]_rvars, NEW p \in Requests PROVE Citable(p)'
    OBVIOUS
  <2>1. CASE UNCHANGED rvars
    <3>1. UNCHANGED <<spans, at, repo, reply, link, cites, rewritten>>
      BY <2>1 DEF rvars, corpus, request, asked, locals
    <3>2. IdsOf(spans[repo[p]])' = IdsOf(spans[repo[p]])
      BY <3>1 DEF IdsOf
    <3> QED BY <3>1, <3>2 DEF Citable, Open
  <2>2. CASE RNext
    BY <2>2, NextCitable
  <2> QED BY <2>1, <2>2
<1>3. BInv => BrokenMeansRewritten
  BY DEF Citable, BrokenMeansRewritten
<1> QED BY <1>1, <1>2, <1>3, Always, PTL DEF RSpec
-----------------------------------------------------------------------------
(* Refusals.                                                               *)

MayAnswer(q) == \/ verdict[q] = "answered"
                \/ verdict[q] = "below_floor" /\ BelowFloor /\ by[q] = "llm"

Grounded(q) ==
    /\ at[q] \in {"callers", "cite", "approximate", "cite approximate"} => route[q] # "ask"
    /\ route[q] = "ask" /\ at[q] \in {"newer", "answer"} => MayAnswer(q)
    /\ reply[q] # "none" => at[q] = "replied"
    /\ route[q] = "ask" /\ reply[q] = "ok" => MayAnswer(q)
    /\ reply[q] = "refused" => verdict[q] # "answered"

LEMMA HandleGrounded ==
    ASSUME RequestsTyped, NEW q \in Requests, Handle(q), Grounded(q), UNCHANGED asked
    PROVE  Grounded(q)'
<1>1. at[q] # "replied" /\ reply[q] = "none" /\ route'[q] = route[q]
  BY HandleSays DEF Grounded, asked
<1>2. ASSUME NEW what \in {"bad request", "failed", "gone", "unknown", "no such", "broken",
                           "mismatch"}, Reply(q, what)
      PROVE  Grounded(q)'
  <2>1. at'[q] = "replied" /\ reply'[q] = what
    BY <1>2 DEF Reply, Goto, RequestsTyped
  <2> QED BY <2>1, <1>2 DEF Grounded
<1>3. ASSUME NEW step, Goto(q, step), UNCHANGED reply,
             step \notin {"callers", "cite", "approximate", "cite approximate"}
                \/ route[q] # "ask",
             step \notin {"newer", "answer"} \/ route[q] # "ask"
      PROVE  Grounded(q)'
  <2>1. at'[q] = step /\ reply'[q] = "none"
    BY <1>1, <1>3 DEF Goto, RequestsTyped
  <2> QED BY <1>1, <1>3, <2>1 DEF Grounded
<1>4. CASE Arrive(q) \/ Fail(q)
  BY <1>2, <1>3, <1>4 DEF Arrive, Fail
<1>5. CASE GetRepo(q) \/ RepoGone(q)
  BY <1>2, <1>3, <1>5 DEF GetRepo, RepoGone, request
<1>6. CASE ReadCounts(q)
  BY <1>3, <1>6 DEF ReadCounts, request
<1>7. CASE GetSpan(q)
  BY <1>2, <1>3, <1>7 DEF GetSpan
<1>8. CASE Symbol(q)
  BY <1>2, <1>3, <1>8 DEF Symbol, ReadRow
<1>9. CASE Callers(q) \/ Approximate(q)
  BY <1>3, <1>9 DEF Callers, Approximate, ReadRow, Grounded
<1>10. CASE Cite(q)
  <2>1. route[q] # "ask"
    BY <1>10 DEF Cite, Grounded
  <2> QED BY <1>2, <1>3, <1>10, <2>1 DEF Cite
<1>11. CASE SpanEmbedder(q)
  BY <1>2, <1>3, <1>11 DEF SpanEmbedder, Decided
<1>12. CASE VectorSearch(q) \/ LexicalSearch(q)
  BY <1>3, <1>12 DEF VectorSearch, LexicalSearch, Decided, locals
<1>13. CASE Answerer(q)
  <2>1. CASE Reply(q, "refused")
    <3>1. at'[q] = "replied" /\ reply'[q] = "refused"
      BY <2>1 DEF Reply, Goto, RequestsTyped
    <3>2. verdict[q] # "answered" /\ verdict' = verdict
      BY <3>1, <1>1, <1>13 DEF Answerer, locals, Goto, RequestsTyped
    <3> QED BY <3>1, <3>2 DEF Grounded
  <2>2. CASE ~Reply(q, "refused")
    <3>1. Goto(q, "newer") /\ UNCHANGED <<reply, verdict>>
      BY <2>2, <1>13 DEF Answerer, locals
    <3>2. \/ verdict[q] = "answered"
          \/ verdict[q] = "below_floor" /\ BelowFloor /\ by'[q] = "llm"
      BY <2>2, <1>13 DEF Answerer, TryLoop, RequestsTyped
    <3>3. at'[q] = "newer"
      BY <3>1 DEF Goto, RequestsTyped
    <3> QED BY <1>1, <3>1, <3>2, <3>3 DEF Grounded, MayAnswer
  <2> QED BY <2>1, <2>2
<1>14. CASE Newer(q)
  <2>1. /\ at[q] = "newer" /\ at'[q] = IF route[q] \in {"symbol", "callers"} THEN "cite" ELSE "answer"
        /\ UNCHANGED <<reply, verdict, by>>
    BY <1>14 DEF Newer, Goto, RequestsTyped, request
  <2> QED BY <1>1, <2>1 DEF Grounded, MayAnswer
<1>15. CASE Answer(q)
  <2>1. /\ at[q] = "answer" /\ at'[q] = "replied" /\ reply'[q] = "ok"
        /\ UNCHANGED <<verdict, by>>
    BY <1>15 DEF Answer, Reply, Goto, RequestsTyped
  <2> QED BY <1>1, <2>1 DEF Grounded, MayAnswer
<1> QED
  BY <1>4, <1>5, <1>6, <1>7, <1>8, <1>9, <1>10, <1>11, <1>12, <1>13, <1>14, <1>15 DEF Handle

(* Grounded or refused: only what Decide answered is answered, and below the *)
(* floor only by a loop that LLM_BELOW_FLOOR lets try.                       *)
THEOREM NothingUngrounded == RSpec => []GroundedOrRefused
<1> DEFINE GInv == \A q \in Requests : Grounded(q)
<1>1. RInit => GInv
  BY DEF RInit, Grounded
<1>2. GInv /\ RInv /\ [RNext]_rvars => GInv'
  <2> SUFFICES ASSUME GInv, RInv, [RNext]_rvars, NEW p \in Requests PROVE Grounded(p)'
    OBVIOUS
  <2>1. CASE UNCHANGED rvars
    BY <2>1 DEF rvars, request, asked, Grounded, MayAnswer
  <2>2. CASE RNext
    <3>1. UNCHANGED asked /\ (Still(p) \/ Handle(p))
      BY <2>2, OneAtATime
    <3>2. CASE Still(p)
      BY <3>2 DEF Still, Grounded, MayAnswer, asked
    <3> QED BY <3>1, <3>2, HandleGrounded DEF RInv
  <2> QED BY <2>1, <2>2
<1>3. GInv => GroundedOrRefused
  BY DEF Grounded, MayAnswer, GroundedOrRefused
<1> QED BY <1>1, <1>2, <1>3, Always, PTL DEF RSpec
=============================================================================
