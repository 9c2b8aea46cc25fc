------------------------------- MODULE Callers -------------------------------
(***************************************************************************)
(* "Who calls this", asked by GET .../symbols/:symbol/callers and by the   *)
(* agent's callers_of: the recursive walk of callersSQL over the resolved  *)
(* edges, one round of the recursion at a time, its aggregation and LIMIT, *)
(* and beside it the callers matched by name alone.                        *)
(***************************************************************************)
EXTENDS Graph

CONSTANTS
    Limits,    \* ?limit, and the tool's MaxCallers
    Depths     \* ?depth, and the tool's depth argument

ASSUME CallersAssumption == Limits \subseteq Nat \ {0} /\ Depths \subseteq Nat \ {0}

VARIABLES
    q,         \* the question being answered
    work,      \* the rows the last round of the recursion gave
    walked,    \* all of them
    answer     \* the callers, whether the limit bit, and the approximate set

qvars == <<q, work, walked, answer>>

NoQuestion == [who |-> "nobody"]
NoAnswer == [callers |-> {}, truncated |-> FALSE, approx |-> {}, more |-> FALSE,
             failed |-> FALSE, given |-> FALSE]

QInit == GInit /\ q = NoQuestion /\ work = {} /\ walked = {} /\ answer = NoAnswer

Resolved == {e \in edges : e.to # None}

(* The anchor: who calls it directly, itself included.                       *)
Anchor(id) ==
    {[sym |-> e.from, depth |-> 1, path |-> <<e.to, e.from>>, line |-> e.line] :
       e \in {x \in Resolved : x.to = id}}

Ask ==
    /\ built /\ q = NoQuestion
    /\ \E who \in {"route", "tool"}, s \in symbols, depth \in Depths, limit \in Limits :
         /\ q' = [who |-> who, sym |-> s, depth |-> depth, limit |-> limit]
         /\ work' = Anchor(s.id)
    /\ walked' = work'
    /\ UNCHANGED <<cvars, gvars, answer>>

NoGuard(row, e) == FALSE   \* mutant: a cycle is walked round
Revisits(row, e) == \E i \in DOMAIN row.path : row.path[i] = e.from

Asked == q # NoQuestion /\ ~answer.given

(* A round: the callers of what the last one found, not past the depth asked *)
(* for and not back into a row's own path.                                   *)
Extend ==
    /\ Asked /\ work # {}
    /\ work' = {[sym |-> p[2].from, depth |-> p[1].depth + 1,
                 path |-> Append(p[1].path, p[2].from), line |-> p[2].line] :
                  p \in {x \in work \X Resolved :
                           /\ x[2].to = x[1].sym
                           /\ x[1].depth < q.depth
                           /\ ~Revisits(x[1], x[2])}}
    /\ walked' = walked \cup work'
    /\ UNCHANGED <<cvars, gvars, q, answer>>

(* A caller once, at its least depth, with the first call site of that depth. *)
Nearest(sym) ==
    LET own == {r \in walked : r.sym = sym}
    IN  CHOOSE r \in own :
          \A o \in own : r.depth < o.depth \/ (r.depth = o.depth /\ r.line <= o.line)

Grouped ==
    {[sym |-> s, depth |-> Nearest(s).depth, line |-> Nearest(s).line] :
       s \in {r.sym : r \in walked}}

(* ORDER BY depth and then by place, LIMIT: among equally near ones any.       *)
Firsts(rs, n) ==
    {top \in SUBSET rs :
       /\ Cardinality(top) = IF Cardinality(rs) < n THEN Cardinality(rs) ELSE n
       /\ \A r \in top, out \in rs \ top : r.depth <= out.depth}

(* approxName: what a call would have recorded, without the receiver.          *)
FullName(s) == s.name   \* mutant: as the column spells it
ApproxName(s) == <<s.name[Len(s.name)]>>

(* The route asks for the name, the tool hands over the symbol's id.           *)
AskedName == IF q.who = "route" THEN ApproxName(q.sym) ELSE q.sym.id

ByName(name) ==
    {[sym |-> e.from, site |-> e.site, depth |-> 1] :
       e \in {x \in edges : x.to = None /\ x.name = name}}

(* The server cancels a walk after callersTimeout: the read fails.            *)
Cancelled ==
    /\ Asked /\ work # {}
    /\ q' = NoQuestion /\ work' = {} /\ walked' = {}
    /\ UNCHANGED <<cvars, gvars, answer>>

(* The route reads one row more than the limit and clips it.                   *)
Clipped(rs) == q.who = "route" /\ Cardinality(rs) > q.limit

(* If only the second query fails the route answers with what it has, and says *)
(* so; the tool's call fails.                                                  *)
Answer ==
    /\ Asked /\ work = {}
    /\ \E callers \in Firsts(Grouped, q.limit), approx \in Firsts(ByName(AskedName), q.limit) :
         \/ answer' = [callers |-> callers, truncated |-> Clipped(Grouped),
                       approx |-> approx, more |-> Clipped(ByName(AskedName)),
                       failed |-> FALSE, given |-> TRUE]
         \/ /\ q.who = "route"
            /\ answer' = [callers |-> callers, truncated |-> Clipped(Grouped),
                          approx |-> {}, more |-> FALSE, failed |-> TRUE, given |-> TRUE]
    /\ UNCHANGED <<cvars, gvars, q, work, walked>>

QNext ==
    \/ GNext /\ UNCHANGED qvars
    \/ Ask \/ Extend \/ Cancelled \/ Answer

QSpec == QInit /\ [][QNext]_<<cvars, gvars, qvars>>

-----------------------------------------------------------------------------
(* What the sources say, read off the calls and not off the edges: which     *)
(* declaration's body has a call that was named, and of what.                *)
Known == {s.id : s \in symbols}
NamedSites == {s \in Sites : SiteId(s) \in named}
Caller(s) == Sym(s[1], CallAt(s).in)
Calls(a, b) == \E s \in NamedSites : Caller(s) = a /\ CallAt(s).callee = b

(* b can be reached from a in n calls.                                        *)
Chain(a, b, n) ==
    \E f \in [0 .. n -> Known] :
      /\ f[0] = a /\ f[n] = b /\ \A i \in 0 .. n - 1 : Calls(f[i], f[i + 1])

Near(a, n) == \E k \in 1 .. n : Chain(a, q.sym.id, k)

(* The callers an answer lists are the nearest there are, each once, however  *)
(* many ways lead from it and through whatever cycle: each is as many calls   *)
(* away as it says and no fewer, the line it cites is of a call in it on a    *)
(* way that short, none is left out that is nearer than one given - none at   *)
(* all when the limit did not bite - and a symbol is among its own callers    *)
(* only if it calls itself directly (callersSQL).                             *)
NearestCallers ==
    answer.given =>
      LET given == {r.sym : r \in answer.callers}
          own == q.sym.id
      IN  /\ \A r \in answer.callers :
               /\ \A o \in answer.callers : o.sym = r.sym => o = r
               /\ Chain(r.sym, own, r.depth) /\ ~Near(r.sym, r.depth - 1)
               /\ \E s \in NamedSites :
                    /\ Caller(s) = r.sym /\ CallAt(s).line = r.line
                    /\ IF r.depth = 1 THEN CallAt(s).callee = own
                       ELSE /\ CallAt(s).callee \in Known
                            /\ Chain(CallAt(s).callee, own, r.depth - 1)
          /\ \A a \in Known \ ({own} \cup given) :
               /\ Cardinality(answer.callers) < q.limit => ~Near(a, q.depth)
               /\ \A r \in answer.callers : ~Near(a, r.depth - 1)
          /\ own \in given => Calls(own, own)
          /\ Calls(own, own) /\ ~answer.truncated /\ q.who = "route" => own \in given

(* Whatever the type-check managed: the route accounts for every call of the  *)
(* symbol the parser saw - its caller is given as a fact, or that call as an  *)
(* approximation - unless it says there is more or that it failed, and none   *)
(* as both.                                                                   *)
EveryCallAnswered ==
    answer.given /\ q.who = "route" =>
      \A s \in Sites :
        CallAt(s).callee = q.sym.id =>
          LET fact == \E r \in answer.callers : r.sym = Caller(s) /\ r.depth = 1
              guess == \E r \in answer.approx : r.site = SiteId(s)
          IN  /\ fact \/ guess \/ answer.truncated \/ answer.more \/ answer.failed
              /\ ~(SiteId(s) \in named /\ guess)

(* What callers_of tells a model: "Resolved callers are facts; approximate    *)
(* ones matched on a name only."  A call of the symbol's name that nothing    *)
(* resolved is matched on it.                                                 *)
ToolToldOfCalls ==
    answer.given /\ q.who = "tool" =>
      \A s \in Sites \ NamedSites :
        CallAt(s).callee = q.sym.id => answer.approx # {}
=============================================================================
