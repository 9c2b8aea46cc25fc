-------------------------------- MODULE Graph --------------------------------
(***************************************************************************)
(* The symbol graph of a job: buildGraph makes a symbol of every           *)
(* declaration and an edge of every call that Parse saw in the raw bytes,  *)
(* links each symbol to a span that was cut from the stripped ones, and    *)
(* gives an edge a target only where the type-check could name it.         *)
(***************************************************************************)
EXTENDS Content

VARIABLES
    built,     \* whether the graph has been put
    named,     \* the call sites the type-check resolved
    symbols, edges

gvars == <<built, named, symbols, edges>>

None == <<>>   \* no span, no target: NULL in the columns

GInit == CInit /\ built = FALSE /\ named = {} /\ symbols = {} /\ edges = {}

-----------------------------------------------------------------------------
(* The containers of a line: [id, from, to].  Where two have the same lines  *)
(* the smaller id is taken, which is no more than some id.                   *)
Around(cs, line) == {c \in cs : c.from <= line /\ line <= c.to}
Overlapping(cs, from, to) == {c \in cs : c.from <= to /\ from <= c.to}

Shorter(c, d) == c.from = d.from /\ c.to < d.to
IdIn(best) == IF best = {} THEN None ELSE (CHOOSE c \in best : TRUE).id

MostSpecific(cs, line) ==
    IdIn({c \in Around(cs, line) :
            ~\E d \in Around(cs, line) : d.from > c.from \/ Shorter(d, c)})

FirstOverlapping(cs, from, to) ==
    IdIn({c \in Overlapping(cs, from, to) :
            ~\E d \in Overlapping(cs, from, to) : d.from < c.from \/ Shorter(d, c)})

ByStartOnly(cs, from, to) == MostSpecific(cs, from)   \* mutant: without the overlap
SpanFor(cs, from, to) ==
    IF MostSpecific(cs, from) # None THEN MostSpecific(cs, from)
    ELSE FirstOverlapping(cs, from, to)

-----------------------------------------------------------------------------
(* A symbol, and a call site, is known by its file and its place there.      *)
Sym(f, i) == <<f.path, i>>

SpansOf(path) ==
    {[id |-> <<i>>, from |-> spans[i].from, to |-> spans[i].to] :
       i \in {j \in DOMAIN spans : spans[j].path = path}}

Defs(f) ==
    {[id |-> Sym(f, i), from |-> f.decls[i].from, to |-> f.decls[i].to] :
       i \in DOMAIN f.decls}

ParsedFiles == {parsed[i] : i \in DOMAIN parsed}

SymbolsOf(f) ==
    {[id |-> Sym(f, i), name |-> f.decls[i].name,
      span |-> SpanFor(SpansOf(f.path), f.decls[i].from, f.decls[i].to)] :
       i \in DOMAIN f.decls}

(* The edge's tail is the first declaration that starts where the call's does. *)
Enclosing(f, c) ==
    Sym(f, CHOOSE i \in DOMAIN f.decls :
             /\ f.decls[i].from = f.decls[c.in].from
             /\ \A j \in 1 .. i - 1 : f.decls[j].from # f.decls[i].from)

(* A target is the line of the callee's name, which its declaration contains    *)
(* and, under a doc comment, does not start at.                               *)
Target(c) ==
    LET homes == {f \in ParsedFiles : f.path = c.callee[1]}
        at(f) == f.decls[c.callee[2]].at
    IN  IF homes = {} THEN None
        ELSE LET f == CHOOSE g \in homes : TRUE IN MostSpecific(Defs(f), at(f))

Sites == UNION {{<<f, k>> : k \in DOMAIN f.calls} : f \in ParsedFiles}
SiteId(s) == <<s[1].path, s[2]>>
CallAt(s) == s[1].calls[s[2]]

Edge(s, resolved) ==
    LET c == CallAt(s)
    IN  [site |-> SiteId(s), from |-> Enclosing(s[1], c), name |-> <<c.name>>, line |-> c.line,
         to |-> IF SiteId(s) \in resolved THEN Target(c) ELSE None]

(* Resolve: nothing without a toolchain, a go.mod, time or the switch, or what *)
(* the packages that loaded gave, whichever they were.                         *)
Nameable == {s \in Sites : CallAt(s).callee # Elsewhere}
Resolve == SUBSET {SiteId(s) : s \in Nameable}

(* buildGraph, and PutGraph in one transaction.                                *)
BuildGraph ==
    /\ stage = "indexed" /\ ~built
    /\ \E resolved \in Resolve :
         /\ named' = resolved
         /\ edges' = {Edge(s, resolved) : s \in Sites}
    /\ symbols' = UNION {SymbolsOf(f) : f \in ParsedFiles}
    /\ built' = TRUE
    /\ UNCHANGED cvars

GNext == (CNext /\ UNCHANGED gvars) \/ BuildGraph
GSpec == GInit /\ [][GNext]_<<cvars, gvars>>

-----------------------------------------------------------------------------
(* The lines of a declaration that are its own: those with words left once its *)
(* comments are gone.  In windows of a stripped file the blanked first line of *)
(* its comment may be all that the window spanFor takes holds of it.           *)
Own(f, i) ==
    {l \in f.decls[i].from .. f.decls[i].to :
       Source(f)[l] # "blank" \/ (opt.strip /\ Windowed(f))}

SpanLines(id) == spans[id[1]].from .. spans[id[1]].to

(* A symbol is cited by code of its own: the span it is linked to is of its    *)
(* file and shares a line with it, though symbols come from the raw bytes and  *)
(* spans from the stripped ones, a long declaration is several spans, and a    *)
(* window may begin anywhere (spanFor).                                        *)
CitesItself ==
    built =>
      \A f \in ParsedFiles : \A i \in DOMAIN f.decls : \A s \in symbols :
        s.id = Sym(f, i) /\ Own(f, i) # {} =>
          /\ s.span # None
          /\ spans[s.span[1]].path = f.path
          /\ SpanLines(s.span) \cap Own(f, i) # {}

(* "A resolved edge means this exact symbol, and to_symbol_id points at its    *)
(* row" (README): an edge has no target but what its call calls.               *)
ResolvedMeansThis ==
    built =>
      \A s \in Sites : \A e \in edges :
        e.site = SiteId(s) /\ e.to # None => e.to = CallAt(s).callee
=============================================================================
