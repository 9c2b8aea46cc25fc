------------------------------- MODULE Content -------------------------------
(***************************************************************************)
(* What a job makes of a checkout before it writes anything: walk.Files    *)
(* lists it, indexer.index reads every file a second time, strips and      *)
(* chunks it, takes over the vectors other repositories already hold for   *)
(* the same text and has the embedder compute the rest in batches.         *)
(*                                                                         *)
(* A line is what distinguishes it from others here: "blank" has no letter *)
(* or digit, "prose" belongs to a doc comment, anything else is code.  A   *)
(* text is a sequence of lines, and its digest is itself.                  *)
(***************************************************************************)
EXTENDS Lists, Integers, FiniteSets

CONSTANTS
    Paths,
    Lines,        \* what lines may hold, "blank" and "prose" among it
    Jobs,         \* a worker's settings, and what it finds in the checkout
    Models,
    EmbedModel,   \* EMBED_MODEL
    Corpora,      \* what the spans table may hold: see Lookup
    MaxFiles,     \* MAX_REPO_FILES
    EmbedBatch    \* EMBED_BATCH

(* A declaration: its first line with its doc comment and without it (from  *)
(* a directive on, which stripping keeps), that of its name, its last, and  *)
(* the name, a method's after its receiver's.  Import blocks are none.  The *)
(* bare one has the keyword on it, or the directive.                        *)
Decl == {d \in [from : Nat, bare : Nat, at : Nat, to : Nat, name : Seq(STRING)] :
           0 < d.from /\ d.from <= d.bare /\ d.bare <= d.at /\ d.at <= d.to}

(* A call: the declaration it is in, its line, the callee's last identifier, *)
(* and what it calls: a declaration, as its file and place there - that of    *)
(* the interface, for one of its methods - or Elsewhere: a variable, or a     *)
(* function of another module.                                               *)
Elsewhere == <<>>
Call == [in : Nat \ {0}, line : Nat, name : STRING,
         callee : {Elsewhere} \cup (Paths \X (Nat \ {0}))]

(* "link": no regular file; "big": over MAX_FILE_BYTES.  lang is "none" when *)
(* the bytes cannot become spans, whatever the reason (walk.Indexable).      *)
Entry == {e \in [path : Paths, kind : {"regular", "link", "big"},
                 lang : {"go", "other", "none"}, parses : BOOLEAN,
                 lines : Seq(Lines), decls : Seq(Decl), calls : Seq(Call)] :
            /\ \A i \in DOMAIN e.decls :
                 /\ e.decls[i].to <= Len(e.lines)
                 /\ e.lines[e.decls[i].bare] \notin {"blank", "prose"}
            /\ \A k \in DOMAIN e.calls :
                 LET c == e.calls[k]
                 IN  /\ c.in \in DOMAIN e.decls
                     /\ e.decls[c.in].at <= c.line /\ c.line <= e.decls[c.in].to}

(* chunk.Options with STRIP_DOC_COMMENTS.                                   *)
Valid(o) ==
    /\ o \in [strategy : {"ast", "window"}, lines : Nat, overlap : Nat,
              maxDecl : Nat, strip : BOOLEAN]
    /\ o.lines > 0 /\ o.overlap < o.lines /\ o.maxDecl > 0

(* A row of the spans table, as far as reuse reads it.                      *)
VectorRow == [model : Models, fits : BOOLEAN]

(* The walk meets no path twice, and what a file is said to declare it does. *)
Checkout(es) ==
    /\ es \in Seq(Entry)
    /\ \A i, k \in DOMAIN es :
         /\ es[i].path = es[k].path => i = k
         /\ \A n \in DOMAIN es[i].calls :
              LET c == es[i].calls[n].callee
              IN  c # Elsewhere /\ c[1] = es[k].path /\ es[k].parses =>
                    c[2] \in DOMAIN es[k].decls

ASSUME ContentAssumption ==
    /\ \A j \in Jobs : Valid(j.opt) /\ Checkout(j.entries)
    /\ Corpora \subseteq [Lines -> Seq(VectorRow)]
    /\ {MaxFiles, EmbedBatch} \subseteq Nat \ {0}
    /\ EmbedModel \in Models /\ "blank" \in Lines

VARIABLES
    stage,     \* "walk", "read", "reuse", "embed", "indexed" or "failed"
    opt,       \* the worker's settings
    entries,   \* what the walk has yet to visit
    files,     \* what it found and index has yet to read
    rows,      \* the files rows, and what became of each file
    parsed,    \* what the graph pass parsed, from the raw bytes
    regions,   \* of the file at hand, what is yet to be cut
    tiling,    \* whether region is being cut into windows
    region,    \* that region, or the last one that was
    start,     \* where the next window starts
    wins,      \* region's windows so far
    spans,
    todo, lo   \* embedAll's list of positions in spans, and how far it is

tile == <<tiling, region, start, wins>>
read == <<entries, files, rows, parsed, regions, tile>>
cvars == <<stage, opt, read, spans, todo, lo>>

NoVector == [text |-> <<>>, model |-> "none", fits |-> FALSE]
NoRegion == [path |-> "none", from |-> 1, to |-> 1, lines |-> <<>>, whole |-> FALSE]

CInit ==
    /\ stage = "walk"
    /\ \E j \in Jobs : opt = j.opt /\ entries = j.entries
    /\ files = <<>> /\ rows = {} /\ parsed = <<>>
    /\ regions = <<>> /\ tiling = FALSE /\ region = NoRegion /\ start = 1 /\ wins = <<>>
    /\ spans = <<>> /\ todo = <<>> /\ lo = 0

-----------------------------------------------------------------------------
(* walk.Files, entry by entry.  Whatever is not a regular file within the   *)
(* size cap is passed over; one file too many fails the walk.               *)
Skip ==
    /\ stage = "walk" /\ entries # <<>> /\ Head(entries).kind # "regular"
    /\ entries' = Tail(entries)
    /\ UNCHANGED <<stage, opt, files, rows, parsed, regions, tile, spans, todo, lo>>

Visit ==
    /\ stage = "walk" /\ entries # <<>> /\ Head(entries).kind = "regular"
    /\ entries' = Tail(entries)
    /\ IF Len(files) >= MaxFiles
       THEN stage' = "failed" /\ UNCHANGED files
       ELSE files' = Append(files, Head(entries)) /\ UNCHANGED stage
    /\ UNCHANGED <<opt, rows, parsed, regions, tile, spans, todo, lo>>

Walked ==
    /\ stage = "walk" /\ entries = <<>>
    /\ stage' = "read"
    /\ UNCHANGED <<opt, read, spans, todo, lo>>

-----------------------------------------------------------------------------
(* index: the files, read again.                                            *)

Stripped(f) == opt.strip /\ f.lang = "go" /\ f.parses

(* StripDocs: prose is blanked, no line moves.                              *)
Source(f) ==
    [l \in DOMAIN f.lines |->
       IF Stripped(f) /\ f.lines[l] = "prose" THEN "blank" ELSE f.lines[l]]

HasTokens(text) == \E l \in DOMAIN text : text[l] # "blank"

StripWhatParses(f) == TRUE   \* mutant: what cannot be stripped is windowed as it is
Strippable(f) == opt.strip /\ f.lang = "go" => f.parses

Windowed(f) == opt.strategy = "window" \/ f.lang # "go" \/ ~f.parses

(* Decl after stripping: a blanked doc comment is no longer the declaration's. *)
First(d) == IF opt.strip THEN d.bare ELSE d.from

(* Chunks: the regions of a file, and whether each is one chunk or windows.   *)
Regions(f) ==
    IF ~HasTokens(Source(f)) THEN <<>>
    ELSE IF Windowed(f)
    THEN <<[path |-> f.path, from |-> 1, to |-> Len(f.lines), lines |-> Source(f),
            whole |-> FALSE]>>
    ELSE [i \in DOMAIN f.decls |->
            LET d == f.decls[i]
            IN  [path |-> f.path, from |-> First(d), to |-> d.to, lines |-> Source(f),
                 whole |-> d.to - First(d) + 1 <= opt.maxDecl]]

Between == stage = "read" /\ regions = <<>> /\ ~tiling

Row(f, fate) == [file |-> f, fate |-> fate]
Parsed(f) == IF f.lang = "go" /\ f.parses THEN Append(parsed, f) ELSE parsed

(* The entry stopped being an indexable regular file since the walk.        *)
Vanished ==
    /\ Between /\ files # <<>>
    /\ rows' = rows \cup {Row(Head(files), "vanished")}
    /\ files' = Tail(files)
    /\ UNCHANGED <<stage, opt, entries, parsed, regions, tile, spans, todo, lo>>

(* Not indexable, or Go that cannot be stripped: a row and no spans.         *)
PassOver ==
    LET f == Head(files) IN
    /\ Between /\ files # <<>> /\ (f.lang = "none" \/ ~Strippable(f))
    /\ rows' = rows \cup {Row(f, "passed over")}
    /\ files' = Tail(files)
    /\ UNCHANGED <<stage, opt, entries, parsed, regions, tile, spans, todo, lo>>

Open ==
    LET f == Head(files) IN
    /\ Between /\ files # <<>> /\ f.lang # "none" /\ Strippable(f)
    /\ rows' = rows \cup {Row(f, "chunked")}
    /\ parsed' = Parsed(f)
    /\ regions' = Regions(f)
    /\ files' = Tail(files)
    /\ UNCHANGED <<stage, opt, entries, tile, spans, todo, lo>>

(* retrievable: a chunk without a word in it is dropped.                    *)
Chunk(r, a, b) ==
    LET text == SubSeq(r.lines, a, b)
    IN  spans' = IF HasTokens(text)
                 THEN Append(spans, [path |-> r.path, from |-> a, to |-> b,
                                     text |-> text, vec |-> NoVector])
                 ELSE spans

(* A declaration that is one unit.                                          *)
Whole ==
    /\ stage = "read" /\ ~tiling /\ regions # <<>> /\ Head(regions).whole
    /\ Chunk(Head(regions), Head(regions).from, Head(regions).to)
    /\ regions' = Tail(regions)
    /\ UNCHANGED <<stage, opt, entries, files, rows, parsed, tile, todo, lo>>

(* windows: the file, or a declaration that is too long.                    *)
Tile ==
    /\ stage = "read" /\ ~tiling /\ regions # <<>> /\ ~Head(regions).whole
    /\ tiling' = TRUE /\ region' = Head(regions) /\ start' = Head(regions).from
    /\ wins' = <<>>
    /\ regions' = Tail(regions)
    /\ UNCHANGED <<stage, opt, entries, files, rows, parsed, spans, todo, lo>>

Stride == opt.lines - opt.overlap

(* The window that reaches the end is the last.                             *)
LastStep(end) == start + Stride > region.to   \* mutant: only the for's condition
LastWindow(end) == end = region.to

Window ==
    LET full == start + opt.lines - 1
        end == IF full < region.to THEN full ELSE region.to
    IN  /\ stage = "read" /\ tiling /\ start <= region.to
        /\ wins' = Append(wins, [from |-> start, to |-> end])
        /\ Chunk(region, start, end)
        /\ tiling' = ~LastWindow(end)
        /\ start' = IF LastWindow(end) THEN start ELSE start + Stride
        /\ UNCHANGED <<stage, opt, entries, files, rows, parsed, regions, region, todo, lo>>

Cut ==
    /\ Between /\ files = <<>>
    /\ stage' = "reuse"
    /\ UNCHANGED <<opt, read, spans, todo, lo>>

-----------------------------------------------------------------------------
(* reuse: one read of the vectors of every digest, under this model.  A      *)
(* corpus says for the first line of a text which rows there are of it, in   *)
(* the order of their ids: the model each was embedded with, and whether its  *)
(* vector has that model's width.  The first row counts.  One of another      *)
(* width, or a failed read, and nothing is reused.                            *)

Lookup(corpus, text) ==
    Without(corpus[text[1]], {r \in VectorRow : r.model # EmbedModel})

Vector(text, r) == [text |-> text, model |-> r.model, fits |-> r.fits]

Unfilled(ss) == Without([i \in DOMAIN ss |-> i], {i \in DOMAIN ss : ss[i].vec # NoVector})

Reuse ==
    /\ stage = "reuse" /\ stage' = "embed"
    /\ \/ UNCHANGED spans
       \/ \E corpus \in Corpora :
            /\ \A i \in DOMAIN spans :
                 LET found == Lookup(corpus, spans[i].text)
                 IN  found # <<>> => Head(found).fits
            /\ spans' = [i \in DOMAIN spans |->
                           LET found == Lookup(corpus, spans[i].text)
                           IN  IF found = <<>> THEN spans[i]
                               ELSE [spans[i] EXCEPT !.vec =
                                       Vector(spans[i].text, Head(found))]]
    /\ todo' = Unfilled(spans')
    /\ UNCHANGED <<opt, read, lo>>

(* embedAll: the next EMBED_BATCH of the spans the reuse pass left.          *)
PlaceInOrder(k) == lo + k   \* mutant: as if every span were in the list
Place(k) == todo[lo + k]

Batch == 1 .. (IF Len(todo) - lo < EmbedBatch THEN Len(todo) - lo ELSE EmbedBatch)

Embedded(text) == Vector(text, [model |-> EmbedModel, fits |-> TRUE])

Embed ==
    LET texts == [k \in Batch |-> spans[todo[lo + k]].text]
        filled == [i \in DOMAIN spans |->
                     IF \E k \in Batch : Place(k) = i
                     THEN [spans[i] EXCEPT !.vec =
                             Embedded(texts[CHOOSE k \in Batch : Place(k) = i])]
                     ELSE spans[i]]
    IN  /\ stage = "embed" /\ lo < Len(todo)
        /\ spans' = filled
        /\ lo' = lo + Cardinality(Batch)
        /\ UNCHANGED <<stage, opt, read, todo>>

Indexed ==
    /\ stage = "embed" /\ lo = Len(todo)
    /\ stage' = "indexed" /\ todo' = <<>> /\ lo' = 0
    /\ UNCHANGED <<opt, read, spans>>

(* An unreadable directory or file, the job's deadline, the embedder, or a   *)
(* reply of the wrong length: the attempt ends, nothing was written.         *)
Fail ==
    /\ stage \in {"walk", "read", "embed"}
    /\ stage' = "failed"
    /\ UNCHANGED <<opt, read, spans, todo, lo>>

CNext ==
    \/ Skip \/ Visit \/ Walked
    \/ Vanished \/ PassOver \/ Open \/ Whole \/ Tile \/ Window \/ Cut
    \/ Reuse \/ Embed \/ Indexed \/ Fail

CSpec == CInit /\ [][CNext]_cvars

-----------------------------------------------------------------------------
AllCut == stage \in {"reuse", "embed", "indexed"}

(* However long the region and whatever the window and its overlap: the      *)
(* windows follow one another with exactly the overlap in common, none lies  *)
(* inside its predecessor, and once the last is cut every line of the region *)
(* is in one (windows; Options says what overlap means to a reader).         *)
WindowsTile ==
    /\ \A i \in 1 .. Len(wins) - 1 :
         /\ wins[i + 1].from = wins[i].to + 1 - opt.overlap
         /\ wins[i].from < wins[i + 1].from /\ wins[i].to < wins[i + 1].to
    /\ ~tiling /\ wins # <<>> =>
         \A l \in region.from .. region.to :
           \E i \in 1 .. Len(wins) : wins[i].from <= l /\ l <= wins[i].to

Holds(s, f, l) == s.path = f.path /\ s.from <= l /\ l <= s.to
Wanted(f, l) ==
    Windowed(f) \/ \E i \in DOMAIN f.decls : First(f.decls[i]) <= l /\ l <= f.decls[i].to

(* What a chunked file says can be retrieved: each of its lines with a word  *)
(* in it - of its declarations, if it is cut along those - is in a span,     *)
(* though windows are dropped and files fail to parse beside it.             *)
NothingLost ==
    \A r \in rows : AllCut /\ r.fate = "chunked" =>
      \A l \in DOMAIN r.file.lines :
        Source(r.file)[l] # "blank" /\ Wanted(r.file, l) =>
          \E i \in DOMAIN spans : Holds(spans[i], r.file, l)

(* And nothing else can: a span is of a file that was chunked, cites lines   *)
(* that file has, is worth embedding, and in a stripped corpus holds nothing *)
(* of a Go file's doc comments - not even of a file that does not parse.     *)
NothingAdded ==
    \A i \in DOMAIN spans :
      /\ HasTokens(spans[i].text)
      /\ \E r \in rows :
           /\ r.file.path = spans[i].path /\ r.fate = "chunked"
           /\ 1 <= spans[i].from /\ spans[i].to <= Len(r.file.lines)
           /\ opt.strip /\ r.file.lang = "go" =>
                \A l \in DOMAIN spans[i].text : spans[i].text[l] # "prose"

SpansMatchSource == NothingLost /\ NothingAdded

(* Every span goes to the store with the vector of its own text, by this     *)
(* worker's model and of its width, wherever it came from: a corpus indexed  *)
(* incrementally is the one a full index would write (reuse, embedAll).      *)
OwnVector ==
    stage = "indexed" =>
      \A i \in DOMAIN spans : spans[i].vec = Embedded(spans[i].text)
=============================================================================
