--------------------------- MODULE Callers_proofs ---------------------------
(***************************************************************************)
(* What a checkout becomes - windows, spans, vectors (Content), symbols and *)
(* edges (Graph) - and what the question who calls one of them is answered  *)
(* (Callers): for every file, window, overlap, declaration limit, resolver, *)
(* depth and limit.                                                         *)
(***************************************************************************)
EXTENDS Callers, Lists_proofs

Interval == {w \in [from : Nat, to : Nat] : w.from <= w.to}

Region == {r \in [path : Paths \cup {"none"}, from : Nat, to : Nat, lines : Seq(Lines),
                  whole : BOOLEAN] :
             r.from <= r.to}

(* What Chunks is called with and keeps between two windows.                 *)
Typed ==
    /\ Valid(opt)
    /\ entries \in Seq(Entry) /\ files \in Seq(Entry)
    /\ regions \in Seq(Region) /\ region \in Region
    /\ tiling \in BOOLEAN /\ start \in Nat /\ wins \in Seq(Interval)

Last == wins[Len(wins)]

Linked(i) ==
    /\ wins[i + 1].from = wins[i].to + 1 - opt.overlap
    /\ wins[i].from < wins[i + 1].from /\ wins[i].to < wins[i + 1].to

Covered(l) == \E i \in 1 .. Len(wins) : wins[i].from <= l /\ l <= wins[i].to

(* Up to the last window everything is in one, and the next starts one stride *)
(* after the last did, which was not cut short.                               *)
Progress ==
    /\ \A i \in 1 .. Len(wins) - 1 : Linked(i)
    /\ wins # <<>> => \A l \in region.from .. Last.to : Covered(l)
    /\ tiling => start <= region.to
    /\ tiling /\ wins = <<>> => start = region.from
    /\ tiling /\ wins # <<>> =>
         /\ Last.to = Last.from + opt.lines - 1 /\ Last.to < region.to
         /\ start = Last.from + Stride
    /\ ~tiling /\ wins # <<>> => Last.to = region.to

Tiling == Typed /\ Progress

-----------------------------------------------------------------------------
(* Splitting the head off a sequence.                                         *)
LEMMA HeadTail ==
    ASSUME NEW S, NEW s \in Seq(S), s # <<>>
    PROVE  Head(s) \in S /\ Tail(s) \in Seq(S)
  BY HeadTailProperties

(* A file with a word in it, and a declaration, is a region of at least a line. *)
LEMMA RegionsTyped ==
    ASSUME NEW f \in Entry, Valid(opt)
    PROVE  Regions(f) \in Seq(Region)
<1>1. f.lines \in Seq(Lines) /\ f.decls \in Seq(Decl) /\ f.path \in Paths
  BY DEF Entry
<1>2. Source(f) \in Seq(Lines)
  <2>1. "blank" \in Lines
    BY ContentAssumption DEF ContentAssumption
  <2>2. DOMAIN f.lines = 1 .. Len(f.lines) /\ \A l \in DOMAIN f.lines : f.lines[l] \in Lines
    BY <1>1
  <2>3. \A l \in 1 .. Len(f.lines) :
          (IF Stripped(f) /\ f.lines[l] = "prose" THEN "blank" ELSE f.lines[l]) \in Lines
    BY <2>1, <2>2
  <2> QED BY <1>1, <2>2, <2>3 DEF Source
<1>3. CASE ~HasTokens(Source(f))
  BY <1>3 DEF Regions
<1>4. CASE HasTokens(Source(f)) /\ Windowed(f)
  <2>1. Len(f.lines) \in Nat /\ 1 <= Len(f.lines)
    BY <1>1, <1>4 DEF HasTokens, Source
  <2>2. [path |-> f.path, from |-> 1, to |-> Len(f.lines), lines |-> Source(f),
         whole |-> FALSE] \in Region
    BY <1>1, <1>2, <2>1 DEF Region
  <2> QED BY <1>4, <2>2 DEF Regions
<1>5. CASE HasTokens(Source(f)) /\ ~Windowed(f)
  <2> DEFINE r(i) == LET d == f.decls[i]
                     IN  [path |-> f.path, from |-> First(d), to |-> d.to,
                          lines |-> Source(f), whole |-> d.to - First(d) + 1 <= opt.maxDecl]
  <2>1. DOMAIN f.decls = 1 .. Len(f.decls) /\ Len(f.decls) \in Nat
    BY <1>1
  <2>2. ASSUME NEW i \in 1 .. Len(f.decls) PROVE r(i) \in Region
    <3>1. f.decls[i] \in Decl
      BY <1>1, <2>1
    <3>2. /\ First(f.decls[i]) \in Nat /\ f.decls[i].to \in Nat
          /\ First(f.decls[i]) <= f.decls[i].to
      BY <3>1 DEF Decl, First
    <3> QED BY <1>1, <1>2, <3>2 DEF Region
  <2>3. Regions(f) = [i \in 1 .. Len(f.decls) |-> r(i)]
    BY <1>5, <2>1 DEF Regions
  <2> QED BY <2>1, <2>2, <2>3
<1> QED BY <1>3, <1>4, <1>5

-----------------------------------------------------------------------------
LEMMA InitTiling == CInit => Tiling
<1> SUFFICES ASSUME CInit PROVE Tiling
  OBVIOUS
<1>1. Valid(opt) /\ entries \in Seq(Entry)
  BY ContentAssumption DEF CInit, ContentAssumption, Checkout
<1>2. files \in Seq(Entry) /\ regions \in Seq(Region) /\ wins \in Seq(Interval)
  BY DEF CInit
<1>3. region \in Region /\ start \in Nat /\ tiling \in BOOLEAN
  <2>1. <<>> \in Seq(Lines) /\ 1 \in Nat /\ "none" \in Paths \cup {"none"}
    OBVIOUS
  <2>2. NoRegion \in Region
    BY <2>1 DEF NoRegion, Region
  <2> QED BY <2>2 DEF CInit
<1>4. Progress
  BY DEF CInit, Progress
<1> QED BY <1>1, <1>2, <1>3, <1>4 DEF Tiling, Typed

(* The window cut now follows the last, and leaves nothing between them.       *)
LEMMA WindowTiling ==
    ASSUME Tiling, Window
    PROVE  Tiling'
<1> DEFINE full == start + opt.lines - 1
           end == IF full < region.to THEN full ELSE region.to
           new == [from |-> start, to |-> end]
<1>1. /\ opt.lines \in Nat /\ opt.overlap \in Nat /\ opt.overlap < opt.lines
      /\ region.from \in Nat /\ region.to \in Nat /\ start \in Nat
  BY DEF Tiling, Typed, Valid, Region
<1>2. /\ tiling /\ start <= region.to /\ wins' = Append(wins, new)
      /\ tiling' = ~LastWindow(end)
      /\ start' = IF LastWindow(end) THEN start ELSE start + Stride
      /\ UNCHANGED <<opt, entries, files, regions, region>>
  BY DEF Window
<1>3. /\ new \in Interval /\ new.from = start /\ new.to = end
      /\ end \in Nat /\ end <= region.to /\ start <= end
  BY <1>1, <1>2 DEF Interval
<1> HIDE DEF new
<1>4. wins \in Seq(Interval) /\ Len(wins) \in Nat
  BY DEF Tiling, Typed
<1>5. /\ wins' \in Seq(Interval) /\ Len(wins') = Len(wins) + 1 /\ wins' # <<>>
      /\ \A i \in 1 .. Len(wins) : wins'[i] = wins[i]
      /\ wins'[Len(wins) + 1] = new
  BY <1>2, <1>3, <1>4
<1>6. \A i \in 1 .. Len(wins) : wins[i] \in Interval
  BY <1>4
<1>7. Last' = new
  BY <1>5 DEF Last
<1>8. ASSUME wins # <<>>
      PROVE /\ \A i \in 1 .. Len(wins') - 1 : Linked(i)'
            /\ \A l \in region'.from .. Last'.to : Covered(l)'
  <2>1. /\ Len(wins) >= 1 /\ Last \in Interval /\ Last = wins[Len(wins)]
        /\ Last.from \in Nat /\ Last.to \in Nat
    BY <1>4, <1>6, <1>8 DEF Last, Interval
  <2>2. /\ Last.to = Last.from + opt.lines - 1 /\ Last.to < region.to
        /\ start = Last.from + (opt.lines - opt.overlap)
    BY <1>2, <1>8 DEF Tiling, Progress, Stride
  <2>3. new.from = Last.to + 1 - opt.overlap /\ Last.from < new.from /\ Last.to < new.to
    <3>0. /\ Last.from \in Nat /\ Last.to \in Nat /\ start \in Nat
          /\ opt.lines \in Nat /\ opt.overlap \in Nat /\ opt.overlap < opt.lines
      BY <1>1, <2>1
    <3>1. start = Last.to + 1 - opt.overlap /\ Last.from < start
      BY <2>2, <3>0
    <3>4. Last.to < full
      BY <1>1, <2>1, <2>2
    <3>2. Last.to < end
      BY <1>1, <2>1, <2>2, <3>1, <3>4
    <3> HIDE DEF new, end, full
    <3> QED BY <1>3, <3>1, <3>2
  <2>4. \A i \in 1 .. Len(wins') - 1 : Linked(i)'
    <3> TAKE i \in 1 .. Len(wins') - 1
    <3>1. CASE i = Len(wins)
      BY <1>2, <1>5, <2>1, <2>3, <3>1 DEF Linked
    <3>2. CASE i # Len(wins)
      <4>1. i \in 1 .. Len(wins) - 1 /\ i + 1 \in 1 .. Len(wins)
        BY <1>4, <1>5, <3>2
      <4>2. Linked(i)
        BY <4>1 DEF Tiling, Progress
      <4> QED BY <1>2, <1>5, <4>1, <4>2 DEF Linked
    <3> QED BY <3>1, <3>2
  <2>5. ASSUME NEW l \in region'.from .. Last'.to PROVE Covered(l)'
    <3>1. l \in Nat /\ region.from <= l /\ l <= new.to
      BY <1>1, <1>2, <1>3, <1>7
    <3>2. CASE l <= Last.to
      <4>1. PICK i \in 1 .. Len(wins) : wins[i].from <= l /\ l <= wins[i].to
        BY <1>8, <2>1, <3>1, <3>2 DEF Tiling, Progress, Covered
      <4> QED BY <1>4, <1>5, <4>1 DEF Covered
    <3>3. CASE l > Last.to
      <4>1. new.from <= l
        BY <1>1, <1>3, <2>1, <2>3, <3>1, <3>3
      <4> QED BY <1>4, <1>5, <3>1, <4>1 DEF Covered
    <3> QED BY <2>1, <3>1, <3>2, <3>3
  <2> QED BY <2>4, <2>5
<1>9. ASSUME wins = <<>>
      PROVE /\ \A i \in 1 .. Len(wins') - 1 : Linked(i)'
            /\ \A l \in region'.from .. Last'.to : Covered(l)'
  <2>1. start = region.from
    BY <1>2, <1>9 DEF Tiling, Progress
  <2>2. Len(wins) = 0
    BY <1>9
  <2>3. \A i \in 1 .. Len(wins') - 1 : Linked(i)'
    BY <1>5, <2>2
  <2>4. ASSUME NEW l \in region'.from .. Last'.to PROVE Covered(l)'
    BY <1>1, <1>2, <1>3, <1>5, <1>7, <2>1, <2>2 DEF Covered
  <2> QED BY <2>3, <2>4
<1>10. /\ \A i \in 1 .. Len(wins') - 1 : Linked(i)'
       /\ \A l \in region'.from .. Last'.to : Covered(l)'
  BY <1>8, <1>9
<1>11. /\ tiling' => /\ start' <= region'.to /\ Last'.to < region'.to
                     /\ Last'.to = Last'.from + opt'.lines - 1
                     /\ start' = Last'.from + Stride'
       /\ ~tiling' => Last'.to = region'.to
  <2>1. /\ tiling' => end # region.to /\ start' = start + (opt.lines - opt.overlap)
        /\ ~tiling' => end = region.to
    BY <1>2 DEF LastWindow, Stride
  <2>2. end # region.to => end = full /\ end < region.to
    BY <1>1
  <2>3. Last'.from = start /\ Last'.to = end
    BY <1>3, <1>7
  <2>4. Stride' = opt.lines - opt.overlap /\ opt' = opt /\ region' = region
    BY <1>2 DEF Stride
  <2>5. ASSUME end # region.to, start' = start + (opt.lines - opt.overlap)
        PROVE  start' <= region.to
    BY <1>1, <2>2, <2>5
  <2> QED BY <1>1, <2>1, <2>2, <2>3, <2>4, <2>5
<1>12. Progress'
  BY <1>5, <1>10, <1>11 DEF Progress
<1>13. tiling' \in BOOLEAN /\ start' \in Nat
  BY <1>1, <1>2 DEF Stride
<1> QED BY <1>2, <1>5, <1>12, <1>13 DEF Tiling, Typed

(* Every other step leaves the windows alone, or starts with none.             *)
LEMMA OtherTiling ==
    ASSUME Tiling, CNext, ~Window
    PROVE  Tiling'
<1>1. UNCHANGED <<opt, tile>> => Progress' /\ Valid(opt')
                                  /\ region' \in Region /\ tiling' \in BOOLEAN
                                  /\ start' \in Nat /\ wins' \in Seq(Interval)
  BY DEF Tiling, Typed, Progress, tile, Last, Linked, Covered, Stride
<1>2. CASE Skip \/ Visit
  <2>1. entries # <<>> /\ UNCHANGED <<opt, regions, tile>> /\ entries' = Tail(entries)
    BY <1>2 DEF Skip, Visit
  <2>2. entries \in Seq(Entry) /\ files \in Seq(Entry)
    BY DEF Tiling, Typed
  <2>3. Head(entries) \in Entry /\ Tail(entries) \in Seq(Entry)
    BY <2>1, <2>2, HeadTail
  <2>4. files' \in Seq(Entry)
    <3>1. files' \in {files, Append(files, Head(entries))}
      BY <1>2 DEF Skip, Visit
    <3>2. \A f \in Entry : Append(files, f) \in Seq(Entry)
      BY <2>2
    <3> QED BY <2>2, <2>3, <3>1, <3>2
  <2> QED BY <1>1, <2>1, <2>3, <2>4 DEF Tiling, Typed
<1>3. CASE Vanished \/ PassOver \/ Open
  <2>1. /\ files # <<>> /\ files' = Tail(files) /\ UNCHANGED <<opt, entries, tile>>
        /\ regions' = regions \/ regions' = Regions(Head(files))
    BY <1>3 DEF Vanished, PassOver, Open
  <2>2. files \in Seq(Entry) /\ Valid(opt)
    BY DEF Tiling, Typed
  <2>3. Head(files) \in Entry /\ Tail(files) \in Seq(Entry)
    BY <2>1, <2>2, HeadTail
  <2>4. Regions(Head(files)) \in Seq(Region)
    BY <2>2, <2>3, RegionsTyped
  <2> QED BY <1>1, <2>1, <2>3, <2>4 DEF Tiling, Typed
<1>4. CASE Whole
  <2>1. regions # <<>> /\ regions' = Tail(regions) /\ UNCHANGED <<opt, entries, files, tile>>
    BY <1>4 DEF Whole
  <2>2. Tail(regions) \in Seq(Region)
    BY <2>1, HeadTail DEF Tiling, Typed
  <2> QED BY <1>1, <2>1, <2>2 DEF Tiling, Typed
<1>5. CASE Tile
  <2>1. /\ regions # <<>> /\ regions' = Tail(regions) /\ UNCHANGED <<opt, entries, files>>
        /\ tiling' = TRUE /\ region' = Head(regions) /\ start' = Head(regions).from
        /\ wins' = <<>>
    BY <1>5 DEF Tile
  <2>2. Head(regions) \in Region /\ Tail(regions) \in Seq(Region)
    BY <2>1, HeadTail DEF Tiling, Typed
  <2>3. start' \in Nat /\ start' <= region'.to /\ start' = region'.from
    BY <2>1, <2>2 DEF Region
  <2>4. Len(wins') = 0 /\ wins' \in Seq(Interval)
    BY <2>1
  <2>5. Progress'
    BY <2>1, <2>3, <2>4 DEF Progress
  <2> QED BY <2>1, <2>2, <2>3, <2>4, <2>5 DEF Tiling, Typed
<1>6. CASE Walked \/ Cut \/ Reuse \/ Embed \/ Indexed \/ Fail
  <2>1. UNCHANGED <<opt, entries, files, regions, tile>>
    BY <1>6 DEF Walked, Cut, Reuse, Embed, Indexed, Fail, read
  <2> QED BY <1>1, <2>1 DEF Tiling, Typed
<1> QED BY <1>2, <1>3, <1>4, <1>5, <1>6 DEF CNext

LEMMA NextTiling == Tiling /\ [CNext]_cvars => Tiling'
<1> SUFFICES ASSUME Tiling, [CNext]_cvars PROVE Tiling'
  OBVIOUS
<1>1. CASE Window
  BY <1>1, WindowTiling
<1>2. CASE CNext /\ ~Window
  BY <1>2, OtherTiling
<1>3. CASE UNCHANGED cvars
  BY <1>3 DEF Tiling, Typed, Progress, cvars, read, tile, Last, Linked, Covered, Stride
<1> QED BY <1>1, <1>2, <1>3

(* windows: the windows of any region overlap by exactly what Options says,     *)
(* none lies inside another, and together they leave out no line - so that a    *)
(* file's last lines are retrievable whatever its length.                       *)
THEOREM WindowsTileAnyRegion == CSpec => []WindowsTile
<1>1. Tiling => WindowsTile
  BY DEF Tiling, Progress, WindowsTile, Linked, Last, Covered
<1> QED BY <1>1, InitTiling, NextTiling, PTL DEF CSpec

-----------------------------------------------------------------------------
(* Where spans come from, and that nothing is dropped on the way.              *)

Vec == [text : Seq(Lines), model : Models \cup {"none"}, fits : BOOLEAN]
Span == [path : Paths \cup {"none"}, from : Nat, to : Nat, text : Seq(Lines), vec : Vec]

(* g is a region of the file f, o the worker's settings.                       *)
RegionOf(g, f, o) ==
    /\ g.path = f.path /\ 1 <= g.from /\ g.to <= Len(f.lines)
    /\ Len(g.lines) = Len(f.lines)
    /\ o.strip /\ f.lang = "go" => \A l \in 1 .. Len(g.lines) : g.lines[l] # "prose"

SpanOf(s, f, o) ==
    /\ f.path = s.path /\ 1 <= s.from /\ s.to <= Len(f.lines)
    /\ o.strip /\ f.lang = "go" => \A l \in 1 .. Len(s.text) : s.text[l] # "prose"

Founded(g, rs, o) == \E r \in rs : r.fate = "chunked" /\ RegionOf(g, r.file, o)

Cited(s, rs, o) ==
    HasTokens(s.text) /\ \E r \in rs : r.fate = "chunked" /\ SpanOf(s, r.file, o)

(* The line l of f has yet to be cut from g.                                   *)
Waits(g, f, l) == g.path = f.path /\ g.from <= l /\ l <= g.to /\ g.lines[l] # "blank"

Provenance ==
    /\ \A r \in rows : r.file \in Entry
    /\ \A k \in 1 .. Len(regions) : Founded(regions[k], rows, opt)
    /\ tiling => Founded(region, rows, opt) /\ region.from <= start
    /\ spans \in Seq(Span)
    /\ \A i \in 1 .. Len(spans) : Cited(spans[i], rows, opt)

(* Everything a chunked file says can be retrieved is in a span, in a region   *)
(* yet to be cut, or ahead of the next window.                                 *)
Accounted ==
    /\ AllCut => regions = <<>> /\ ~tiling
    /\ \A r \in rows : r.fate = "chunked" =>
         \A l \in 1 .. Len(r.file.lines) :
           Source(r.file)[l] # "blank" /\ Wanted(r.file, l) =>
             \/ \E i \in 1 .. Len(spans) : Holds(spans[i], r.file, l)
             \/ \E k \in 1 .. Len(regions) : Waits(regions[k], r.file, l)
             \/ tiling /\ start <= l /\ Waits(region, r.file, l)

(* Before embedAll no span has a vector; while it runs, every span has its own  *)
(* or is on the list, behind the batches that are through.                     *)
Filling ==
    /\ stage \in {"walk", "read", "reuse"} =>
         lo = 0 /\ \A i \in 1 .. Len(spans) : spans[i].vec = NoVector
    /\ stage = "embed" =>
         /\ todo \in Seq(1 .. Len(spans)) /\ lo \in 0 .. Len(todo)
         /\ \A i \in 1 .. Len(spans) :
              \/ spans[i].vec = Embedded(spans[i].text)
              \/ \E k \in lo + 1 .. Len(todo) : todo[k] = i
    /\ OwnVector

CutInv == Tiling /\ Provenance /\ Accounted /\ Filling

(* A file's regions are its own, and hold every line it wants retrieved.       *)
LEMMA RegionsWhole ==
    ASSUME NEW f \in Entry, Valid(opt), Strippable(f)
    PROVE  /\ \A k \in 1 .. Len(Regions(f)) : RegionOf(Regions(f)[k], f, opt)
           /\ \A l \in 1 .. Len(f.lines) :
                Source(f)[l] # "blank" /\ Wanted(f, l) =>
                  \E k \in 1 .. Len(Regions(f)) : Waits(Regions(f)[k], f, l)
<1>1. /\ f.lines \in Seq(Lines) /\ f.decls \in Seq(Decl) /\ Len(f.lines) \in Nat
      /\ DOMAIN f.lines = 1 .. Len(f.lines)
      /\ DOMAIN f.decls = 1 .. Len(f.decls) /\ Len(f.decls) \in Nat
  BY DEF Entry
<1>2. ASSUME NEW i \in 1 .. Len(f.decls)
      PROVE  /\ First(f.decls[i]) \in Nat /\ f.decls[i].to \in Nat
             /\ 1 <= First(f.decls[i]) /\ f.decls[i].to <= Len(f.lines)
  <2>1. f.decls[i] \in Decl /\ f.decls[i].to <= Len(f.lines)
    BY <1>1 DEF Entry
  <2> QED BY <2>1 DEF Decl, First
<1>3. Source(f) = [l \in 1 .. Len(f.lines) |->
                     IF Stripped(f) /\ f.lines[l] = "prose" THEN "blank" ELSE f.lines[l]]
  BY <1>1 DEF Source
<1>4. Len(Source(f)) = Len(f.lines) /\ DOMAIN Source(f) = 1 .. Len(f.lines)
  BY <1>1, <1>3
<1>5. opt.strip /\ f.lang = "go" => \A l \in 1 .. Len(Source(f)) : Source(f)[l] # "prose"
  BY <1>3, <1>4 DEF Strippable, Stripped
<1>6. CASE ~HasTokens(Source(f))
  <2>1. Regions(f) = <<>> /\ Len(Regions(f)) = 0
    BY <1>6 DEF Regions
  <2>2. \A l \in 1 .. Len(f.lines) : Source(f)[l] = "blank"
    BY <1>4, <1>6 DEF HasTokens
  <2> QED BY <2>1, <2>2
<1>7. CASE HasTokens(Source(f)) /\ Windowed(f)
  <2> DEFINE g == [path |-> f.path, from |-> 1, to |-> Len(f.lines), lines |-> Source(f),
                   whole |-> FALSE]
  <2>1. Regions(f) = <<g>> /\ Len(Regions(f)) = 1 /\ Regions(f)[1] = g
    BY <1>7 DEF Regions
  <2>2. RegionOf(g, f, opt)
    BY <1>1, <1>4, <1>5 DEF RegionOf
  <2>3. \A l \in 1 .. Len(f.lines) : Source(f)[l] # "blank" => Waits(g, f, l)
    BY DEF Waits
  <2> HIDE DEF g
  <2> QED BY <2>1, <2>2, <2>3
<1>8. CASE HasTokens(Source(f)) /\ ~Windowed(f)
  <2> DEFINE g(i) == [path |-> f.path, from |-> First(f.decls[i]), to |-> f.decls[i].to,
                      lines |-> Source(f),
                      whole |-> f.decls[i].to - First(f.decls[i]) + 1 <= opt.maxDecl]
  <2>1. Regions(f) = [i \in 1 .. Len(f.decls) |-> g(i)]
    BY <1>1, <1>8 DEF Regions
  <2>2. Len(Regions(f)) = Len(f.decls)
    BY <1>1, <2>1
  <2>3. \A i \in 1 .. Len(f.decls) : RegionOf(g(i), f, opt)
    BY <1>2, <1>4, <1>5 DEF RegionOf
  <2>4. ASSUME NEW l \in 1 .. Len(f.lines), Source(f)[l] # "blank", Wanted(f, l)
        PROVE  \E i \in 1 .. Len(f.decls) : Waits(g(i), f, l)
    <3>1. PICK i \in 1 .. Len(f.decls) : First(f.decls[i]) <= l /\ l <= f.decls[i].to
      BY <1>1, <1>8, <2>4 DEF Wanted
    <3>2. Waits(g(i), f, l)
      BY <2>4, <3>1 DEF Waits
    <3> QED BY <3>2
  <2>5. \A i \in 1 .. Len(f.decls) : Regions(f)[i] = g(i)
    BY <2>1
  <2> HIDE DEF g
  <2> QED BY <2>2, <2>3, <2>4, <2>5
<1> QED BY <1>6, <1>7, <1>8

(* What Chunk appends is a span of the region's file, and holds each of its     *)
(* lines that has words; the spans before it stay.                              *)
LEMMA ChunkCites ==
    ASSUME NEW g \in Region, NEW a \in Nat, NEW b \in Nat, Founded(g, rows, opt),
           g.from <= a, a <= b, b <= g.to, Provenance, Chunk(g, a, b)
    PROVE  /\ spans' \in Seq(Span)
           /\ \A i \in 1 .. Len(spans') : Cited(spans'[i], rows, opt)
           /\ Len(spans) <= Len(spans')
           /\ \A i \in 1 .. Len(spans) : spans'[i] = spans[i]
           /\ \A l \in a .. b : g.lines[l] # "blank" =>
                \E i \in 1 .. Len(spans') :
                  spans'[i].path = g.path /\ spans'[i].from <= l /\ l <= spans'[i].to
<1> DEFINE text == SubSeq(g.lines, a, b)
           new == [path |-> g.path, from |-> a, to |-> b, text |-> text, vec |-> NoVector]
<1>1. PICK r \in rows : r.fate = "chunked" /\ RegionOf(g, r.file, opt) /\ r.file \in Entry
  BY DEF Founded, Provenance
<1>2. /\ g.lines \in Seq(Lines) /\ Len(g.lines) \in Nat /\ g.from \in Nat /\ g.to \in Nat
      /\ g.path \in Paths \cup {"none"} /\ 1 <= g.from /\ g.to <= Len(g.lines)
  BY <1>1 DEF Region, RegionOf
<1>3. a \in 1 .. Len(g.lines) /\ b \in 1 .. Len(g.lines)
  BY <1>2
<1>4. /\ text \in Seq(Lines) /\ Len(text) = b - a + 1
      /\ \A k \in 1 .. b - a + 1 : text[k] = g.lines[a + k - 1]
  BY <1>2, <1>3, SubSeqProperties
<1>5. DOMAIN text = 1 .. b - a + 1
  BY <1>4
<1>6. NoVector \in Vec
  BY DEF NoVector, Vec
<1>7. new \in Span
  BY <1>2, <1>4, <1>6 DEF Span
<1>8. spans' = IF HasTokens(text) THEN Append(spans, new) ELSE spans
  BY DEF Chunk
<1>9. spans \in Seq(Span) /\ Len(spans) \in Nat
  BY DEF Provenance
<1>10. ASSUME NEW l \in a .. b, g.lines[l] # "blank" PROVE HasTokens(text)
  <2>1. l - a + 1 \in 1 .. b - a + 1 /\ a + (l - a + 1) - 1 = l
    OBVIOUS
  <2> QED BY <1>4, <1>5, <1>10, <2>1 DEF HasTokens
<1>11. HasTokens(text) => Cited(new, rows, opt)
  <2>1. opt.strip /\ r.file.lang = "go" => \A k \in 1 .. Len(text) : text[k] # "prose"
    <3> SUFFICES ASSUME opt.strip, r.file.lang = "go", NEW k \in 1 .. Len(text)
                 PROVE  text[k] # "prose"
      OBVIOUS
    <3>1. a + k - 1 \in 1 .. Len(g.lines) /\ text[k] = g.lines[a + k - 1]
      BY <1>2, <1>3, <1>4
    <3> QED BY <1>1, <3>1 DEF RegionOf
  <2>2. /\ r.file.path = g.path /\ 1 <= a /\ b <= Len(r.file.lines)
    BY <1>1, <1>2, <1>3 DEF RegionOf
  <2> QED BY <1>1, <2>1, <2>2 DEF Cited, SpanOf
<1> HIDE DEF text
<1>12. CASE HasTokens(text)
  <2> /\ new.path = g.path /\ new.from = a /\ new.to = b
    OBVIOUS
  <2> HIDE DEF new
  <2>1. /\ spans' \in Seq(Span) /\ Len(spans') = Len(spans) + 1
        /\ spans'[Len(spans) + 1] = new /\ \A i \in 1 .. Len(spans) : spans'[i] = spans[i]
    BY <1>7, <1>8, <1>9, <1>12
  <2>2. ASSUME NEW i \in 1 .. Len(spans') PROVE Cited(spans'[i], rows, opt)
    <3>1. CASE i = Len(spans) + 1
      BY <1>11, <1>12, <2>1, <3>1
    <3>2. CASE i # Len(spans) + 1
      <4>1. i \in 1 .. Len(spans)
        BY <1>9, <2>1, <3>2
      <4> QED BY <2>1, <4>1 DEF Provenance
    <3> QED BY <3>1, <3>2
  <2>3. Len(spans) + 1 \in 1 .. Len(spans') /\ Len(spans) <= Len(spans')
    BY <1>9, <2>1
  <2>4. \A l \in a .. b : /\ spans'[Len(spans) + 1].path = g.path
                          /\ spans'[Len(spans) + 1].from <= l
                          /\ l <= spans'[Len(spans) + 1].to
    BY <2>1
  <2> QED BY <2>1, <2>2, <2>3, <2>4
<1>13. CASE ~HasTokens(text)
  BY <1>8, <1>9, <1>10, <1>13 DEF Provenance
<1> QED BY <1>12, <1>13

(* A chunk has no vector yet.                                                  *)
LEMMA ChunkFills ==
    ASSUME NEW g, NEW a, NEW b, Chunk(g, a, b), Provenance, Filling, stage = "read",
           UNCHANGED <<stage, todo, lo>>
    PROVE  Filling'
<1>1. spans \in Seq(Span)
  BY DEF Provenance
<1>2. lo = 0 /\ \A i \in 1 .. Len(spans) : spans[i].vec = NoVector
  BY DEF Filling
<1>3. \E s : s.vec = NoVector /\ spans' \in {spans, Append(spans, s)}
  <2>1. [path |-> g.path, from |-> a, to |-> b, text |-> SubSeq(g.lines, a, b),
         vec |-> NoVector].vec = NoVector
    OBVIOUS
  <2> QED BY <2>1 DEF Chunk
<1>4. \A i \in 1 .. Len(spans') : spans'[i].vec = NoVector
  BY <1>1, <1>2, <1>3
<1> QED BY <1>2, <1>4 DEF Filling, OwnVector, NoVector

LEMMA InitCut == CInit => CutInv
<1> SUFFICES ASSUME CInit PROVE CutInv
  OBVIOUS
<1>1. /\ stage = "walk" /\ rows = {} /\ regions = <<>> /\ tiling = FALSE /\ spans = <<>>
      /\ lo = 0
  BY DEF CInit
<1>2. Len(spans) = 0 /\ Len(regions) = 0 /\ spans \in Seq(Span)
  BY <1>1
<1>3. Provenance
  BY <1>1, <1>2 DEF Provenance
<1>4. Accounted
  BY <1>1 DEF Accounted, AllCut
<1>5. Filling
  BY <1>1, <1>2 DEF Filling, OwnVector
<1> QED BY <1>3, <1>4, <1>5, InitTiling DEF CutInv

(* A step that cuts nothing leaves account of every line.                       *)
LEMMA SameAccounted ==
    ASSUME Accounted, UNCHANGED <<opt, regions, tile>>, Len(spans') = Len(spans),
           \A i \in 1 .. Len(spans) :
             /\ spans'[i].path = spans[i].path /\ spans'[i].from = spans[i].from
             /\ spans'[i].to = spans[i].to,
           \A r \in rows' : r.fate = "chunked" => r \in rows,
           AllCut' => regions = <<>> /\ ~tiling
    PROVE  Accounted'
<1>1. opt' = opt /\ regions' = regions
      /\ tiling' = tiling /\ region' = region /\ start' = start
  BY DEF tile
<1>2. \A f, l : Source(f)' = Source(f) /\ Wanted(f, l)' = Wanted(f, l)
  BY <1>1 DEF Source, Stripped, Wanted, Windowed, First
<1>3. ASSUME NEW r \in rows', r.fate = "chunked", NEW l \in 1 .. Len(r.file.lines),
             Source(r.file)[l] # "blank", Wanted(r.file, l)
      PROVE  \/ \E i \in 1 .. Len(spans') : Holds(spans'[i], r.file, l)
             \/ \E k \in 1 .. Len(regions') : Waits(regions'[k], r.file, l)
             \/ tiling' /\ start' <= l /\ Waits(region', r.file, l)
  <2>1. r \in rows
    BY <1>3
  <2>2. CASE \E i \in 1 .. Len(spans) : Holds(spans[i], r.file, l)
    BY <2>2 DEF Holds
  <2>3. CASE ~\E i \in 1 .. Len(spans) : Holds(spans[i], r.file, l)
    BY <1>1, <1>3, <2>1, <2>3 DEF Accounted
  <2> QED BY <2>2, <2>3
<1>4. \A r \in rows' : r.fate = "chunked" =>
        \A l \in 1 .. Len(r.file.lines) :
          (Source(r.file)[l] # "blank" /\ Wanted(r.file, l))' =>
            \/ \E i \in 1 .. Len(spans') : Holds(spans'[i], r.file, l)
            \/ \E k \in 1 .. Len(regions') : Waits(regions'[k], r.file, l)
            \/ tiling' /\ start' <= l /\ Waits(region', r.file, l)
  BY <1>2, <1>3
<1> QED BY <1>1, <1>4 DEF Accounted

(* A file that is passed over adds a row that says so.                         *)
LEMMA PassedCut ==
    ASSUME CutInv, Vanished \/ PassOver
    PROVE  Provenance' /\ Accounted' /\ Filling'
<1> DEFINE f == Head(files)
<1>1. /\ stage = "read" /\ files # <<>>
      /\ \E fate \in {"vanished", "passed over"} : rows' = rows \cup {Row(f, fate)}
      /\ UNCHANGED <<stage, opt, regions, tile, spans, todo, lo>>
  BY DEF Vanished, PassOver, Between
<1>2. f \in Entry
  BY <1>1, HeadTail DEF CutInv, Tiling, Typed
<1>3. /\ rows \subseteq rows'
      /\ \A r \in rows' : r \in rows \/ (r.file = f /\ r.fate # "chunked")
  <2>1. PICK fate \in {"vanished", "passed over"} : rows' = rows \cup {Row(f, fate)}
    BY <1>1
  <2>2. Row(f, fate).file = f /\ Row(f, fate).fate # "chunked"
    BY DEF Row
  <2> QED BY <2>1, <2>2
<1> HIDE DEF f
<1>4. tiling' = tiling /\ region' = region /\ start' = start
  BY <1>1 DEF tile
<1>5. Provenance'
  <2>1. \A r \in rows' : r.file \in Entry
    BY <1>2, <1>3 DEF CutInv, Provenance
  <2>2. \A g : Founded(g, rows, opt) => Founded(g, rows', opt')
    BY <1>1, <1>3 DEF Founded
  <2>3. \A s : Cited(s, rows, opt) => Cited(s, rows', opt')
    BY <1>1, <1>3 DEF Cited
  <2> QED BY <1>1, <1>4, <2>1, <2>2, <2>3 DEF CutInv, Provenance
<1>6. Accounted'
  <2>1. ~AllCut'
    BY <1>1 DEF AllCut
  <2>2. \A r \in rows' : r.fate = "chunked" => r \in rows
    BY <1>3
  <2> QED BY <1>1, <2>1, <2>2, SameAccounted DEF CutInv
<1>7. Filling'
  BY <1>1 DEF CutInv, Filling, OwnVector, NoVector, Embedded, Vector
<1> QED BY <1>5, <1>6, <1>7

(* An opened file's lines wait in its regions.                                 *)
LEMMA OpenCut ==
    ASSUME CutInv, Open
    PROVE  Provenance' /\ Accounted' /\ Filling'
<1> DEFINE f == Head(files)
           gs == Regions(f)
           new == Row(f, "chunked")
<1>1. /\ stage = "read" /\ regions = <<>> /\ ~tiling /\ files # <<>> /\ Strippable(f)
      /\ rows' = rows \cup {new} /\ regions' = gs
      /\ UNCHANGED <<stage, opt, tile, spans, todo, lo>>
  BY DEF Open, Between
<1>2. f \in Entry
  BY <1>1, HeadTail DEF CutInv, Tiling, Typed
<1>3. new.file = f /\ new.fate = "chunked" /\ new \in rows'
  BY <1>1 DEF Row
<1>4. /\ \A k \in 1 .. Len(gs) : RegionOf(gs[k], f, opt)
      /\ \A l \in 1 .. Len(f.lines) :
           Source(f)[l] # "blank" /\ Wanted(f, l) =>
             \E k \in 1 .. Len(gs) : Waits(gs[k], f, l)
  BY <1>1, <1>2, RegionsWhole DEF CutInv, Tiling, Typed
<1> HIDE DEF f, gs, new
<1>5. tiling' = tiling /\ region' = region /\ start' = start
  BY <1>1 DEF tile
<1>6. \A g, l : Source(g)' = Source(g) /\ Wanted(g, l)' = Wanted(g, l)
  BY <1>1 DEF Source, Stripped, Wanted, Windowed, First
<1>7. Provenance'
  <2>1. \A r \in rows' : r.file \in Entry
    BY <1>1, <1>2, <1>3 DEF CutInv, Provenance
  <2>2. \A k \in 1 .. Len(regions') : Founded(regions'[k], rows', opt')
    BY <1>1, <1>3, <1>4 DEF Founded
  <2>3. \A s : Cited(s, rows, opt) => Cited(s, rows', opt')
    BY <1>1 DEF Cited
  <2> QED BY <1>1, <1>5, <2>1, <2>2, <2>3 DEF CutInv, Provenance
<1>8. Accounted'
  <2>1. ~AllCut'
    BY <1>1 DEF AllCut
  <2>2. ASSUME NEW r \in rows', r.fate = "chunked", NEW l \in 1 .. Len(r.file.lines),
               Source(r.file)[l] # "blank", Wanted(r.file, l)
        PROVE  \/ \E i \in 1 .. Len(spans') : Holds(spans'[i], r.file, l)
               \/ \E k \in 1 .. Len(regions') : Waits(regions'[k], r.file, l)
    <3>1. CASE r = new
      BY <1>1, <1>3, <1>4, <2>2, <3>1
    <3>2. CASE r \in rows
      <4>1. Len(regions) = 0
        BY <1>1
      <4>2. \E i \in 1 .. Len(spans) : Holds(spans[i], r.file, l)
        BY <1>1, <2>2, <3>2, <4>1 DEF CutInv, Accounted
      <4> QED BY <1>1, <4>2
    <3> QED BY <1>1, <3>1, <3>2
  <2>3. \A r \in rows' : r.fate = "chunked" =>
          \A l \in 1 .. Len(r.file.lines) :
            (Source(r.file)[l] # "blank" /\ Wanted(r.file, l))' =>
              \/ \E i \in 1 .. Len(spans') : Holds(spans'[i], r.file, l)
              \/ \E k \in 1 .. Len(regions') : Waits(regions'[k], r.file, l)
    BY <1>6, <2>2
  <2> QED BY <2>1, <2>3 DEF Accounted
<1>9. Filling'
  BY <1>1 DEF CutInv, Filling, OwnVector, NoVector, Embedded, Vector
<1> QED BY <1>7, <1>8, <1>9

(* A region becomes one span, and its lines with words are in it.              *)
LEMMA WholeCut ==
    ASSUME CutInv, Whole
    PROVE  Provenance' /\ Accounted' /\ Filling'
<1> DEFINE g == Head(regions)
<1>1. /\ stage = "read" /\ ~tiling /\ regions # <<>> /\ Chunk(g, g.from, g.to)
      /\ regions' = Tail(regions)
      /\ UNCHANGED <<stage, opt, rows, tile, todo, lo>>
  BY DEF Whole
<1>2. /\ regions \in Seq(Region) /\ Len(regions) \in Nat /\ Len(regions) >= 1
      /\ g = regions[1] /\ g \in Region
  BY <1>1, HeadTail DEF CutInv, Tiling, Typed
<1>3. /\ Len(regions') = Len(regions) - 1
      /\ \A k \in 1 .. Len(regions') : k + 1 \in 1 .. Len(regions)
                                       /\ regions'[k] = regions[k + 1]
      /\ \A k \in 2 .. Len(regions) : k - 1 \in 1 .. Len(regions')
                                      /\ regions'[k - 1] = regions[k]
  BY <1>1, <1>2
<1> HIDE DEF g
<1>4. g.from \in Nat /\ g.to \in Nat /\ g.from <= g.to
  BY <1>2 DEF Region
<1>5. Founded(g, rows, opt)
  BY <1>2 DEF CutInv, Provenance
<1>6. /\ spans' \in Seq(Span)
      /\ \A i \in 1 .. Len(spans') : Cited(spans'[i], rows, opt)
      /\ Len(spans) <= Len(spans')
      /\ \A i \in 1 .. Len(spans) : spans'[i] = spans[i]
      /\ \A l \in g.from .. g.to : g.lines[l] # "blank" =>
           \E i \in 1 .. Len(spans') :
             spans'[i].path = g.path /\ spans'[i].from <= l /\ l <= spans'[i].to
  <2>1. g \in Region /\ Provenance /\ Chunk(g, g.from, g.to) /\ g.from <= g.from
    BY <1>1, <1>2, <1>4 DEF CutInv
  <2> QED BY <1>4, <1>5, <2>1, ChunkCites
<1>7. tiling' = tiling /\ region' = region /\ start' = start
  BY <1>1 DEF tile
<1>8. \A f, l : Source(f)' = Source(f) /\ Wanted(f, l)' = Wanted(f, l)
  BY <1>1 DEF Source, Stripped, Wanted, Windowed, First
<1>9. Provenance'
  <2>1. \A k \in 1 .. Len(regions') : Founded(regions'[k], rows, opt)
    BY <1>3 DEF CutInv, Provenance
  <2> QED BY <1>1, <1>6, <1>7, <2>1 DEF CutInv, Provenance
<1>10. Accounted'
  <2>1. ~AllCut'
    BY <1>1 DEF AllCut
  <2>2. ASSUME NEW r \in rows, r.fate = "chunked", NEW l \in 1 .. Len(r.file.lines),
               Source(r.file)[l] # "blank", Wanted(r.file, l)
        PROVE  \/ \E i \in 1 .. Len(spans') : Holds(spans'[i], r.file, l)
               \/ \E k \in 1 .. Len(regions') : Waits(regions'[k], r.file, l)
    <3>0. Len(r.file.lines) \in Nat
      BY DEF CutInv, Provenance, Entry
    <3>1. CASE \E i \in 1 .. Len(spans) : Holds(spans[i], r.file, l)
      <4>1. Len(spans) \in Nat /\ Len(spans') \in Nat
        BY <1>6 DEF CutInv, Provenance
      <4> QED BY <1>6, <3>1, <4>1
    <3>2. CASE Waits(g, r.file, l)
      <4>1. l \in g.from .. g.to /\ g.lines[l] # "blank" /\ g.path = r.file.path
        BY <1>4, <3>0, <3>2 DEF Waits
      <4> QED BY <1>6, <4>1 DEF Holds
    <3>3. CASE \E k \in 2 .. Len(regions) : Waits(regions[k], r.file, l)
      BY <1>3, <3>3
    <3> QED BY <1>1, <1>2, <2>2, <3>1, <3>2, <3>3 DEF CutInv, Accounted
  <2>3. \A r \in rows' : r.fate = "chunked" =>
          \A l \in 1 .. Len(r.file.lines) :
            (Source(r.file)[l] # "blank" /\ Wanted(r.file, l))' =>
              \/ \E i \in 1 .. Len(spans') : Holds(spans'[i], r.file, l)
              \/ \E k \in 1 .. Len(regions') : Waits(regions'[k], r.file, l)
    BY <1>1, <1>8, <2>2
  <2> QED BY <2>1, <2>3 DEF Accounted
<1>11. Filling'
  BY <1>1, <1>2, ChunkFills DEF CutInv
<1> QED BY <1>9, <1>10, <1>11

(* A region is taken up: its lines are all ahead of its first window.           *)
LEMMA TileCut ==
    ASSUME CutInv, Tile
    PROVE  Provenance' /\ Accounted' /\ Filling'
<1>1. /\ stage = "read" /\ ~tiling /\ regions # <<>> /\ tiling' = TRUE
      /\ region' = regions[1] /\ start' = regions[1].from /\ regions' = Tail(regions)
      /\ UNCHANGED <<stage, opt, rows, spans, todo, lo>>
  BY DEF Tile
<1>2. /\ regions \in Seq(Region) /\ Len(regions) \in Nat /\ Len(regions) >= 1
      /\ regions[1] \in Region
  BY <1>1 DEF CutInv, Tiling, Typed
<1>3. /\ Len(regions') = Len(regions) - 1
      /\ \A k \in 1 .. Len(regions') : k + 1 \in 1 .. Len(regions)
                                       /\ regions'[k] = regions[k + 1]
      /\ \A k \in 2 .. Len(regions) : k - 1 \in 1 .. Len(regions')
                                      /\ regions'[k - 1] = regions[k]
  BY <1>1, <1>2
<1>4. regions[1].from \in Nat
  BY <1>2 DEF Region
<1>5. \A f, l : Source(f)' = Source(f) /\ Wanted(f, l)' = Wanted(f, l)
  BY <1>1 DEF Source, Stripped, Wanted, Windowed, First
<1>6. Provenance'
  <2>1. \A k \in 1 .. Len(regions') : Founded(regions'[k], rows, opt)
    BY <1>3 DEF CutInv, Provenance
  <2>2. Founded(region', rows, opt) /\ region'.from <= start'
    BY <1>1, <1>2, <1>4 DEF CutInv, Provenance
  <2> QED BY <1>1, <2>1, <2>2 DEF CutInv, Provenance
<1>7. Accounted'
  <2>1. ~AllCut'
    BY <1>1 DEF AllCut
  <2>2. ASSUME NEW r \in rows, r.fate = "chunked", NEW l \in 1 .. Len(r.file.lines),
               Source(r.file)[l] # "blank", Wanted(r.file, l)
        PROVE  \/ \E i \in 1 .. Len(spans) : Holds(spans[i], r.file, l)
               \/ \E k \in 1 .. Len(regions') : Waits(regions'[k], r.file, l)
               \/ start' <= l /\ Waits(region', r.file, l)
    <3>1. CASE \E k \in 2 .. Len(regions) : Waits(regions[k], r.file, l)
      BY <1>3, <3>1
    <3>2. CASE Waits(regions[1], r.file, l)
      BY <1>1, <3>2 DEF Waits
    <3> QED BY <1>1, <1>2, <2>2, <3>1, <3>2 DEF CutInv, Accounted
  <2>3. \A r \in rows' : r.fate = "chunked" =>
          \A l \in 1 .. Len(r.file.lines) :
            (Source(r.file)[l] # "blank" /\ Wanted(r.file, l))' =>
              \/ \E i \in 1 .. Len(spans') : Holds(spans'[i], r.file, l)
              \/ \E k \in 1 .. Len(regions') : Waits(regions'[k], r.file, l)
              \/ tiling' /\ start' <= l /\ Waits(region', r.file, l)
    BY <1>1, <1>5, <2>2
  <2> QED BY <2>1, <2>3 DEF Accounted
<1>8. Filling'
  BY <1>1 DEF CutInv, Filling, OwnVector, NoVector, Embedded, Vector
<1> QED BY <1>6, <1>7, <1>8

(* A window takes the region's next lines: whatever it leaves is ahead of the   *)
(* window after it.                                                            *)
LEMMA WindowCut ==
    ASSUME CutInv, Window
    PROVE  Provenance' /\ Accounted' /\ Filling'
<1> DEFINE full == start + opt.lines - 1
           end == IF full < region.to THEN full ELSE region.to
<1>1. /\ stage = "read" /\ tiling /\ start <= region.to /\ Chunk(region, start, end)
      /\ tiling' = ~(end = region.to)
      /\ start' = IF end = region.to THEN start ELSE start + (opt.lines - opt.overlap)
      /\ UNCHANGED <<stage, opt, rows, regions, region, todo, lo>>
  BY DEF Window, LastWindow, Stride
<1>2. /\ opt.lines \in Nat /\ opt.overlap \in Nat /\ opt.overlap < opt.lines
      /\ region \in Region /\ region.from \in Nat /\ region.to \in Nat /\ start \in Nat
  BY DEF CutInv, Tiling, Typed, Valid, Region
<1>3. Founded(region, rows, opt) /\ region.from <= start
  BY <1>1 DEF CutInv, Provenance
<1>4. end \in Nat /\ start <= end /\ end <= region.to
  BY <1>1, <1>2
<1>5. end # region.to => start <= start' /\ start' <= end + 1
  BY <1>1, <1>2
<1> HIDE DEF full, end
<1>6. /\ spans' \in Seq(Span)
      /\ \A i \in 1 .. Len(spans') : Cited(spans'[i], rows, opt)
      /\ Len(spans) <= Len(spans')
      /\ \A i \in 1 .. Len(spans) : spans'[i] = spans[i]
      /\ \A l \in start .. end : region.lines[l] # "blank" =>
           \E i \in 1 .. Len(spans') :
             spans'[i].path = region.path /\ spans'[i].from <= l /\ l <= spans'[i].to
  BY <1>1, <1>2, <1>3, <1>4, ChunkCites DEF CutInv
<1>7. \A f, l : Source(f)' = Source(f) /\ Wanted(f, l)' = Wanted(f, l)
  BY <1>1 DEF Source, Stripped, Wanted, Windowed, First
<1>8. Provenance'
  <2>1. tiling' => region'.from <= start'
    BY <1>1, <1>2, <1>3, <1>5
  <2> QED BY <1>1, <1>3, <1>6, <2>1 DEF CutInv, Provenance
<1>9. Accounted'
  <2>1. ~AllCut'
    BY <1>1 DEF AllCut
  <2>2. ASSUME NEW r \in rows, r.fate = "chunked", NEW l \in 1 .. Len(r.file.lines),
               Source(r.file)[l] # "blank", Wanted(r.file, l)
        PROVE  \/ \E i \in 1 .. Len(spans') : Holds(spans'[i], r.file, l)
               \/ \E k \in 1 .. Len(regions) : Waits(regions[k], r.file, l)
               \/ tiling' /\ start' <= l /\ Waits(region, r.file, l)
    <3>0. Len(r.file.lines) \in Nat
      BY DEF CutInv, Provenance, Entry
    <3>1. CASE \E i \in 1 .. Len(spans) : Holds(spans[i], r.file, l)
      <4>1. Len(spans) \in Nat /\ Len(spans') \in Nat
        BY <1>6 DEF CutInv, Provenance
      <4> QED BY <1>6, <3>1, <4>1
    <3>2. CASE start <= l /\ Waits(region, r.file, l)
      <4>1. /\ l \in Nat /\ l <= region.to /\ region.lines[l] # "blank"
            /\ region.path = r.file.path
        BY <3>0, <3>2 DEF Waits
      <4>2. CASE l <= end
        <5>1. l \in start .. end
          BY <1>2, <1>4, <3>2, <4>1, <4>2
        <5> QED BY <1>6, <4>1, <5>1 DEF Holds
      <4>3. CASE ~(l <= end)
        <5>1. end # region.to /\ start' <= l
          BY <1>1, <1>2, <1>4, <1>5, <4>1, <4>3
        <5> QED BY <1>1, <3>2, <5>1
      <4> QED BY <4>2, <4>3
    <3> QED BY <2>2, <3>1, <3>2 DEF CutInv, Accounted
  <2>3. \A r \in rows' : r.fate = "chunked" =>
          \A l \in 1 .. Len(r.file.lines) :
            (Source(r.file)[l] # "blank" /\ Wanted(r.file, l))' =>
              \/ \E i \in 1 .. Len(spans') : Holds(spans'[i], r.file, l)
              \/ \E k \in 1 .. Len(regions') : Waits(regions'[k], r.file, l)
              \/ tiling' /\ start' <= l /\ Waits(region', r.file, l)
    BY <1>1, <1>7, <2>2
  <2> QED BY <2>1, <2>3 DEF Accounted
<1>10. Filling'
  BY <1>1, ChunkFills DEF CutInv
<1> QED BY <1>8, <1>9, <1>10

(* Filling in vectors cuts nothing and moves nothing.                          *)
LEMMA RefilledCut ==
    ASSUME Provenance, Accounted, UNCHANGED <<opt, read>>, spans' \in Seq(Span),
           Len(spans') = Len(spans),
           \A i \in 1 .. Len(spans) :
             /\ spans'[i].path = spans[i].path /\ spans'[i].from = spans[i].from
             /\ spans'[i].to = spans[i].to /\ spans'[i].text = spans[i].text,
           AllCut' => regions = <<>> /\ ~tiling
    PROVE  Provenance' /\ Accounted'
<1>1. UNCHANGED <<opt, rows, regions, tile, tiling, region, start>>
  BY DEF read, tile
<1>2. \A i \in 1 .. Len(spans') : Cited(spans'[i], rows, opt)
  BY DEF Provenance, Cited, SpanOf
<1>3. Provenance'
  BY <1>1, <1>2 DEF Provenance
<1> QED BY <1>1, <1>3, SameAccounted

(* What a row of our own model and width lends is what embedding would give.   *)
LEMMA LookupEmbeds ==
    ASSUME NEW corpus \in Corpora, NEW text \in Seq(Lines), HasTokens(text),
           Lookup(corpus, text) # <<>>, Head(Lookup(corpus, text)).fits
    PROVE  Vector(text, Head(Lookup(corpus, text))) = Embedded(text)
<1> DEFINE list == corpus[text[1]]
           gone == {r \in VectorRow : r.model # EmbedModel}
           found == Without(list, gone)
<1>1. text[1] \in Lines
  <2>1. DOMAIN text = 1 .. Len(text) /\ Len(text) \in Nat /\ Len(text) >= 1
    BY DEF HasTokens
  <2> QED BY <2>1
<1>2. list \in Seq(VectorRow)
  BY <1>1, ContentAssumption DEF ContentAssumption
<1>3. found = Lookup(corpus, text)
  BY DEF Lookup
<1> HIDE DEF list, gone, found
<1>4. found \in Seq(VectorRow) /\ Range(found) = Range(list) \ gone
  BY <1>2, <1>3, WithoutTyped, WithoutElements DEF found
<1>5. Head(found) = found[1] /\ 1 \in DOMAIN found /\ Head(found) \in VectorRow
  BY <1>3, <1>4
<1>6. Head(found) \in Range(found)
  BY <1>5 DEF Range
<1>7. Head(found).model = EmbedModel
  BY <1>4, <1>5, <1>6 DEF gone
<1>8. Head(found).fits = TRUE
  BY <1>3, <1>5 DEF VectorRow
<1> QED BY <1>3, <1>7, <1>8 DEF Vector, Embedded

(* The list embedAll gets is of the spans the reuse pass left.                 *)
LEMMA UnfilledLists ==
    ASSUME NEW ss \in Seq(Span)
    PROVE  /\ Unfilled(ss) \in Seq(1 .. Len(ss))
           /\ \A i \in 1 .. Len(ss) : ss[i].vec = NoVector =>
                \E k \in 1 .. Len(Unfilled(ss)) : Unfilled(ss)[k] = i
<1> DEFINE all == [i \in 1 .. Len(ss) |-> i]
           gone == {i \in 1 .. Len(ss) : ss[i].vec # NoVector}
           left == Without(all, gone)
<1>1. Len(ss) \in Nat /\ DOMAIN ss = 1 .. Len(ss)
  OBVIOUS
<1>2. Unfilled(ss) = left
  BY <1>1 DEF Unfilled
<1>3. all \in Seq(1 .. Len(ss)) /\ Len(all) = Len(ss)
  BY <1>1
<1>4. \A i \in 1 .. Len(ss) : i \in Range(all)
  BY <1>1 DEF Range
<1> HIDE DEF all
<1>5. \A i \in 1 .. Len(ss) : i \in gone <=> ss[i].vec # NoVector
  OBVIOUS
<1> HIDE DEF gone
<1>6. left \in Seq(1 .. Len(ss)) /\ Range(left) = Range(all) \ gone
  BY <1>3, WithoutTyped, WithoutElements
<1> HIDE DEF left
<1>7. ASSUME NEW i \in 1 .. Len(ss), ss[i].vec = NoVector
      PROVE  \E k \in 1 .. Len(left) : left[k] = i
  <2>1. i \in Range(left)
    BY <1>4, <1>5, <1>6, <1>7
  <2>2. DOMAIN left = 1 .. Len(left)
    BY <1>6
  <2> QED BY <2>1, <2>2 DEF Range
<1> QED BY <1>2, <1>6, <1>7

LEMMA ReuseCut ==
    ASSUME CutInv, Reuse
    PROVE  Provenance' /\ Accounted' /\ Filling'
<1>1. /\ stage = "reuse" /\ stage' = "embed" /\ todo' = Unfilled(spans')
      /\ UNCHANGED <<opt, read, lo>>
  BY DEF Reuse
<1>2. /\ spans \in Seq(Span) /\ Len(spans) \in Nat /\ DOMAIN spans = 1 .. Len(spans)
      /\ \A i \in 1 .. Len(spans) : spans[i] \in Span /\ HasTokens(spans[i].text)
  BY DEF CutInv, Provenance, Cited
<1>3. lo = 0 /\ \A i \in 1 .. Len(spans) : spans[i].vec = NoVector
  BY <1>1 DEF CutInv, Filling
<1>4. /\ spans' \in Seq(Span) /\ Len(spans') = Len(spans)
      /\ \A i \in 1 .. Len(spans) :
           /\ spans'[i].path = spans[i].path /\ spans'[i].from = spans[i].from
           /\ spans'[i].to = spans[i].to /\ spans'[i].text = spans[i].text
           /\ spans'[i].vec = NoVector \/ spans'[i].vec = Embedded(spans[i].text)
  <2>1. CASE UNCHANGED spans
    BY <1>2, <1>3, <2>1
  <2>2. CASE \E corpus \in Corpora :
               /\ \A i \in DOMAIN spans :
                    LET found == Lookup(corpus, spans[i].text)
                    IN  found # <<>> => Head(found).fits
               /\ spans' = [i \in DOMAIN spans |->
                              LET found == Lookup(corpus, spans[i].text)
                              IN  IF found = <<>> THEN spans[i]
                                  ELSE [spans[i] EXCEPT !.vec =
                                          Vector(spans[i].text, Head(found))]]
    <3>1. PICK corpus \in Corpora :
            /\ \A i \in 1 .. Len(spans) :
                 Lookup(corpus, spans[i].text) # <<>> =>
                   Head(Lookup(corpus, spans[i].text)).fits
            /\ spans' = [i \in 1 .. Len(spans) |->
                           IF Lookup(corpus, spans[i].text) = <<>> THEN spans[i]
                           ELSE [spans[i] EXCEPT !.vec =
                                   Vector(spans[i].text,
                                          Head(Lookup(corpus, spans[i].text)))]]
      BY <1>2, <2>2
    <3>2. ASSUME NEW i \in 1 .. Len(spans)
          PROVE  /\ spans'[i] \in {spans[i],
                                   [spans[i] EXCEPT !.vec = Embedded(spans[i].text)]}
                 /\ spans[i] \in Span /\ Embedded(spans[i].text) \in Vec
      <4>1. spans[i].text \in Seq(Lines) /\ HasTokens(spans[i].text) /\ spans[i] \in Span
        BY <1>2 DEF Span
      <4>2. Lookup(corpus, spans[i].text) # <<>> =>
              Vector(spans[i].text, Head(Lookup(corpus, spans[i].text)))
                = Embedded(spans[i].text)
        BY <3>1, <4>1, LookupEmbeds
      <4>3. Embedded(spans[i].text) \in Vec
        BY <4>1, ContentAssumption DEF ContentAssumption, Embedded, Vector, Vec
      <4> QED BY <3>1, <4>1, <4>2, <4>3
    <3>3. \A i \in 1 .. Len(spans) :
            /\ spans'[i] \in Span
            /\ spans'[i].path = spans[i].path /\ spans'[i].from = spans[i].from
            /\ spans'[i].to = spans[i].to /\ spans'[i].text = spans[i].text
            /\ spans'[i].vec = NoVector \/ spans'[i].vec = Embedded(spans[i].text)
      BY <1>3, <3>2 DEF Span
    <3>4. DOMAIN spans' = 1 .. Len(spans)
          /\ spans' = [i \in 1 .. Len(spans) |-> spans'[i]]
      BY <3>1
    <3>5. spans' \in Seq(Span) /\ Len(spans') = Len(spans)
      BY <1>2, <3>3, <3>4
    <3> QED BY <3>3, <3>5
  <2> QED BY <2>1, <2>2 DEF Reuse
<1>5. regions = <<>> /\ ~tiling
  BY <1>1 DEF CutInv, Accounted, AllCut
<1>6. Provenance' /\ Accounted'
  BY <1>1, <1>4, <1>5, RefilledCut DEF CutInv
<1>7. /\ todo' \in Seq(1 .. Len(spans'))
      /\ \A i \in 1 .. Len(spans') : spans'[i].vec = NoVector =>
           \E k \in 1 .. Len(todo') : todo'[k] = i
  BY <1>1, <1>4, UnfilledLists
<1>8. Filling'
  <2>1. Len(todo') \in Nat
    BY <1>7
  <2>2. \A i \in 1 .. Len(spans') :
          \/ spans'[i].vec = Embedded(spans'[i].text)
          \/ \E k \in 0 + 1 .. Len(todo') : todo'[k] = i
    BY <1>4, <1>7
  <2>3. lo' = 0
    BY <1>1, <1>3
  <2>4. 0 \in 0 .. Len(todo')
    BY <2>1
  <2> QED BY <1>1, <1>7, <2>2, <2>3, <2>4 DEF Filling, OwnVector, Embedded, Vector
<1> QED BY <1>6, <1>8

(* A batch gives each of its spans the vector of its own text, and leaves the   *)
(* rest of the list for the next.                                              *)
LEMMA EmbedCut ==
    ASSUME CutInv, Embed
    PROVE  Provenance' /\ Accounted' /\ Filling'
<1> DEFINE left == Len(todo) - lo
           size == IF left < EmbedBatch THEN left ELSE EmbedBatch
           texts == [k \in Batch |-> spans[todo[lo + k]].text]
           own(i) == CHOOSE k \in Batch : Place(k) = i
<1>1. /\ stage = "embed" /\ lo < Len(todo) /\ lo' = lo + Cardinality(Batch)
      /\ UNCHANGED <<stage, opt, read, todo>>
  BY DEF Embed
<1>2. /\ spans \in Seq(Span) /\ Len(spans) \in Nat /\ DOMAIN spans = 1 .. Len(spans)
      /\ \A i \in 1 .. Len(spans) : spans[i] \in Span
  BY DEF CutInv, Provenance
<1>3. /\ todo \in Seq(1 .. Len(spans)) /\ lo \in 0 .. Len(todo) /\ Len(todo) \in Nat
      /\ \A i \in 1 .. Len(spans) :
           \/ spans[i].vec = Embedded(spans[i].text)
           \/ \E k \in lo + 1 .. Len(todo) : todo[k] = i
  BY <1>1 DEF CutInv, Filling
<1>4. EmbedBatch \in Nat /\ EmbedBatch >= 1
  BY ContentAssumption DEF ContentAssumption
<1>5. Batch = 1 .. size
  BY DEF Batch
<1>6. size \in Nat /\ 1 <= size /\ lo + size <= Len(todo)
  BY <1>1, <1>3, <1>4
<1> HIDE DEF size
<1>7. Cardinality(Batch) = size
  BY <1>5, <1>6, FS_Interval
<1>8. lo' = lo + size
  BY <1>1, <1>7
<1>9. \A k \in Batch : lo + k \in 1 .. Len(todo) /\ todo[lo + k] \in 1 .. Len(spans)
  BY <1>3, <1>5, <1>6
<1>10. spans' = [i \in 1 .. Len(spans) |->
                   IF \E k \in Batch : Place(k) = i
                   THEN [spans[i] EXCEPT !.vec = Embedded(texts[own(i)])]
                   ELSE spans[i]]
  BY <1>2 DEF Embed
<1>11. ASSUME NEW i \in 1 .. Len(spans), \E k \in Batch : Place(k) = i
       PROVE  texts[own(i)] = spans[i].text
  <2>1. own(i) \in Batch /\ Place(own(i)) = i
    BY <1>11
  <2>2. texts[own(i)] = spans[todo[lo + own(i)]].text
    BY <2>1
  <2> HIDE DEF own, texts
  <2> QED BY <2>1, <2>2 DEF Place
<1> HIDE DEF texts, own
<1>12. ASSUME NEW i \in 1 .. Len(spans)
       PROVE  /\ (\E k \in Batch : todo[lo + k] = i) =>
                    spans'[i] = [spans[i] EXCEPT !.vec = Embedded(spans[i].text)]
              /\ ~(\E k \in Batch : todo[lo + k] = i) => spans'[i] = spans[i]
              /\ spans[i] \in Span /\ Embedded(spans[i].text) \in Vec
  <2>1. spans[i] \in Span /\ spans[i].text \in Seq(Lines)
    BY <1>2 DEF Span
  <2>2. Embedded(spans[i].text) \in Vec
    BY <2>1, ContentAssumption DEF ContentAssumption, Embedded, Vector, Vec
  <2>3. CASE \E k \in Batch : todo[lo + k] = i
    <3>1. \E k \in Batch : Place(k) = i
      BY <2>3 DEF Place
    <3> QED BY <1>10, <1>11, <2>1, <2>2, <2>3, <3>1
  <2>4. CASE ~\E k \in Batch : todo[lo + k] = i
    <3>1. ~\E k \in Batch : Place(k) = i
      BY <2>4 DEF Place
    <3> QED BY <1>10, <2>1, <2>2, <2>4, <3>1
  <2> QED BY <2>3, <2>4
<1>13. \A i \in 1 .. Len(spans) :
         /\ spans'[i] \in Span
         /\ spans'[i].path = spans[i].path /\ spans'[i].from = spans[i].from
         /\ spans'[i].to = spans[i].to /\ spans'[i].text = spans[i].text
         /\ (\E k \in Batch : todo[lo + k] = i) => spans'[i].vec = Embedded(spans[i].text)
         /\ ~(\E k \in Batch : todo[lo + k] = i) => spans'[i].vec = spans[i].vec
  <2>1. \A s \in Span, v \in Vec :
          LET t == [s EXCEPT !.vec = v]
          IN  /\ t \in Span /\ t.path = s.path /\ t.from = s.from /\ t.to = s.to
              /\ t.text = s.text /\ t.vec = v
    BY DEF Span
  <2> TAKE i \in 1 .. Len(spans)
  <2>2. CASE \E k \in Batch : todo[lo + k] = i
    <3>1. /\ spans'[i] = [spans[i] EXCEPT !.vec = Embedded(spans[i].text)]
          /\ spans[i] \in Span /\ Embedded(spans[i].text) \in Vec
      BY <1>12, <2>2
    <3> QED BY <2>1, <2>2, <3>1
  <2>3. CASE ~\E k \in Batch : todo[lo + k] = i
    <3>1. spans'[i] = spans[i] /\ spans[i] \in Span
      BY <1>12, <2>3
    <3> QED BY <2>3, <3>1
  <2> QED BY <2>2, <2>3
<1>14. DOMAIN spans' = 1 .. Len(spans) /\ spans' = [i \in 1 .. Len(spans) |-> spans'[i]]
  BY <1>10
<1>15. spans' \in Seq(Span) /\ Len(spans') = Len(spans)
  BY <1>2, <1>13, <1>14
<1>16. regions = <<>> /\ ~tiling
  BY <1>1 DEF CutInv, Accounted, AllCut
<1>17. Provenance' /\ Accounted'
  BY <1>1, <1>13, <1>15, <1>16, RefilledCut DEF CutInv
<1>18. Filling'
  <2>1. ASSUME NEW i \in 1 .. Len(spans)
        PROVE  \/ spans'[i].vec = Embedded(spans'[i].text)
               \/ \E k \in lo' + 1 .. Len(todo') : todo'[k] = i
    <3>1. CASE \E k \in Batch : todo[lo + k] = i
      BY <1>13, <3>1
    <3>2. CASE ~\E k \in Batch : todo[lo + k] = i
      <4>1. CASE spans[i].vec = Embedded(spans[i].text)
        BY <1>13, <3>2, <4>1
      <4>2. CASE \E k \in lo + 1 .. Len(todo) : todo[k] = i
        <5>1. PICK k \in lo + 1 .. Len(todo) : todo[k] = i
          BY <4>2
        <5>2. k > lo + size
          <6> SUFFICES ASSUME ~(k > lo + size) PROVE FALSE
            OBVIOUS
          <6>1. k - lo \in 1 .. size /\ lo + (k - lo) = k
            BY <1>3, <1>6, <5>1
          <6> QED BY <1>5, <3>2, <5>1, <6>1
        <5>3. k \in lo' + 1 .. Len(todo')
          BY <1>1, <1>3, <1>6, <1>8, <5>1, <5>2
        <5> QED BY <1>1, <5>1, <5>3
      <4> QED BY <1>3, <4>1, <4>2
    <3> QED BY <3>1, <3>2
  <2>2. todo' \in Seq(1 .. Len(spans')) /\ lo' \in 0 .. Len(todo')
    BY <1>1, <1>3, <1>6, <1>8, <1>15
  <2>3. \A i \in 1 .. Len(spans') :
          \/ spans'[i].vec = Embedded(spans'[i].text)
          \/ \E k \in lo' + 1 .. Len(todo') : todo'[k] = i
    BY <1>15, <2>1
  <2> QED BY <1>1, <2>2, <2>3 DEF Filling, OwnVector, Embedded, Vector
<1> QED BY <1>17, <1>18

(* The steps between: no span, no region and no row changes.                   *)
LEMMA StageCut ==
    ASSUME CutInv, Skip \/ Visit \/ Walked \/ Cut \/ Indexed \/ Fail \/ UNCHANGED cvars
    PROVE  Provenance' /\ Accounted' /\ Filling'
<1>1. UNCHANGED <<opt, rows, regions, tile, spans>>
  BY DEF Skip, Visit, Walked, Cut, Indexed, Fail, cvars, read
<1>2. tiling' = tiling /\ region' = region /\ start' = start
  BY <1>1 DEF tile
<1>3. AllCut' => regions = <<>> /\ ~tiling
  <2>1. AllCut' => AllCut \/ Cut
    BY DEF Skip, Visit, Walked, Cut, Indexed, Fail, cvars, AllCut
  <2>2. Cut => regions = <<>> /\ ~tiling
    BY DEF Cut, Between
  <2> QED BY <2>1, <2>2 DEF CutInv, Accounted
<1>4. Provenance'
  BY <1>1, <1>2 DEF CutInv, Provenance
<1>5. Accounted'
  BY <1>1, <1>3, SameAccounted DEF CutInv
<1>6. Filling'
  <2>1. CASE Skip \/ Visit \/ Walked \/ Cut \/ UNCHANGED cvars
    <3>1. stage' # stage => stage' = "failed" \/ {stage, stage'} \subseteq {"walk", "read", "reuse"}
      BY <2>1 DEF Skip, Visit, Walked, Cut, Between, cvars
    <3>2. UNCHANGED <<spans, todo, lo>>
      BY <2>1 DEF Skip, Visit, Walked, Cut, cvars
    <3> QED BY <3>1, <3>2 DEF CutInv, Filling, OwnVector, Embedded, Vector
  <2>2. CASE Indexed
    <3>1. stage = "embed" /\ stage' = "indexed" /\ lo = Len(todo) /\ spans' = spans
      BY <2>2 DEF Indexed
    <3>2. /\ todo \in Seq(1 .. Len(spans)) /\ DOMAIN spans = 1 .. Len(spans)
          /\ \A i \in 1 .. Len(spans) :
               \/ spans[i].vec = Embedded(spans[i].text)
               \/ \E k \in lo + 1 .. Len(todo) : todo[k] = i
      BY <3>1 DEF CutInv, Filling, Provenance
    <3>3. \A i \in DOMAIN spans : spans[i].vec = Embedded(spans[i].text)
      BY <3>1, <3>2
    <3> QED BY <3>1, <3>3 DEF Filling, OwnVector, Embedded, Vector
  <2>3. CASE Fail
    BY <2>3 DEF Fail, Filling, OwnVector
  <2> QED BY <2>1, <2>2, <2>3
<1> QED BY <1>4, <1>5, <1>6

LEMMA NextCut == CutInv /\ [CNext]_cvars => CutInv'
<1> SUFFICES ASSUME CutInv, [CNext]_cvars PROVE CutInv'
  OBVIOUS
<1>1. Tiling'
  BY NextTiling DEF CutInv
<1>2. Provenance' /\ Accounted' /\ Filling'
  BY PassedCut, OpenCut, WholeCut, TileCut, WindowCut, ReuseCut, EmbedCut, StageCut
     DEF CNext
<1> QED BY <1>1, <1>2 DEF CutInv

LEMMA CutLosesNothing == CutInv => NothingLost
<1> SUFFICES ASSUME CutInv, NEW r \in rows, AllCut, r.fate = "chunked",
                    NEW l \in DOMAIN r.file.lines, Source(r.file)[l] # "blank",
                    Wanted(r.file, l)
             PROVE  \E i \in DOMAIN spans : Holds(spans[i], r.file, l)
  BY DEF NothingLost
<1>1. regions = <<>> /\ ~tiling /\ Len(regions) = 0
  BY DEF CutInv, Accounted
<1>2. l \in 1 .. Len(r.file.lines)
  BY DEF CutInv, Provenance, Entry
<1>3. \E i \in 1 .. Len(spans) : Holds(spans[i], r.file, l)
  BY <1>1, <1>2 DEF CutInv, Accounted
<1> QED BY <1>3 DEF CutInv, Provenance

(* index: whatever the checkout, the settings and the files that vanish or do    *)
(* not parse, the spans of a job are exactly what its chunked files hold: every  *)
(* line with a word in it that the strategy cuts, cited where it stands, and of  *)
(* a stripped Go file nothing of its documentation.                              *)
THEOREM NothingLostNothingAdded == CSpec => []SpansMatchSource
<1>1. CutInv => NothingLost
  BY CutLosesNothing
<1>2. CutInv => NothingAdded
  <2> SUFFICES ASSUME CutInv, NEW i \in DOMAIN spans
               PROVE  /\ HasTokens(spans[i].text)
                      /\ \E r \in rows :
                           /\ r.file.path = spans[i].path /\ r.fate = "chunked"
                           /\ 1 <= spans[i].from /\ spans[i].to <= Len(r.file.lines)
                           /\ opt.strip /\ r.file.lang = "go" =>
                                \A l \in DOMAIN spans[i].text : spans[i].text[l] # "prose"
    BY DEF NothingAdded
  <2>1. /\ i \in 1 .. Len(spans) /\ spans[i] \in Span /\ Cited(spans[i], rows, opt)
    BY DEF CutInv, Provenance
  <2>2. DOMAIN spans[i].text = 1 .. Len(spans[i].text)
    BY <2>1 DEF Span
  <2> QED BY <2>1, <2>2 DEF Cited, SpanOf
<1> QED BY <1>1, <1>2, InitCut, NextCut, PTL DEF CSpec, SpansMatchSource

(* reuse, embedAll: whatever other repositories' rows hold, of whichever models  *)
(* and widths, and however the rest falls into batches, every span of an indexed *)
(* job has the vector this worker's embedder gives its own text.                 *)
THEOREM EveryVectorItsOwn == CSpec => []OwnVector
<1>1. CutInv => OwnVector
  BY DEF CutInv, Filling
<1> QED BY <1>1, InitCut, NextCut, PTL DEF CSpec

-----------------------------------------------------------------------------
(* The symbol graph.  What was cut stands still once it is indexed, so that     *)
(* symbols and edges say what the sources they were made from say.             *)

FilesOf(j) == {j.entries[i] : i \in DOMAIN j.entries}

Walking ==
    \E j \in Jobs :
      /\ opt = j.opt
      /\ {entries, files, parsed} \subseteq Seq(FilesOf(j))
      /\ \A r \in rows : r.file \in FilesOf(j)
      /\ \A i \in DOMAIN parsed :
           /\ parsed[i].parses /\ parsed[i].lang = "go"
           /\ Row(parsed[i], "chunked") \in rows

Graphed ==
    built =>
      /\ stage = "indexed" /\ named \in Resolve
      /\ edges = {Edge(s, named) : s \in Sites}
      /\ symbols = UNION {SymbolsOf(f) : f \in ParsedFiles}

GraphInv == Walking /\ Graphed

LEMMA InitGraph == GInit => GraphInv
<1> SUFFICES ASSUME GInit PROVE GraphInv
  OBVIOUS
<1>1. PICK j \in Jobs : opt = j.opt /\ entries = j.entries
  BY DEF GInit, CInit
<1>2. j.entries \in Seq(Entry)
  BY ContentAssumption DEF ContentAssumption, Checkout
<1>3. entries \in Seq(FilesOf(j))
  BY <1>1, <1>2 DEF FilesOf
<1>4. /\ files = <<>> /\ parsed = <<>> /\ DOMAIN parsed = {} /\ rows = {}
      /\ <<>> \in Seq(FilesOf(j))
  BY DEF GInit, CInit
<1>5. Walking
  BY <1>1, <1>3, <1>4 DEF Walking
<1> QED BY <1>5 DEF GInit, GraphInv, Graphed

LEMMA AppendIs ==
    ASSUME NEW S, NEW s \in Seq(S)
    PROVE  \A x \in S :
             /\ Append(s, x) \in Seq(S)
             /\ \A i \in DOMAIN Append(s, x) :
                  Append(s, x)[i] = x \/ \E k \in DOMAIN s : Append(s, x)[i] = s[k]
<1> TAKE x \in S
<1>1. /\ DOMAIN s = 1 .. Len(s) /\ Len(s) \in Nat /\ Append(s, x) \in Seq(S)
      /\ DOMAIN Append(s, x) = 1 .. Len(s) + 1 /\ Append(s, x)[Len(s) + 1] = x
      /\ \A i \in 1 .. Len(s) : Append(s, x)[i] = s[i]
  OBVIOUS
<1>2. \A i \in 1 .. Len(s) + 1 : i \in 1 .. Len(s) \/ i = Len(s) + 1
  BY <1>1
<1> QED BY <1>1, <1>2

(* A file that is read and parsed goes behind those that were.                 *)
LEMMA ParsedAppended ==
    ASSUME NEW S, parsed \in Seq(S)
    PROVE  \A x \in S :
             /\ Append(parsed, x) \in Seq(S)
             /\ \A i \in DOMAIN Append(parsed, x) :
                  \/ Append(parsed, x)[i] = x
                  \/ \E k \in DOMAIN parsed : Append(parsed, x)[i] = parsed[k]
  BY AppendIs

LEMMA WalkingKept ==
    ASSUME Walking, [CNext]_cvars
    PROVE  Walking'
<1>1. PICK j \in Jobs :
        /\ opt = j.opt
        /\ {entries, files, parsed} \subseteq Seq(FilesOf(j))
        /\ \A r \in rows : r.file \in FilesOf(j)
        /\ \A i \in DOMAIN parsed :
             /\ parsed[i].parses /\ parsed[i].lang = "go"
             /\ Row(parsed[i], "chunked") \in rows
  BY DEF Walking
<1> DEFINE S == FilesOf(j)
<1>2. entries \in Seq(S) /\ files \in Seq(S) /\ parsed \in Seq(S)
  BY <1>1
<1> HIDE DEF S
<1>3. CASE Skip \/ Visit
  <2>1. /\ entries # <<>> /\ entries' = Tail(entries) /\ UNCHANGED <<opt, rows, parsed>>
        /\ files' \in {files, Append(files, Head(entries))}
    BY <1>3 DEF Skip, Visit
  <2>2. Head(entries) \in S /\ Tail(entries) \in Seq(S)
    BY <1>2, <2>1, HeadTail
  <2>3. files' \in Seq(S)
    <3>1. \A f \in S : Append(files, f) \in Seq(S)
      BY <1>2
    <3> QED BY <1>2, <2>1, <2>2, <3>1
  <2>4. {entries', files', parsed'} \subseteq Seq(S)
    BY <1>2, <2>1, <2>2, <2>3
  <2> QED BY <1>1, <2>1, <2>4 DEF Walking, S
<1>4. CASE Vanished \/ PassOver \/ Open
  <2>1. /\ files # <<>> /\ files' = Tail(files) /\ UNCHANGED <<opt, entries>>
        /\ \E fate \in {"vanished", "passed over", "chunked"} :
             /\ rows' = rows \cup {Row(Head(files), fate)}
             /\ \/ parsed' = parsed
                \/ /\ fate = "chunked" /\ parsed' = Append(parsed, Head(files))
                   /\ Head(files).parses /\ Head(files).lang = "go"
    BY <1>4 DEF Vanished, PassOver, Open, Parsed
  <2>2. PICK fate \in {"vanished", "passed over", "chunked"} :
          /\ rows' = rows \cup {Row(Head(files), fate)}
          /\ \/ parsed' = parsed
             \/ /\ fate = "chunked" /\ parsed' = Append(parsed, Head(files))
                /\ Head(files).parses /\ Head(files).lang = "go"
    BY <2>1
  <2>3. Head(files) \in S /\ Tail(files) \in Seq(S)
    BY <1>2, <2>1, HeadTail
  <2>4. /\ Append(parsed, Head(files)) \in Seq(S)
        /\ \A i \in DOMAIN Append(parsed, Head(files)) :
             \/ Append(parsed, Head(files))[i] = Head(files)
             \/ \E k \in DOMAIN parsed : Append(parsed, Head(files))[i] = parsed[k]
    <3>1. parsed \in Seq(S)
      BY <1>2
    <3> QED BY <2>3, <3>1, ParsedAppended
  <2>5. {entries', files', parsed'} \subseteq Seq(S)
    BY <1>2, <2>1, <2>2, <2>3, <2>4
  <2>6. \A r \in rows' : r.file \in S
    <3>1. Row(Head(files), fate).file = Head(files)
      BY DEF Row
    <3> QED BY <1>1, <2>2, <2>3, <3>1 DEF S
  <2>7. \A i \in DOMAIN parsed' :
          /\ parsed'[i].parses /\ parsed'[i].lang = "go"
          /\ Row(parsed'[i], "chunked") \in rows'
    <3>1. CASE parsed' = parsed
      BY <1>1, <2>2, <3>1
    <3>2. CASE parsed' # parsed
      <4>1. /\ parsed' = Append(parsed, Head(files)) /\ Head(files).parses
            /\ Head(files).lang = "go" /\ Row(Head(files), "chunked") \in rows'
        BY <2>2, <3>2
      <4> QED BY <1>1, <2>2, <2>4, <4>1
    <3> QED BY <3>1, <3>2
  <2> QED BY <1>1, <2>1, <2>5, <2>6, <2>7 DEF Walking, S
<1>5. CASE UNCHANGED <<opt, entries, files, rows, parsed>>
  BY <1>1, <1>2, <1>5 DEF Walking, S
<1> QED BY <1>3, <1>4, <1>5
    DEF CNext, Walked, Whole, Tile, Window, Cut, Reuse, Embed, Indexed, Fail, cvars, read

(* The graph is a function of what was parsed and cut.                         *)
LEMMA GraphStill ==
    ASSUME UNCHANGED cvars
    PROVE  /\ ParsedFiles' = ParsedFiles /\ Sites' = Sites /\ Resolve' = Resolve
           /\ \A s, n : Edge(s, n)' = Edge(s, n)
           /\ \A f : SymbolsOf(f)' = SymbolsOf(f)
<1>1. parsed' = parsed /\ spans' = spans
  BY DEF cvars, read
<1>2. ParsedFiles' = ParsedFiles
  BY <1>1 DEF ParsedFiles
<1>3. Sites' = Sites
  BY <1>2 DEF Sites
<1>4. Resolve' = Resolve
  BY <1>3 DEF Resolve, Nameable
<1>5. \A c : Target(c)' = Target(c)
  BY <1>2 DEF Target
<1>6. \A s, n : Edge(s, n)' = Edge(s, n)
  BY <1>5 DEF Edge
<1>7. \A p : SpansOf(p)' = SpansOf(p)
  BY <1>1 DEF SpansOf
<1>8. \A f : SymbolsOf(f)' = SymbolsOf(f)
  BY <1>7 DEF SymbolsOf
<1> QED BY <1>2, <1>3, <1>4, <1>6, <1>8

LEMMA NextGraph == GraphInv /\ [GNext]_<<cvars, gvars>> => GraphInv'
<1> SUFFICES ASSUME GraphInv, [GNext]_<<cvars, gvars>> PROVE GraphInv'
  OBVIOUS
<1>1. [CNext]_cvars
  BY DEF GNext, BuildGraph
<1>2. Walking'
  BY <1>1, WalkingKept DEF GraphInv
<1>3. ASSUME ~built' PROVE Graphed'
  BY <1>3 DEF Graphed
<1>4. ASSUME built, built' PROVE Graphed'
  <2>1. stage = "indexed" /\ UNCHANGED gvars
    BY <1>4 DEF GraphInv, Graphed, GNext, BuildGraph, gvars
  <2>2. UNCHANGED cvars
    BY <1>1, <2>1 DEF CNext, Skip, Visit, Walked, Vanished, PassOver, Open, Whole, Tile,
                      Window, Cut, Reuse, Embed, Indexed, Fail, Between
  <2>3. UNCHANGED <<stage, built, named, symbols, edges>>
    BY <2>1, <2>2 DEF cvars, gvars
  <2> QED BY <1>4, <2>2, <2>3, GraphStill DEF GraphInv, Graphed
<1>5. ASSUME ~built, built' PROVE Graphed'
  <2>1. BuildGraph
    BY <1>5 DEF GNext, gvars
  <2>2. UNCHANGED cvars /\ stage' = "indexed"
    BY <2>1 DEF BuildGraph, cvars
  <2>3. PICK resolved \in Resolve : named' = resolved /\ edges' = {Edge(s, resolved) : s \in Sites}
    BY <2>1 DEF BuildGraph
  <2>4. symbols' = UNION {SymbolsOf(f) : f \in ParsedFiles}
    BY <2>1 DEF BuildGraph
  <2>5. named' \in Resolve'
    BY <2>2, <2>3, GraphStill
  <2>6. edges' = {Edge(s, resolved)' : s \in Sites'}
    BY <2>2, <2>3, GraphStill
  <2>7. symbols' = UNION {SymbolsOf(f)' : f \in ParsedFiles'}
    BY <2>2, <2>4, GraphStill
  <2> QED BY <2>2, <2>3, <2>5, <2>6, <2>7 DEF Graphed
<1> QED BY <1>2, <1>3, <1>4, <1>5 DEF GraphInv

(* What gofmt makes of a file: no two declarations share a line.               *)
OneALine ==
    \A j \in Jobs : \A f \in FilesOf(j) : \A i, k \in DOMAIN f.decls :
      i # k => f.decls[i].to < f.decls[k].from \/ f.decls[k].to < f.decls[i].from

LEMMA ParsedAre ==
    ASSUME GraphInv
    PROVE  /\ \A f \in ParsedFiles :
                /\ f \in Entry /\ DOMAIN f.decls = 1 .. Len(f.decls) /\ Len(f.decls) \in Nat
                /\ \A i \in DOMAIN f.decls : f.decls[i] \in Decl
                /\ \A k \in DOMAIN f.calls : f.calls[k] \in Call
                                             /\ f.calls[k].in \in DOMAIN f.decls
           /\ \A f, g \in ParsedFiles : f.path = g.path => f = g
           /\ \A f, g \in ParsedFiles : \A k \in DOMAIN f.calls :
                LET c == f.calls[k].callee
                IN  c # Elsewhere /\ c[1] = g.path => c[2] \in DOMAIN g.decls
           /\ OneALine => \A f \in ParsedFiles : \A i, k \in DOMAIN f.decls :
                i # k => f.decls[i].to < f.decls[k].from \/ f.decls[k].to < f.decls[i].from
<1>1. PICK j \in Jobs : parsed \in Seq(FilesOf(j)) /\ \A i \in DOMAIN parsed : parsed[i].parses
  BY DEF GraphInv, Walking
<1>2. \A f \in ParsedFiles : f \in FilesOf(j) /\ f.parses
  BY <1>1 DEF ParsedFiles
<1>3. j.entries \in Seq(Entry) /\ Checkout(j.entries)
  BY ContentAssumption DEF ContentAssumption, Checkout
<1>4. \A f \in ParsedFiles : \E i \in DOMAIN j.entries : j.entries[i] = f
  BY <1>2 DEF FilesOf
<1>5. \A f \in ParsedFiles : f \in Entry
  BY <1>3, <1>4
<1>6. ASSUME NEW f \in ParsedFiles
      PROVE  /\ f \in Entry /\ DOMAIN f.decls = 1 .. Len(f.decls) /\ Len(f.decls) \in Nat
             /\ \A i \in DOMAIN f.decls : f.decls[i] \in Decl
             /\ \A k \in DOMAIN f.calls : f.calls[k] \in Call
                                          /\ f.calls[k].in \in DOMAIN f.decls
  <2>1. f \in Entry /\ f.decls \in Seq(Decl) /\ f.calls \in Seq(Call)
    BY <1>5 DEF Entry
  <2>2. \A k \in DOMAIN f.calls : f.calls[k].in \in DOMAIN f.decls
    BY <2>1 DEF Entry
  <2> QED BY <2>1, <2>2
<1>7. \A f, g \in ParsedFiles : f.path = g.path => f = g
  BY <1>3, <1>4 DEF Checkout
<1>8. \A f, g \in ParsedFiles : \A k \in DOMAIN f.calls :
        LET c == f.calls[k].callee
        IN  c # Elsewhere /\ c[1] = g.path => c[2] \in DOMAIN g.decls
  <2> TAKE f \in ParsedFiles, g \in ParsedFiles
  <2> TAKE k \in DOMAIN f.calls
  <2>1. PICK n \in DOMAIN j.entries : j.entries[n] = f
    BY <1>4
  <2>2. PICK m \in DOMAIN j.entries : j.entries[m] = g
    BY <1>4
  <2>3. LET c == j.entries[n].calls[k].callee
        IN  c # Elsewhere /\ c[1] = j.entries[m].path /\ j.entries[m].parses =>
              c[2] \in DOMAIN j.entries[m].decls
    BY <1>3, <2>1, <2>2 DEF Checkout
  <2> QED BY <1>2, <2>1, <2>2, <2>3
<1>9. OneALine => \A f \in ParsedFiles : \A i, k \in DOMAIN f.decls :
        i # k => f.decls[i].to < f.decls[k].from \/ f.decls[k].to < f.decls[i].from
  BY <1>2 DEF OneALine
<1> QED BY <1>6, <1>7, <1>8, <1>9

(* A line of a declaration is in no other.                                     *)
LEMMA InItsOwn ==
    ASSUME GraphInv, OneALine, NEW f \in ParsedFiles, NEW i \in DOMAIN f.decls
    PROVE  MostSpecific(Defs(f), f.decls[i].at) = Sym(f, i)
<1> DEFINE at == f.decls[i].at
           own == [id |-> Sym(f, i), from |-> f.decls[i].from, to |-> f.decls[i].to]
           best == {c \in Around(Defs(f), at) :
                      ~\E d \in Around(Defs(f), at) : d.from > c.from \/ Shorter(d, c)}
<1>1. \A k \in DOMAIN f.decls :
        /\ f.decls[k].from \in Nat /\ f.decls[k].at \in Nat /\ f.decls[k].to \in Nat
        /\ f.decls[k].from <= f.decls[k].at /\ f.decls[k].at <= f.decls[k].to
  BY ParsedAre DEF Decl
<1>2. \A k \in DOMAIN f.decls : f.decls[k].from <= at /\ at <= f.decls[k].to => k = i
  <2> TAKE k \in DOMAIN f.decls
  <2>1. i # k => f.decls[i].to < f.decls[k].from \/ f.decls[k].to < f.decls[i].from
    BY ParsedAre
  <2> QED BY <1>1, <2>1
<1>3. Around(Defs(f), at) = {own}
  BY <1>1, <1>2 DEF Around, Defs
<1>4. own.from \in Nat /\ own.to \in Nat /\ own.id = Sym(f, i)
  BY <1>1
<1> HIDE DEF own
<1>5. best = {own}
  BY <1>3, <1>4 DEF Shorter
<1>6. IdIn(best) = Sym(f, i)
  BY <1>4, <1>5 DEF IdIn
<1> QED BY <1>6 DEF MostSpecific

LEMMA TailIs ==
    ASSUME GraphInv, OneALine, NEW f \in ParsedFiles, NEW k \in DOMAIN f.calls
    PROVE  Enclosing(f, f.calls[k]) = Sym(f, f.calls[k].in)
<1> DEFINE n == f.calls[k].in
           P(i) == /\ f.decls[i].from = f.decls[n].from
                   /\ \A j \in 1 .. i - 1 : f.decls[j].from # f.decls[i].from
<1>1. n \in DOMAIN f.decls /\ DOMAIN f.decls = 1 .. Len(f.decls) /\ Len(f.decls) \in Nat
  BY ParsedAre
<1>2. \A i \in DOMAIN f.decls :
        f.decls[i].from \in Nat /\ f.decls[i].to \in Nat /\ f.decls[i].from <= f.decls[i].to
  BY ParsedAre DEF Decl
<1>3. \A i, j \in DOMAIN f.decls : i # j => f.decls[i].from # f.decls[j].from
  <2> TAKE i, j \in DOMAIN f.decls
  <2>1. i # j => f.decls[i].to < f.decls[j].from \/ f.decls[j].to < f.decls[i].from
    BY ParsedAre
  <2> QED BY <1>2, <2>1
<1> HIDE DEF n
<1>4. P(n)
  BY <1>1, <1>3
<1>5. \A i \in DOMAIN f.decls : P(i) => i = n
  BY <1>1, <1>3
<1> DEFINE first == CHOOSE i \in DOMAIN f.decls : P(i)
<1>6. first = n
  BY <1>1, <1>4, <1>5
<1>7. Enclosing(f, f.calls[k]) = Sym(f, first)
  BY DEF Enclosing, n
<1> HIDE DEF first
<1> QED BY <1>6, <1>7 DEF n

(* Where a type-check named what a call calls, and that was parsed, the edge    *)
(* goes there; where it was not, nowhere.                                      *)
LEMMA HeadIs ==
    ASSUME GraphInv, OneALine, NEW f \in ParsedFiles, NEW k \in DOMAIN f.calls,
           f.calls[k].callee # Elsewhere
    PROVE  Target(f.calls[k]) =
             IF \E g \in ParsedFiles : g.path = f.calls[k].callee[1]
             THEN f.calls[k].callee ELSE None
<1> DEFINE c == f.calls[k].callee
           homes == {g \in ParsedFiles : g.path = c[1]}
<1>1. c \in Paths \X (Nat \ {0}) /\ c = <<c[1], c[2]>>
  BY ParsedAre DEF Call
<1>2. CASE homes = {}
  BY <1>2 DEF Target
<1>3. ASSUME NEW g \in homes PROVE Target(f.calls[k]) = c
  <2>1. homes = {g} /\ g \in ParsedFiles /\ g.path = c[1]
    BY ParsedAre
  <2>2. (CHOOSE h \in homes : TRUE) = g
    BY <2>1
  <2>3. c[2] \in DOMAIN g.decls
    BY <2>1, ParsedAre
  <2>4. MostSpecific(Defs(g), g.decls[c[2]].at) = Sym(g, c[2])
    BY <2>1, <2>3, InItsOwn
  <2>5. Target(f.calls[k]) = MostSpecific(Defs(g), g.decls[c[2]].at)
    BY <2>1, <2>2 DEF Target
  <2> QED BY <1>1, <2>1, <2>4, <2>5 DEF Sym
<1> QED BY <1>2, <1>3

LEMMA SitesAre ==
    ASSUME GraphInv
    PROVE  /\ \A s \in Sites : /\ s[1] \in ParsedFiles /\ s[2] \in DOMAIN s[1].calls
                               /\ s = <<s[1], s[2]>> /\ CallAt(s) \in Call
           /\ \A s, t \in Sites : SiteId(s) = SiteId(t) => s = t
<1>1. \A s \in Sites : /\ s[1] \in ParsedFiles /\ s[2] \in DOMAIN s[1].calls
                       /\ s = <<s[1], s[2]>>
  BY DEF Sites
<1>2. \A s \in Sites : CallAt(s) \in Call
  BY <1>1, ParsedAre DEF CallAt
<1>3. ASSUME NEW s \in Sites, NEW t \in Sites, SiteId(s) = SiteId(t) PROVE s = t
  <2>1. s[1].path = t[1].path /\ s[2] = t[2]
    BY <1>3 DEF SiteId
  <2>2. s[1] = t[1]
    BY <1>1, <2>1, ParsedAre
  <2> QED BY <1>1, <2>1, <2>2
<1> QED BY <1>1, <1>2, <1>3

(* What each edge says of its call, and that no other speaks of it.            *)
LEMMA EdgesAre ==
    ASSUME GraphInv, OneALine, built
    PROVE  /\ \A s \in Sites :
                /\ Edge(s, named) \in edges
                /\ Edge(s, named).site = SiteId(s) /\ Edge(s, named).from = Caller(s)
                /\ Edge(s, named).name = <<CallAt(s).name>>
                /\ Edge(s, named).line = CallAt(s).line
                /\ SiteId(s) \in named => CallAt(s).callee # Elsewhere
                /\ Edge(s, named).to =
                     IF SiteId(s) \in named
                        /\ \E g \in ParsedFiles : g.path = CallAt(s).callee[1]
                     THEN CallAt(s).callee ELSE None
                /\ \A e \in edges : e.site = SiteId(s) => e = Edge(s, named)
           /\ \A e \in edges : \E s \in Sites : e = Edge(s, named)
<1>1. edges = {Edge(s, named) : s \in Sites} /\ named \in Resolve
  BY DEF GraphInv, Graphed
<1>2. ASSUME NEW s \in Sites, SiteId(s) \in named PROVE CallAt(s).callee # Elsewhere
  <2>1. PICK t \in Nameable : SiteId(t) = SiteId(s)
    BY <1>1, <1>2 DEF Resolve
  <2>2. t \in Sites /\ CallAt(t).callee # Elsewhere
    BY <2>1 DEF Nameable
  <2> QED BY <2>1, <2>2, SitesAre
<1>3. ASSUME NEW s \in Sites
      PROVE  /\ Edge(s, named).site = SiteId(s) /\ Edge(s, named).from = Caller(s)
             /\ Edge(s, named).name = <<CallAt(s).name>>
             /\ Edge(s, named).line = CallAt(s).line
             /\ Edge(s, named).to = IF SiteId(s) \in named THEN Target(CallAt(s)) ELSE None
  <2>1. Enclosing(s[1], CallAt(s)) = Caller(s)
    <3>1. s[1] \in ParsedFiles /\ s[2] \in DOMAIN s[1].calls
      BY SitesAre
    <3>2. Enclosing(s[1], s[1].calls[s[2]]) = Sym(s[1], s[1].calls[s[2]].in)
      BY <3>1, TailIs
    <3> QED BY <3>2 DEF CallAt, Caller
  <2> QED BY <2>1 DEF Edge
<1>4. ASSUME NEW s \in Sites, SiteId(s) \in named
      PROVE  Target(CallAt(s)) = IF \E g \in ParsedFiles : g.path = CallAt(s).callee[1]
                                 THEN CallAt(s).callee ELSE None
  <2>1. s[1] \in ParsedFiles /\ s[2] \in DOMAIN s[1].calls
    BY SitesAre
  <2>2. s[1].calls[s[2]].callee # Elsewhere
    BY <1>2, <1>4 DEF CallAt
  <2> QED BY <2>1, <2>2, HeadIs DEF CallAt
<1>5. \A s \in Sites : \A e \in edges : e.site = SiteId(s) => e = Edge(s, named)
  <2> TAKE s \in Sites
  <2> TAKE e \in edges
  <2>1. PICK t \in Sites : e = Edge(t, named)
    BY <1>1
  <2> QED BY <1>3, <2>1, SitesAre
<1> QED BY <1>1, <1>2, <1>3, <1>4, <1>5

(* "A resolved edge means this exact symbol": so it does in a checkout with one  *)
(* declaration to a line, whatever part of the calls the type-check named.      *)
THEOREM ResolvedWhereOneALine ==
  ASSUME OneALine PROVE GSpec => []ResolvedMeansThis
<1>1. GraphInv => ResolvedMeansThis
  <2> SUFFICES ASSUME GraphInv, built, NEW s \in Sites, NEW e \in edges,
                      e.site = SiteId(s), e.to # None
               PROVE  e.to = CallAt(s).callee
    BY DEF ResolvedMeansThis
  <2> QED BY EdgesAre
<1> QED BY <1>1, InitGraph, NextGraph, PTL DEF GSpec

-----------------------------------------------------------------------------
(* A symbol is cited by code of its own.  Spans are pieces of their file: in a  *)
(* file that is cut along its declarations, of one of them, and each with a     *)
(* word of that file's in it.                                                  *)

Within(f, from, to) ==
    Windowed(f) \/ \E i \in DOMAIN f.decls : First(f.decls[i]) <= from /\ to <= f.decls[i].to

RegionIn(g, f) ==
    /\ g.path = f.path /\ g.lines = Source(f) /\ 1 <= g.from /\ g.to <= Len(f.lines)
    /\ Within(f, g.from, g.to)

Piece(s, f) ==
    /\ s.path = f.path /\ Within(f, s.from, s.to)
    /\ \E l \in s.from .. s.to : Source(f)[l] # "blank"

Origins ==
    /\ \A k \in 1 .. Len(regions) : \E r \in rows : RegionIn(regions[k], r.file)
    /\ tiling => \E r \in rows : RegionIn(region, r.file)
    /\ \A i \in 1 .. Len(spans) : \E r \in rows : Piece(spans[i], r.file)

LEMMA WithinPart ==
    ASSUME NEW f \in Entry, Valid(opt), NEW from \in Nat, NEW to \in Nat, NEW a \in Nat,
           NEW b \in Nat, Within(f, from, to), from <= a, b <= to
    PROVE  Within(f, a, b)
<1>1. CASE Windowed(f)
  BY <1>1 DEF Within
<1>2. CASE ~Windowed(f)
  <2>1. PICK i \in DOMAIN f.decls : First(f.decls[i]) <= from /\ to <= f.decls[i].to
    BY <1>2 DEF Within
  <2>2. f.decls[i] \in Decl
    BY DEF Entry
  <2>3. First(f.decls[i]) \in Nat /\ f.decls[i].to \in Nat
    BY <2>2 DEF Decl, First
  <2> QED BY <2>1, <2>3 DEF Within
<1> QED BY <1>1, <1>2

(* The settings do not change while a job runs.                                *)
LEMMA OriginsStill ==
    ASSUME opt' = opt
    PROVE  /\ \A f : Source(f)' = Source(f)
           /\ \A f : Windowed(f)' = Windowed(f)
           /\ \A d : First(d)' = First(d)
           /\ \A g, f : RegionIn(g, f)' = RegionIn(g, f)
           /\ \A s, f : Piece(s, f)' = Piece(s, f)
<1>1. \A f : Source(f)' = Source(f) /\ Windowed(f)' = Windowed(f)
  BY DEF Source, Stripped, Windowed
<1>2. \A d : First(d)' = First(d)
  BY DEF First
<1>3. \A f, a, b : Within(f, a, b)' = Within(f, a, b)
  BY <1>1, <1>2 DEF Within
<1> QED BY <1>1, <1>2, <1>3 DEF RegionIn, Piece

LEMMA RegionsOwn ==
    ASSUME NEW f \in Entry, Valid(opt), Strippable(f)
    PROVE  \A k \in 1 .. Len(Regions(f)) : RegionIn(Regions(f)[k], f)
<1>1. \A k \in 1 .. Len(Regions(f)) : /\ Regions(f)[k].path = f.path
                                       /\ 1 <= Regions(f)[k].from
                                       /\ Regions(f)[k].to <= Len(f.lines)
  BY RegionsWhole DEF RegionOf
<1>2. CASE ~HasTokens(Source(f))
  <2>1. Len(Regions(f)) = 0
    BY <1>2 DEF Regions
  <2> QED BY <2>1
<1>3. CASE HasTokens(Source(f)) /\ Windowed(f)
  <2>1. Len(Regions(f)) = 1 /\ Regions(f)[1].lines = Source(f)
    BY <1>3 DEF Regions
  <2> QED BY <1>1, <1>3, <2>1 DEF RegionIn, Within
<1>4. CASE HasTokens(Source(f)) /\ ~Windowed(f)
  <2> DEFINE g(i) == [path |-> f.path, from |-> First(f.decls[i]), to |-> f.decls[i].to,
                      lines |-> Source(f),
                      whole |-> f.decls[i].to - First(f.decls[i]) + 1 <= opt.maxDecl]
  <2>0. DOMAIN f.decls = 1 .. Len(f.decls) /\ Len(f.decls) \in Nat
    BY DEF Entry
  <2>1. Regions(f) = [i \in 1 .. Len(f.decls) |-> g(i)]
    BY <1>4, <2>0 DEF Regions
  <2>2. Len(Regions(f)) = Len(f.decls) /\ \A i \in 1 .. Len(f.decls) : Regions(f)[i] = g(i)
    BY <2>0, <2>1
  <2>3. \A i \in 1 .. Len(f.decls) : f.decls[i] \in Decl
    BY <2>0 DEF Entry
  <2>4. \A i \in 1 .. Len(f.decls) : /\ g(i).lines = Source(f)
                                      /\ g(i).from = First(f.decls[i])
                                      /\ g(i).to = f.decls[i].to
    OBVIOUS
  <2>5. \A i \in 1 .. Len(f.decls) :
          First(f.decls[i]) <= First(f.decls[i]) /\ f.decls[i].to <= f.decls[i].to
    BY <2>3 DEF Decl, First
  <2> HIDE DEF g
  <2>6. \A i \in 1 .. Len(f.decls) : Within(f, g(i).from, g(i).to)
    BY <2>0, <2>4, <2>5 DEF Within
  <2> QED BY <1>1, <2>2, <2>4, <2>6 DEF RegionIn
<1> QED BY <1>2, <1>3, <1>4

(* A chunk of a region is a piece of the region's file.                        *)
LEMMA ChunkPieces ==
    ASSUME CutInv, Origins, NEW g \in Region, NEW a \in Nat, NEW b \in Nat,
           NEW r \in rows, RegionIn(g, r.file), g.from <= a, a <= b, b <= g.to,
           Chunk(g, a, b)
    PROVE  \A i \in 1 .. Len(spans') : \E o \in rows : Piece(spans'[i], o.file)
<1> DEFINE text == SubSeq(g.lines, a, b)
           new == [path |-> g.path, from |-> a, to |-> b, text |-> text, vec |-> NoVector]
           f == r.file
<1>1. f \in Entry /\ Valid(opt) /\ spans \in Seq(Span) /\ Len(spans) \in Nat
  BY DEF CutInv, Provenance, Tiling, Typed
<1>2. /\ g.lines \in Seq(Lines) /\ g.from \in Nat /\ g.to \in Nat
      /\ g.lines = Source(f) /\ g.path = f.path /\ 1 <= g.from /\ g.to <= Len(f.lines)
      /\ Within(f, g.from, g.to)
  BY DEF Region, RegionIn
<1>3. Len(g.lines) = Len(f.lines) /\ Len(f.lines) \in Nat
  <2>1. f.lines \in Seq(Lines)
    BY <1>1 DEF Entry
  <2> QED BY <1>2, <2>1 DEF Source
<1>4. a \in 1 .. Len(g.lines) /\ b \in 1 .. Len(g.lines)
  BY <1>2, <1>3
<1>5. DOMAIN text = 1 .. b - a + 1 /\ \A k \in 1 .. b - a + 1 : text[k] = g.lines[a + k - 1]
  BY <1>2, <1>4, SubSeqProperties
<1>6. ASSUME HasTokens(text) PROVE \E l \in a .. b : Source(f)[l] # "blank"
  <2>1. PICK k \in 1 .. b - a + 1 : text[k] # "blank"
    BY <1>5, <1>6 DEF HasTokens
  <2>2. a + k - 1 \in a .. b
    OBVIOUS
  <2> QED BY <1>2, <1>5, <2>1, <2>2
<1>7. Within(f, a, b)
  BY <1>1, <1>2, WithinPart
<1>8. HasTokens(text) => Piece(new, f)
  BY <1>2, <1>6, <1>7 DEF Piece
<1>9. spans' = IF HasTokens(text) THEN Append(spans, new) ELSE spans
  BY DEF Chunk
<1> HIDE DEF text, new, f
<1>10. \A i \in 1 .. Len(spans') : \E o \in rows : Piece(spans'[i], o.file)
  <2>1. CASE HasTokens(text)
    <3>1. /\ Len(spans') = Len(spans) + 1 /\ spans'[Len(spans) + 1] = new
          /\ \A i \in 1 .. Len(spans) : spans'[i] = spans[i]
      BY <1>1, <1>9, <2>1
    <3>2. \A i \in 1 .. Len(spans') : i \in 1 .. Len(spans) \/ i = Len(spans) + 1
      BY <1>1, <3>1
    <3> QED BY <1>8, <2>1, <3>1, <3>2 DEF Origins, f
  <2>2. CASE ~HasTokens(text)
    BY <1>9, <2>2 DEF Origins
  <2> QED BY <2>1, <2>2
<1> QED BY <1>10

(* Taking vectors over, or having them computed, moves no span.                *)
LEMMA FilledKeeps ==
    ASSUME CutInv, Reuse \/ Embed
    PROVE  /\ UNCHANGED <<rows, regions, tile>> /\ Len(spans') = Len(spans)
           /\ \A i \in 1 .. Len(spans) :
                /\ spans'[i].path = spans[i].path /\ spans'[i].from = spans[i].from
                /\ spans'[i].to = spans[i].to
<1>1. UNCHANGED <<rows, regions, tile>>
  BY DEF Reuse, Embed, read
<1>2. /\ spans \in Seq(Span) /\ Len(spans) \in Nat /\ DOMAIN spans = 1 .. Len(spans)
      /\ \A i \in 1 .. Len(spans) : spans[i] \in Span
  BY DEF CutInv, Provenance
<1>3. /\ spans' = [i \in 1 .. Len(spans) |-> spans'[i]]
      /\ \A i \in 1 .. Len(spans) :
           \E v : spans'[i] \in {spans[i], [spans[i] EXCEPT !.vec = v]}
  <2>1. CASE UNCHANGED spans
    BY <1>2, <2>1
  <2>2. CASE Reuse /\ spans' # spans
    <3>1. PICK corpus \in Corpora :
            spans' = [i \in 1 .. Len(spans) |->
                        LET found == Lookup(corpus, spans[i].text)
                        IN  IF found = <<>> THEN spans[i]
                            ELSE [spans[i] EXCEPT !.vec = Vector(spans[i].text, Head(found))]]
      BY <1>2, <2>2 DEF Reuse
    <3> QED BY <3>1
  <2>3. CASE Embed
    <3> DEFINE texts == [k \in Batch |-> spans[todo[lo + k]].text]
               v(i) == Embedded(texts[CHOOSE k \in Batch : Place(k) = i])
    <3>1. spans' = [i \in 1 .. Len(spans) |->
                      IF \E k \in Batch : Place(k) = i THEN [spans[i] EXCEPT !.vec = v(i)]
                      ELSE spans[i]]
      BY <1>2, <2>3 DEF Embed
    <3> HIDE DEF v
    <3> QED BY <3>1
  <2> QED BY <2>1, <2>2, <2>3
<1>4. Len(spans') = Len(spans)
  <2>1. DOMAIN spans' = 1 .. Len(spans)
    BY <1>3
  <2>2. spans' \in Seq(Span)
    BY ReuseCut, EmbedCut DEF Provenance
  <2> QED BY <1>2, <2>1, <2>2
<1>5. \A s \in Span : \A v : /\ [s EXCEPT !.vec = v].path = s.path
                             /\ [s EXCEPT !.vec = v].from = s.from
                             /\ [s EXCEPT !.vec = v].to = s.to
  BY DEF Span
<1>6. ASSUME NEW i \in 1 .. Len(spans)
      PROVE  /\ spans'[i].path = spans[i].path /\ spans'[i].from = spans[i].from
             /\ spans'[i].to = spans[i].to
  <2>1. PICK v : spans'[i] \in {spans[i], [spans[i] EXCEPT !.vec = v]}
    BY <1>3
  <2>2. CASE spans'[i] = spans[i]
    BY <2>2
  <2>3. CASE spans'[i] = [spans[i] EXCEPT !.vec = v]
    <3>1. spans[i] \in Span
      BY <1>2
    <3> QED BY <1>5, <2>3, <3>1
  <2> QED BY <2>1, <2>2, <2>3
<1> QED BY <1>1, <1>4, <1>6

LEMMA NextOrigins ==
    ASSUME CutInv, Origins, [CNext]_cvars
    PROVE  Origins'
<1>0. opt' = opt
  BY DEF CNext, Skip, Visit, Walked, Vanished, PassOver, Open, Whole, Tile, Window, Cut, Reuse,
         Embed, Indexed, Fail, cvars
<1> DEFINE Cutting(rs) == \A k \in 1 .. Len(rs) : \E r \in rows' : RegionIn(rs[k], r.file)
           InHand(g) == \E r \in rows' : RegionIn(g, r.file)
           Pieces(ss) == \A i \in 1 .. Len(ss) : \E r \in rows' : Piece(ss[i], r.file)
<1>1. Cutting(regions') /\ (tiling' => InHand(region')) /\ Pieces(spans') => Origins'
  BY <1>0, OriginsStill DEF Origins
<1>2. rows \subseteq rows'
  BY DEF CNext, Skip, Visit, Walked, Vanished, PassOver, Open, Whole, Tile, Window, Cut, Reuse,
         Embed, Indexed, Fail, cvars, read
<1>3. Cutting(regions) /\ (tiling => InHand(region)) /\ Pieces(spans)
  BY <1>2 DEF Origins
<1> HIDE DEF Cutting, InHand, Pieces
<1>4. CASE UNCHANGED <<regions, tile, spans>>
  BY <1>1, <1>3, <1>4 DEF tile
<1>5. CASE Open
  <2>1. /\ files # <<>> /\ Strippable(Head(files)) /\ regions' = Regions(Head(files))
        /\ Row(Head(files), "chunked") \in rows' /\ UNCHANGED <<tile, spans>>
    BY <1>5 DEF Open
  <2>2. Head(files) \in Entry /\ Valid(opt)
    BY <2>1, HeadTail DEF CutInv, Tiling, Typed
  <2>3. \A k \in 1 .. Len(regions') : RegionIn(regions'[k], Head(files))
    BY <2>1, <2>2, RegionsOwn
  <2>4. Cutting(regions')
    BY <2>1, <2>3 DEF Cutting, Row
  <2> QED BY <1>1, <1>3, <2>1, <2>4 DEF tile
<1>6. CASE Whole \/ Tile
  <2>1. regions # <<>> /\ regions' = Tail(regions) /\ rows' = rows
    BY <1>6 DEF Whole, Tile
  <2>2. /\ regions \in Seq(Region) /\ Len(regions) \in Nat /\ Len(regions) >= 1
        /\ Head(regions) = regions[1] /\ regions[1] \in Region
    BY <2>1, HeadTail DEF CutInv, Tiling, Typed
  <2>3. /\ Len(regions') = Len(regions) - 1
        /\ \A k \in 1 .. Len(regions') : k + 1 \in 1 .. Len(regions)
                                         /\ regions'[k] = regions[k + 1]
    BY <2>1, <2>2
  <2>4. Cutting(regions')
    BY <1>3, <2>3 DEF Cutting
  <2>5. PICK r \in rows : RegionIn(regions[1], r.file)
    BY <2>2 DEF Origins
  <2>6. CASE Tile
    <3>1. region' = regions[1] /\ spans' = spans
      BY <2>2, <2>6 DEF Tile
    <3> QED BY <1>1, <1>3, <2>1, <2>4, <2>5, <3>1 DEF InHand
  <2>7. CASE Whole
    <3>1. Chunk(regions[1], regions[1].from, regions[1].to) /\ UNCHANGED tile
      BY <2>2, <2>7 DEF Whole
    <3>2. /\ regions[1].from \in Nat /\ regions[1].to \in Nat
          /\ regions[1].from <= regions[1].to
      BY <2>2 DEF Region
    <3>3. \A i \in 1 .. Len(spans') : \E o \in rows : Piece(spans'[i], o.file)
      BY <2>2, <2>5, <3>1, <3>2, ChunkPieces
    <3> QED BY <1>1, <1>3, <2>1, <2>4, <3>1, <3>3 DEF Pieces, tile
  <2> QED BY <1>6, <2>6, <2>7
<1>7. CASE Window
  <2> DEFINE full == start + opt.lines - 1
             end == IF full < region.to THEN full ELSE region.to
  <2>1. /\ tiling /\ start <= region.to /\ Chunk(region, start, end)
        /\ UNCHANGED <<rows, regions, region>>
    BY <1>7 DEF Window
  <2>2. /\ opt.lines \in Nat /\ opt.lines > 0 /\ region \in Region /\ region.to \in Nat
        /\ start \in Nat /\ region.from <= start
    BY <2>1 DEF CutInv, Provenance, Tiling, Typed, Valid, Region
  <2>3. end \in Nat /\ start <= end /\ end <= region.to
    BY <2>1, <2>2
  <2> HIDE DEF full, end
  <2>4. PICK r \in rows : RegionIn(region, r.file)
    BY <2>1 DEF Origins
  <2>5. \A i \in 1 .. Len(spans') : \E o \in rows : Piece(spans'[i], o.file)
    BY <2>1, <2>2, <2>3, <2>4, ChunkPieces
  <2> QED BY <1>1, <1>3, <2>1, <2>5 DEF Pieces
<1>8. CASE Reuse \/ Embed
  <2>1. /\ UNCHANGED <<rows, regions, tile>> /\ Len(spans') = Len(spans)
        /\ \A i \in 1 .. Len(spans) :
             /\ spans'[i].path = spans[i].path /\ spans'[i].from = spans[i].from
             /\ spans'[i].to = spans[i].to
    BY <1>8, FilledKeeps
  <2>2. \A i \in 1 .. Len(spans) : \A f : Piece(spans[i], f) => Piece(spans'[i], f)
    BY <2>1 DEF Piece
  <2>3. Pieces(spans')
    BY <1>3, <2>1, <2>2 DEF Pieces
  <2> QED BY <1>1, <1>3, <2>1, <2>3 DEF tile
<1> QED BY <1>4, <1>5, <1>6, <1>7, <1>8
    DEF CNext, Skip, Visit, Walked, Vanished, PassOver, Cut, Indexed, Fail, cvars, read

(* The least of what there is of some numbers.                                 *)
LEMMA LeastOf ==
    ASSUME NEW S, NEW x \in S, NEW f \in [S -> Nat]
    PROVE  \E m \in S : \A o \in S : f[m] <= f[o]
<1> DEFINE T == {f[s] : s \in S}
<1>1. T \subseteq Nat /\ T # {}
  OBVIOUS
<1>2. PICK n \in T : \A y \in T : ~(<<y, n>> \in OpToRel(<, Nat))
  BY <1>1, NatLessThanWellFounded, WFMin
<1>3. \A y \in T : n <= y
  <2> HIDE DEF T
  <2>1. \A y \in T : ~(y < n)
    BY <1>1, <1>2 DEF OpToRel
  <2> QED BY <1>1, <2>1
<1>4. PICK m \in S : n = f[m]
  OBVIOUS
<1> QED BY <1>3, <1>4

(* What spanFor takes: one that holds the first line where there is one, and    *)
(* else one that shares a line.                                                *)
LEMMA SpecificIs ==
    ASSUME NEW cs, NEW line \in Nat,
           \A c \in cs : c.from \in Nat /\ c.to \in Nat
    PROVE  IF Around(cs, line) = {} THEN MostSpecific(cs, line) = None
           ELSE \E c \in Around(cs, line) : MostSpecific(cs, line) = c.id
<1> DEFINE S == Around(cs, line)
           best == {c \in S : ~\E d \in S : d.from > c.from \/ Shorter(d, c)}
<1>1. \A c \in S : c.from \in Nat /\ c.to \in Nat /\ c.from <= line
  BY DEF Around
<1>2. MostSpecific(cs, line) = IdIn(best)
  BY DEF MostSpecific
<1>3. CASE S = {}
  BY <1>2, <1>3 DEF IdIn
<1>4. CASE S # {}
  <2> DEFINE f == [c \in S |-> line - c.from]
  <2>1. f \in [S -> Nat]
    BY <1>1
  <2>2. PICK m \in S : \A c \in S : f[m] <= f[c]
    <3> HIDE DEF S, f
    <3> QED BY <1>4, <2>1, LeastOf
  <2>3. \A c \in S : c.from <= m.from
    BY <1>1, <2>2
  <2> DEFINE T == {c \in S : c.from = m.from}
             g == [c \in T |-> c.to]
  <2>4. g \in [T -> Nat] /\ m \in T
    BY <1>1
  <2>5. PICK n \in T : \A c \in T : g[n] <= g[c]
    <3> HIDE DEF T, g
    <3> QED BY <2>4, LeastOf
  <2>6. n \in best
    <3>1. n \in S /\ n.from = m.from /\ \A c \in T : n.to <= c.to
      BY <2>5
    <3> HIDE DEF S
    <3> QED BY <1>1, <2>3, <3>1 DEF Shorter
  <2>7. best # {} /\ best \subseteq S
    BY <2>6
  <2> HIDE DEF best, S
  <2>8. IdIn(best) = (CHOOSE c \in best : TRUE).id /\ (CHOOSE c \in best : TRUE) \in best
    BY <2>7 DEF IdIn
  <2> QED BY <1>2, <1>4, <2>7, <2>8 DEF S
<1> QED BY <1>3, <1>4

LEMMA FirstIs ==
    ASSUME NEW cs, NEW from \in Nat, NEW to \in Nat,
           \A c \in cs : c.from \in Nat /\ c.to \in Nat, Overlapping(cs, from, to) # {}
    PROVE  \E c \in Overlapping(cs, from, to) : FirstOverlapping(cs, from, to) = c.id
<1> DEFINE S == Overlapping(cs, from, to)
           best == {c \in S : ~\E d \in S : d.from < c.from \/ Shorter(d, c)}
           f == [c \in S |-> c.from]
<1>1. \A c \in S : c.from \in Nat /\ c.to \in Nat
  BY DEF Overlapping
<1>2. f \in [S -> Nat]
  BY <1>1
<1>3. PICK m \in S : \A c \in S : f[m] <= f[c]
  <2> HIDE DEF f
  <2> QED BY <1>2, LeastOf
<1>4. \A c \in S : m.from <= c.from
  BY <1>3
<1> DEFINE T == {c \in S : c.from = m.from}
           g == [c \in T |-> c.to]
<1>5. g \in [T -> Nat] /\ m \in T
  BY <1>1
<1>6. PICK n \in T : \A c \in T : g[n] <= g[c]
  <2> HIDE DEF T, g
  <2> QED BY <1>5, LeastOf
<1>7. n \in best
  <2>1. n \in S /\ n.from = m.from /\ \A c \in T : n.to <= c.to
    BY <1>6
  <2> HIDE DEF S
  <2> QED BY <1>1, <1>4, <2>1 DEF Shorter
<1>8. best # {} /\ best \subseteq S
  BY <1>7
<1>9. FirstOverlapping(cs, from, to) = IdIn(best)
  BY DEF FirstOverlapping
<1> HIDE DEF best, S
<1>10. IdIn(best) = (CHOOSE c \in best : TRUE).id /\ (CHOOSE c \in best : TRUE) \in best
  BY <1>8 DEF IdIn
<1> QED BY <1>8, <1>9, <1>10 DEF S

LEMMA SpanForIs ==
    ASSUME NEW cs, NEW from \in Nat, NEW to \in Nat, from <= to,
           \A c \in cs : c.from \in Nat /\ c.to \in Nat /\ c.id # None,
           Overlapping(cs, from, to) # {}
    PROVE  \E c \in Overlapping(cs, from, to) :
             /\ SpanFor(cs, from, to) = c.id
             /\ Around(cs, from) # {} => c \in Around(cs, from)
<1>1. CASE Around(cs, from) = {}
  <2>1. SpanFor(cs, from, to) = FirstOverlapping(cs, from, to)
    BY <1>1, SpecificIs DEF SpanFor
  <2> QED BY <1>1, <2>1, FirstIs
<1>2. CASE Around(cs, from) # {}
  <2>1. PICK c \in Around(cs, from) : MostSpecific(cs, from) = c.id
    BY <1>2, SpecificIs
  <2>2. c \in cs /\ c.id # None /\ c \in Overlapping(cs, from, to)
    BY <2>1 DEF Around, Overlapping
  <2> QED BY <2>1, <2>2 DEF SpanFor
<1> QED BY <1>1, <1>2

(* Where whole files are cut into windows with their comments left in, every    *)
(* declaration starts at a line with a word in it, which the "/*" of a block    *)
(* comment on a line of its own is not.                                        *)
StartsInWords ==
    \A j \in Jobs : j.opt.strategy = "window" /\ ~j.opt.strip =>
      \A f \in FilesOf(j) : \A i \in DOMAIN f.decls : f.lines[f.decls[i].from] # "blank"

CiteInv == CutInv /\ Origins /\ GraphInv

(* What the spans of a parsed file are, once all is cut.                       *)
LEMMA PiecesAre ==
    ASSUME CiteInv, built, NEW f \in ParsedFiles
    PROVE  /\ f \in Entry /\ f.parses /\ f.lang = "go" /\ DOMAIN f.lines = 1 .. Len(f.lines)
           /\ \A l \in DOMAIN f.lines : Source(f)[l] # "blank" /\ Wanted(f, l) =>
                \E n \in DOMAIN spans : Holds(spans[n], f, l)
           /\ \A n \in DOMAIN spans : spans[n].path = f.path => Piece(spans[n], f)
           /\ \A n \in DOMAIN spans : spans[n].from \in Nat /\ spans[n].to \in Nat
           /\ StartsInWords /\ Windowed(f) /\ ~opt.strip =>
                \A i \in DOMAIN f.decls : f.lines[f.decls[i].from] # "blank"
<1>1. PICK j \in Jobs :
        /\ opt = j.opt
        /\ parsed \in Seq(FilesOf(j))
        /\ \A r \in rows : r.file \in FilesOf(j)
        /\ \A i \in DOMAIN parsed :
             /\ parsed[i].parses /\ parsed[i].lang = "go"
             /\ Row(parsed[i], "chunked") \in rows
  BY DEF CiteInv, GraphInv, Walking
<1>2. f \in FilesOf(j) /\ f.parses /\ f.lang = "go" /\ Row(f, "chunked") \in rows
  BY <1>1 DEF ParsedFiles
<1>3. Row(f, "chunked").file = f /\ Row(f, "chunked").fate = "chunked"
  BY DEF Row
<1>4. f \in Entry /\ DOMAIN f.lines = 1 .. Len(f.lines)
  <2>1. f \in Entry
    BY ParsedAre DEF CiteInv
  <2> QED BY <2>1 DEF Entry
<1>5. \A g \in FilesOf(j) : g.path = f.path => g = f
  <2>1. Checkout(j.entries)
    BY ContentAssumption DEF ContentAssumption
  <2> QED BY <1>2, <2>1 DEF FilesOf, Checkout
<1>6. AllCut
  BY DEF CiteInv, GraphInv, Graphed, AllCut
<1>7. \A l \in DOMAIN f.lines : Source(f)[l] # "blank" /\ Wanted(f, l) =>
        \E n \in DOMAIN spans : Holds(spans[n], f, l)
  BY <1>2, <1>3, <1>6, CutLosesNothing DEF CiteInv, NothingLost
<1>8. DOMAIN spans = 1 .. Len(spans) /\ \A n \in DOMAIN spans : spans[n] \in Span
  BY DEF CiteInv, CutInv, Provenance
<1>9. ASSUME NEW n \in DOMAIN spans, spans[n].path = f.path PROVE Piece(spans[n], f)
  <2>1. PICK r \in rows : Piece(spans[n], r.file)
    BY <1>8 DEF CiteInv, Origins
  <2>2. r.file = f
    BY <1>1, <1>5, <1>9, <2>1 DEF Piece
  <2> QED BY <2>1, <2>2
<1>10. \A n \in DOMAIN spans : spans[n].from \in Nat /\ spans[n].to \in Nat
  BY <1>8 DEF Span
<1>11. StartsInWords /\ Windowed(f) /\ ~opt.strip =>
         \A i \in DOMAIN f.decls : f.lines[f.decls[i].from] # "blank"
  BY <1>1, <1>2 DEF StartsInWords, Windowed
<1> QED BY <1>2, <1>4, <1>7, <1>9, <1>10, <1>11

(* Each symbol of a file, and the span it is linked to.                        *)
LEMMA SymbolsAre ==
    ASSUME GraphInv, built, NEW f \in ParsedFiles, NEW i \in DOMAIN f.decls,
           NEW s \in symbols, s.id = Sym(f, i)
    PROVE  s.span = SpanFor(SpansOf(f.path), f.decls[i].from, f.decls[i].to)
<1>1. PICK g \in ParsedFiles : s \in SymbolsOf(g)
  BY DEF GraphInv, Graphed
<1>2. PICK k \in DOMAIN g.decls :
        /\ s.id = Sym(g, k)
        /\ s.span = SpanFor(SpansOf(g.path), g.decls[k].from, g.decls[k].to)
  BY <1>1 DEF SymbolsOf
<1>3. g.path = f.path /\ k = i
  BY <1>2 DEF Sym
<1>4. g = f
  BY <1>3, ParsedAre
<1> QED BY <1>2, <1>3, <1>4

(* spanFor: a symbol is linked to a span of its own file that shares with it a   *)
(* line that is its own, whatever the strategy, the window and its overlap,      *)
(* however long the declaration and its documentation, and whether that was     *)
(* stripped - in a checkout with one declaration to a line, each starting in     *)
(* words where windows are cut from what was not stripped.                      *)
THEOREM CitedByItsOwn ==
  ASSUME OneALine, StartsInWords PROVE GSpec => []CitesItself
<1>1. CiteInv => CitesItself
  <2> SUFFICES ASSUME CiteInv, built, NEW f \in ParsedFiles, NEW i \in DOMAIN f.decls,
                      NEW s \in symbols, s.id = Sym(f, i), Own(f, i) # {}
               PROVE  /\ s.span # None
                      /\ spans[s.span[1]].path = f.path
                      /\ SpanLines(s.span) \cap Own(f, i) # {}
    BY DEF CitesItself
  <2> DEFINE d == f.decls[i]
             cs == SpansOf(f.path)
  <2>1. /\ f \in Entry /\ f.parses /\ f.lang = "go" /\ DOMAIN f.lines = 1 .. Len(f.lines)
        /\ \A l \in DOMAIN f.lines : Source(f)[l] # "blank" /\ Wanted(f, l) =>
             \E n \in DOMAIN spans : Holds(spans[n], f, l)
        /\ \A n \in DOMAIN spans : spans[n].path = f.path => Piece(spans[n], f)
        /\ \A n \in DOMAIN spans : spans[n].from \in Nat /\ spans[n].to \in Nat
        /\ Windowed(f) /\ ~opt.strip => f.lines[d.from] # "blank"
    BY PiecesAre
  <2>2. \A k \in DOMAIN f.decls :
          /\ f.decls[k].from \in Nat /\ f.decls[k].bare \in Nat /\ f.decls[k].to \in Nat
          /\ 0 < f.decls[k].from /\ f.decls[k].from <= f.decls[k].bare
          /\ f.decls[k].bare <= f.decls[k].to
    <3>1. \A k \in DOMAIN f.decls : f.decls[k] \in Decl
      BY ParsedAre DEF CiteInv
    <3> QED BY <3>1 DEF Decl
  <2>3. d.to <= Len(f.lines) /\ f.lines[d.bare] \notin {"blank", "prose"} /\ Len(f.lines) \in Nat
    BY <2>1 DEF Entry
  <2>4. d.from \in DOMAIN f.lines /\ d.bare \in DOMAIN f.lines
    BY <2>1, <2>2, <2>3
  <2>5. \A l \in DOMAIN f.lines :
          Source(f)[l] = IF Stripped(f) /\ f.lines[l] = "prose" THEN "blank" ELSE f.lines[l]
    BY DEF Source
  <2>6. \A c \in cs : /\ c.from \in Nat /\ c.to \in Nat /\ c.id # None
                      /\ \E n \in DOMAIN spans : /\ c.id = <<n>> /\ spans[n].path = f.path
                                                 /\ c.from = spans[n].from /\ c.to = spans[n].to
    <3> TAKE c \in cs
    <3>1. PICK n \in DOMAIN spans :
            /\ spans[n].path = f.path
            /\ c = [id |-> <<n>>, from |-> spans[n].from, to |-> spans[n].to]
      BY DEF SpansOf
    <3>2. c.id = <<n>> /\ c.from = spans[n].from /\ c.to = spans[n].to
      BY <3>1
    <3>3. <<n>> # None
      BY DEF None
    <3> QED BY <2>1, <3>1, <3>2, <3>3
  <2>7. \A n \in DOMAIN spans : \A l : Holds(spans[n], f, l) =>
          \E c \in cs : c.from <= l /\ l <= c.to
    <3> TAKE n \in DOMAIN spans
    <3> DEFINE c == [id |-> <<n>>, from |-> spans[n].from, to |-> spans[n].to]
    <3>1. spans[n].path = f.path => c \in cs
      BY DEF SpansOf
    <3>2. c.from = spans[n].from /\ c.to = spans[n].to
      OBVIOUS
    <3> HIDE DEF c, cs
    <3> QED BY <3>1, <3>2 DEF Holds
  <2>8. Overlapping(cs, d.from, d.to) # {}
    <3>1. Wanted(f, d.bare)
      BY <2>2 DEF Wanted, First
    <3>2. PICK n \in DOMAIN spans : Holds(spans[n], f, d.bare)
      BY <2>1, <2>3, <2>4, <2>5, <3>1
    <3>3. PICK c \in cs : c.from <= d.bare /\ d.bare <= c.to
      BY <2>7, <3>2
    <3>4. c.from <= d.to /\ d.from <= c.to
      BY <2>2, <2>6, <3>3
    <3> QED BY <3>4 DEF Overlapping
  <2>9. PICK c \in Overlapping(cs, d.from, d.to) :
          /\ SpanFor(cs, d.from, d.to) = c.id
          /\ Around(cs, d.from) # {} => c \in Around(cs, d.from)
    <3> HIDE DEF cs
    <3> QED BY <2>2, <2>6, <2>8, SpanForIs
  <2>10. s.span = c.id
    BY <2>9, SymbolsAre DEF CiteInv
  <2>11. /\ c \in cs /\ c.from <= d.to /\ d.from <= c.to
         /\ Around(cs, d.from) # {} => c.from <= d.from /\ d.from <= c.to
    BY <2>9 DEF Overlapping, Around
  <2>12. PICK n \in DOMAIN spans : /\ c.id = <<n>> /\ spans[n].path = f.path
                                   /\ c.from = spans[n].from /\ c.to = spans[n].to
    BY <2>6, <2>11
  <2>13. /\ s.span # None /\ spans[s.span[1]].path = f.path
         /\ SpanLines(s.span) = c.from .. c.to
    BY <2>6, <2>10, <2>11, <2>12 DEF SpanLines
  <2>14. Piece(spans[n], f) /\ c.from \in Nat /\ c.to \in Nat
    BY <2>1, <2>12
  <2>15. PICK l \in c.from .. c.to : Source(f)[l] # "blank"
    BY <2>12, <2>14 DEF Piece
  <2> HIDE DEF d, cs
  <2>16. CASE Windowed(f) /\ opt.strip
    <3> DEFINE m == IF c.from <= d.from THEN d.from ELSE c.from
    <3>1. d.from \in Nat /\ d.to \in Nat /\ d.from <= d.to /\ l \in Nat
      BY <2>2, <2>14 DEF d
    <3>2. m \in c.from .. c.to /\ m \in d.from .. d.to
      BY <2>11, <2>14, <2>15, <3>1
    <3>3. m \in Own(f, i)
      BY <2>16, <3>2 DEF Own, d
    <3> QED BY <2>13, <3>2, <3>3
  <2>17. CASE Windowed(f) /\ ~opt.strip
    <3>1. Source(f)[d.from] # "blank" /\ Wanted(f, d.from)
      BY <2>1, <2>4, <2>5, <2>17 DEF Stripped, Wanted
    <3>2. \E e \in cs : e.from <= d.from /\ d.from <= e.to
      BY <2>1, <2>4, <2>7, <3>1
    <3>3. c.from <= d.from /\ d.from <= c.to
      BY <2>11, <3>2 DEF Around
    <3>4. d.from \in Nat /\ d.to \in Nat /\ d.from <= d.to
      BY <2>2 DEF d
    <3>5. d.from \in c.from .. c.to /\ d.from \in d.from .. d.to
      BY <2>14, <3>3, <3>4
    <3>6. d.from \in Own(f, i)
      BY <3>1, <3>5 DEF Own, d
    <3> QED BY <2>13, <3>5, <3>6
  <2>18. CASE ~Windowed(f)
    <3>1. PICK k \in DOMAIN f.decls : First(f.decls[k]) <= c.from /\ c.to <= f.decls[k].to
      BY <2>12, <2>14, <2>18 DEF Piece, Within
    <3>2. First(f.decls[k]) \in Nat /\ f.decls[k].from <= First(f.decls[k])
      BY <2>2 DEF First
    <3>3. k = i
      <4>1. i # k => d.to < f.decls[k].from \/ f.decls[k].to < d.from
        BY ParsedAre DEF CiteInv, d
      <4>2. d.from \in Nat /\ d.to \in Nat
        BY <2>2 DEF d
      <4> QED BY <2>2, <2>11, <2>14, <3>1, <3>2, <4>1, <4>2
    <3>4. l \in d.from .. d.to
      BY <2>2, <2>14, <2>15, <3>1, <3>2, <3>3 DEF d
    <3>5. l \in Own(f, i)
      BY <2>15, <3>4 DEF Own, d
    <3> QED BY <2>13, <2>15, <3>5
  <2> QED BY <2>16, <2>17, <2>18
<1>2. GInit => CiteInv
  <2> SUFFICES ASSUME GInit PROVE CiteInv
    OBVIOUS
  <2>1. /\ CInit /\ regions = <<>> /\ tiling = FALSE /\ spans = <<>>
        /\ Len(regions) = 0 /\ Len(spans) = 0
    BY DEF GInit, CInit
  <2>2. Origins
    BY <2>1 DEF Origins
  <2> QED BY <2>1, <2>2, InitCut, InitGraph DEF CiteInv
<1>3. CiteInv /\ [GNext]_<<cvars, gvars>> => CiteInv'
  <2> SUFFICES ASSUME CiteInv, [GNext]_<<cvars, gvars>> PROVE CiteInv'
    OBVIOUS
  <2>1. [CNext]_cvars
    BY DEF GNext, BuildGraph
  <2> QED BY <2>1, NextCut, NextOrigins, NextGraph DEF CiteInv
<1> QED BY <1>1, <1>2, <1>3, PTL DEF GSpec

-----------------------------------------------------------------------------
(* Who calls a symbol.  A row of the recursion is a way from a caller to the    *)
(* symbol asked for, read backwards.                                           *)

Question == [who : {"route", "tool"}, sym : symbols, depth : Depths, limit : Limits]

Way(r, s, depth) ==
    /\ r.depth \in 1 .. depth /\ r.line \in Nat
    /\ r.path \in Seq(Known) /\ Len(r.path) = r.depth + 1
    /\ r.path[1] = s.id /\ r.path[r.depth + 1] = r.sym
    /\ \A i \in 1 .. r.depth : Calls(r.path[i + 1], r.path[i])
    /\ \E t \in NamedSites : /\ Caller(t) = r.sym /\ CallAt(t).line = r.line
                             /\ CallAt(t).callee = r.path[r.depth]
    /\ r.sym = s.id => r.depth = 1

Extension(r, e) ==
    [sym |-> e.from, depth |-> r.depth + 1, path |-> Append(r.path, e.from), line |-> e.line]

Extends(r, e) == e.to = r.sym /\ r.depth < q.depth /\ ~Revisits(r, e)

Walk ==
    q # NoQuestion =>
      /\ built /\ q \in Question
      /\ IsFiniteSet(work) /\ IsFiniteSet(walked) /\ work \subseteq walked
      /\ \A r \in walked : Way(r, q.sym, q.depth)
      /\ Anchor(q.sym.id) \subseteq walked
      /\ \A r \in walked \ work, e \in Resolved : Extends(r, e) => Extension(r, e) \in walked

Answered ==
    answer.given =>
      /\ q # NoQuestion /\ work = {}
      /\ answer.callers \in Firsts(Grouped, q.limit) /\ answer.truncated = Clipped(Grouped)
      /\ \/ answer.failed /\ q.who = "route" /\ answer.approx = {}
         \/ /\ answer.approx \in Firsts(ByName(AskedName), q.limit)
            /\ answer.more = Clipped(ByName(AskedName))

QInv == GraphInv /\ Walk /\ Answered

LEMMA ImageFinite ==
    ASSUME NEW S, IsFiniteSet(S), NEW g
    PROVE  IsFiniteSet({g[x] : x \in S})
<1> DEFINE T == {g[x] : x \in S}
           h == [x \in S |-> g[x]]
<1>1. h \in Surjection(S, T)
  BY DEF Surjection
<1> QED BY <1>1, FS_Surjection

LEMMA SeqFinite ==
    ASSUME NEW S, NEW s \in Seq(S)
    PROVE  IsFiniteSet(DOMAIN s) /\ IsFiniteSet({s[i] : i \in DOMAIN s})
<1>1. DOMAIN s = 1 .. Len(s) /\ Len(s) \in Nat
  OBVIOUS
<1>2. IsFiniteSet(DOMAIN s)
  BY <1>1, FS_Interval
<1> QED BY <1>2, ImageFinite

LEMMA EdgesFinite ==
    ASSUME GraphInv, built
    PROVE  IsFiniteSet(edges) /\ IsFiniteSet(Resolved)
<1>1. IsFiniteSet(ParsedFiles)
  <2>1. PICK j \in Jobs : parsed \in Seq(FilesOf(j))
    BY DEF GraphInv, Walking
  <2> QED BY <2>1, SeqFinite DEF ParsedFiles
<1>2. ASSUME NEW f \in ParsedFiles PROVE IsFiniteSet({<<f, k>> : k \in DOMAIN f.calls})
  <2>1. f.calls \in Seq(Call)
    BY ParsedAre DEF Entry
  <2>2. IsFiniteSet(DOMAIN f.calls)
    BY <2>1, SeqFinite
  <2> DEFINE g == [k \in DOMAIN f.calls |-> <<f, k>>]
  <2>3. IsFiniteSet({g[k] : k \in DOMAIN f.calls})
    BY <2>2, ImageFinite
  <2> QED BY <2>3
<1>3. IsFiniteSet(Sites)
  <2> DEFINE g == [f \in ParsedFiles |-> {<<f, k>> : k \in DOMAIN f.calls}]
             U == {g[f] : f \in ParsedFiles}
  <2>1. IsFiniteSet(U)
    BY <1>1, ImageFinite
  <2>2. \A T \in U : IsFiniteSet(T)
    BY <1>2
  <2>3. Sites = UNION U
    BY DEF Sites
  <2> HIDE DEF U
  <2> QED BY <2>1, <2>2, <2>3, FS_UNION
<1>4. IsFiniteSet(edges)
  <2> DEFINE g == [s \in Sites |-> Edge(s, named)]
  <2>1. IsFiniteSet({g[s] : s \in Sites})
    BY <1>3, ImageFinite
  <2>2. edges = {g[s] : s \in Sites}
    BY DEF GraphInv, Graphed
  <2> QED BY <2>1, <2>2
<1>5. Resolved \in SUBSET edges
  BY DEF Resolved
<1> QED BY <1>4, <1>5, FS_Subset

(* The symbols are the declarations that were parsed.                          *)
LEMMA KnownAre ==
    ASSUME GraphInv, built
    PROVE  /\ \A a : a \in Known <=>
                \E f \in ParsedFiles : \E i \in DOMAIN f.decls : a = Sym(f, i)
           /\ \A s \in Sites : Caller(s) \in Known
           /\ \A s \in symbols : s.id \in Known
<1>1. symbols = UNION {SymbolsOf(f) : f \in ParsedFiles}
  BY DEF GraphInv, Graphed
<1>2. \A f : \A s \in SymbolsOf(f) : \E i \in DOMAIN f.decls : s.id = Sym(f, i)
  BY DEF SymbolsOf
<1>3. \A f : \A i \in DOMAIN f.decls : \E s \in SymbolsOf(f) : s.id = Sym(f, i)
  <2> TAKE f
  <2> TAKE i \in DOMAIN f.decls
  <2> DEFINE s == [id |-> Sym(f, i), name |-> f.decls[i].name,
                   span |-> SpanFor(SpansOf(f.path), f.decls[i].from, f.decls[i].to)]
  <2>1. s \in SymbolsOf(f)
    BY DEF SymbolsOf
  <2>2. s.id = Sym(f, i)
    OBVIOUS
  <2> QED BY <2>1, <2>2
<1>4. \A a : a \in Known <=> \E f \in ParsedFiles : \E i \in DOMAIN f.decls : a = Sym(f, i)
  BY <1>1, <1>2, <1>3 DEF Known
<1>5. ASSUME NEW s \in Sites PROVE Caller(s) \in Known
  <2>1. s[1] \in ParsedFiles /\ s[2] \in DOMAIN s[1].calls
    BY SitesAre
  <2>2. s[1].calls[s[2]].in \in DOMAIN s[1].decls
    BY <2>1, ParsedAre
  <2> QED BY <1>4, <2>1, <2>2 DEF Caller, CallAt
<1> QED BY <1>4, <1>5 DEF Known

(* Each resolved edge is a call that was named, of a symbol; each such call is   *)
(* an edge.                                                                    *)
LEMMA ResolvedAre ==
    ASSUME GraphInv, OneALine, built
    PROVE  /\ \A e \in Resolved :
                /\ e.from \in Known /\ e.to \in Known /\ e.line \in Nat /\ Calls(e.from, e.to)
                /\ \E t \in NamedSites : /\ Caller(t) = e.from /\ CallAt(t).line = e.line
                                         /\ CallAt(t).callee = e.to
           /\ \A a, b \in Known : Calls(a, b) => \E e \in Resolved : e.from = a /\ e.to = b
<1>1. ASSUME NEW e \in Resolved
      PROVE  /\ e.from \in Known /\ e.to \in Known /\ e.line \in Nat /\ Calls(e.from, e.to)
             /\ \E t \in NamedSites : /\ Caller(t) = e.from /\ CallAt(t).line = e.line
                                      /\ CallAt(t).callee = e.to
  <2>1. e \in edges /\ e.to # None
    BY DEF Resolved
  <2>2. PICK s \in Sites : e = Edge(s, named)
    BY <2>1, EdgesAre
  <2>3. PICK g \in ParsedFiles : g.path = CallAt(s).callee[1]
    BY <2>1, <2>2, EdgesAre
  <2>4. /\ SiteId(s) \in named /\ e.to = CallAt(s).callee /\ e.from = Caller(s)
        /\ e.line = CallAt(s).line /\ CallAt(s).callee # Elsewhere
    BY <2>1, <2>2, EdgesAre
  <2>5. s \in NamedSites
    BY <2>4 DEF NamedSites
  <2>6. CallAt(s).line \in Nat /\ CallAt(s).callee \in Paths \X (Nat \ {0})
    BY <2>4, SitesAre DEF Call
  <2>7. CallAt(s).callee[2] \in DOMAIN g.decls
    <3>1. s[1] \in ParsedFiles /\ s[2] \in DOMAIN s[1].calls
      BY SitesAre
    <3> QED BY <2>3, <2>4, <3>1, ParsedAre DEF CallAt
  <2>8. CallAt(s).callee = Sym(g, CallAt(s).callee[2])
    BY <2>3, <2>6 DEF Sym
  <2>9. e.to \in Known
    BY <2>4, <2>7, <2>8, KnownAre
  <2>10. e.from \in Known
    BY <2>4, KnownAre
  <2>11. Calls(e.from, e.to)
    BY <2>4, <2>5 DEF Calls
  <2> QED BY <2>4, <2>5, <2>6, <2>9, <2>10, <2>11
<1>2. ASSUME NEW a \in Known, NEW b \in Known, Calls(a, b)
      PROVE  \E e \in Resolved : e.from = a /\ e.to = b
  <2>1. PICK s \in NamedSites : Caller(s) = a /\ CallAt(s).callee = b
    BY <1>2 DEF Calls
  <2>2. s \in Sites /\ SiteId(s) \in named
    BY <2>1 DEF NamedSites
  <2>3. PICK g \in ParsedFiles : \E i \in DOMAIN g.decls : b = Sym(g, i)
    BY KnownAre
  <2>4. g.path = CallAt(s).callee[1] /\ b # None
    BY <2>1, <2>3 DEF Sym, None
  <2>5. Edge(s, named) \in edges /\ Edge(s, named).from = a /\ Edge(s, named).to = b
    BY <2>1, <2>2, <2>4, EdgesAre
  <2> QED BY <2>4, <2>5 DEF Resolved
<1> QED BY <1>1, <1>2

LEMMA InitQ == QInit => QInv
<1> SUFFICES ASSUME QInit PROVE QInv
  OBVIOUS
<1>1. GraphInv
  BY InitGraph DEF QInit
<1>2. q = NoQuestion /\ ~answer.given
  BY DEF QInit, NoAnswer
<1> QED BY <1>1, <1>2 DEF QInv, Walk, Answered

(* The rows of the anchor are calls of the symbol.                             *)
LEMMA AnchorWays ==
    ASSUME GraphInv, OneALine, built, NEW s \in symbols, NEW depth \in Depths
    PROVE  IsFiniteSet(Anchor(s.id)) /\ \A r \in Anchor(s.id) : Way(r, s, depth)
<1>1. depth \in Nat /\ depth >= 1
  BY CallersAssumption DEF CallersAssumption
<1>2. ASSUME NEW r \in Anchor(s.id) PROVE Way(r, s, depth)
  <2>1. PICK e \in Resolved :
          /\ e.to = s.id
          /\ r = [sym |-> e.from, depth |-> 1, path |-> <<e.to, e.from>>, line |-> e.line]
    BY <1>2 DEF Anchor
  <2>2. /\ e.from \in Known /\ e.to \in Known /\ e.line \in Nat /\ Calls(e.from, e.to)
        /\ \E t \in NamedSites : /\ Caller(t) = e.from /\ CallAt(t).line = e.line
                                 /\ CallAt(t).callee = e.to
    BY ResolvedAre
  <2>3. /\ r.path \in Seq(Known) /\ Len(r.path) = 2 /\ r.path[1] = e.to /\ r.path[2] = e.from
        /\ r.depth = 1 /\ r.sym = e.from /\ r.line = e.line
    BY <2>1, <2>2
  <2>4. \A i \in 1 .. r.depth : Calls(r.path[i + 1], r.path[i])
    BY <2>2, <2>3
  <2> QED BY <1>1, <2>1, <2>2, <2>3, <2>4 DEF Way
<1>3. IsFiniteSet(Anchor(s.id))
  <2> DEFINE here == {e \in Resolved : e.to = s.id}
             row == [e \in here |-> [sym |-> e.from, depth |-> 1, path |-> <<e.to, e.from>>,
                                     line |-> e.line]]
  <2>1. IsFiniteSet(here)
    BY EdgesFinite, FS_Subset
  <2>2. Anchor(s.id) = {row[e] : e \in here}
    BY DEF Anchor
  <2> HIDE DEF row, here
  <2>3. IsFiniteSet({row[e] : e \in here})
    BY <2>1, ImageFinite
  <2> QED BY <2>2, <2>3
<1> QED BY <1>2, <1>3

(* A way is a sequence of symbols, each of which calls the one before it.      *)
LEMMA OnTheWay ==
    ASSUME NEW s, NEW depth \in Nat, NEW r, Way(r, s, depth)
    PROVE  /\ r.depth \in Nat /\ 1 <= r.depth /\ r.depth <= depth /\ r.path \in Seq(Known)
           /\ Len(r.path) = r.depth + 1 /\ r.path[1] = s.id /\ r.path[r.depth + 1] = r.sym
           /\ \A i \in 1 .. r.depth : Calls(r.path[i + 1], r.path[i])
<1>1. /\ r.depth \in 1 .. depth /\ r.path \in Seq(Known)
      /\ Len(r.path) = r.depth + 1 /\ r.path[1] = s.id /\ r.path[r.depth + 1] = r.sym
      /\ \A i \in 1 .. r.depth : Calls(r.path[i + 1], r.path[i])
  BY Zenon DEF Way
<1>2. r.depth \in Nat /\ 1 <= r.depth /\ r.depth <= depth
  BY <1>1
<1> QED BY ONLY <1>1, <1>2

(* One more call, by a symbol that is not on the way yet.                      *)
LEMMA ExtensionWay ==
    ASSUME GraphInv, OneALine, built, NEW s, NEW depth \in Nat, NEW r, Way(r, s, depth),
           NEW e \in Resolved, e.to = r.sym, r.depth < depth, ~Revisits(r, e)
    PROVE  Way(Extension(r, e), s, depth)
<1> DEFINE x == Extension(r, e)
<1>1. /\ e.from \in Known /\ e.to \in Known /\ e.line \in Nat /\ Calls(e.from, e.to)
      /\ \E t \in NamedSites : /\ Caller(t) = e.from /\ CallAt(t).line = e.line
                               /\ CallAt(t).callee = e.to
  BY ResolvedAre
<1>2. /\ r.depth \in Nat /\ 1 <= r.depth /\ r.path \in Seq(Known) /\ Len(r.path) = r.depth + 1
      /\ r.path[1] = s.id /\ r.path[r.depth + 1] = r.sym
      /\ \A i \in 1 .. r.depth : Calls(r.path[i + 1], r.path[i])
  BY OnTheWay
<1>3. /\ x.sym = e.from /\ x.depth = r.depth + 1 /\ x.line = e.line
      /\ x.path = Append(r.path, e.from)
  BY DEF Extension
<1> HIDE DEF x
<1>4. /\ x.path \in Seq(Known) /\ Len(x.path) = r.depth + 2 /\ x.path[r.depth + 2] = e.from
      /\ \A i \in 1 .. r.depth + 1 : x.path[i] = r.path[i]
  BY <1>1, <1>2, <1>3
<1>5. \A i \in 1 .. x.depth : Calls(x.path[i + 1], x.path[i])
  <2> TAKE i \in 1 .. x.depth
  <2>1. CASE i = r.depth + 1
    <3>1. i \in 1 .. r.depth + 1 /\ i + 1 = r.depth + 2
      BY <1>2, <2>1
    <3>2. x.path[i + 1] = e.from /\ x.path[i] = e.to
      BY <1>2, <1>4, <2>1, <3>1
    <3> QED BY <1>1, <3>2
  <2>2. CASE i # r.depth + 1
    <3>1. i \in 1 .. r.depth /\ i + 1 \in 1 .. r.depth + 1 /\ i \in 1 .. r.depth + 1
      BY <1>2, <1>3, <2>2
    <3> QED BY <1>2, <1>4, <3>1
  <2> QED BY <2>1, <2>2
<1>6. x.sym # s.id
  BY <1>2, <1>3 DEF Revisits
<1>7. x.path[1] = s.id /\ x.path[x.depth] = r.sym /\ x.path[x.depth + 1] = x.sym
  <2>1. 1 \in 1 .. r.depth + 1 /\ r.depth + 1 \in 1 .. r.depth + 1
        /\ (r.depth + 1) + 1 = r.depth + 2
    BY <1>2
  <2>2. x.path[1] = r.path[1] /\ x.path[r.depth + 1] = r.path[r.depth + 1]
    BY <1>4, <2>1
  <2> QED BY ONLY <1>2, <1>3, <1>4, <2>1, <2>2
<1>8. x.depth \in 1 .. depth /\ Len(x.path) = x.depth + 1
  BY <1>2, <1>3, <1>4
<1>9. Way(x, s, depth)
  BY <1>1, <1>3, <1>4, <1>5, <1>6, <1>7, <1>8 DEF Way
<1> QED BY <1>9 DEF x

(* While a question is answered the graph stands still.                        *)
LEMMA WaysStill ==
    ASSUME UNCHANGED <<cvars, gvars>>
    PROVE  /\ Known' = Known /\ Resolved' = Resolved /\ symbols' = symbols
           /\ edges' = edges /\ built' = built
           /\ \A r, s, depth : Way(r, s, depth)' = Way(r, s, depth)
           /\ \A id : Anchor(id)' = Anchor(id)
<1>1. UNCHANGED <<built, named, symbols, edges>>
  BY DEF gvars
<1>2. Sites' = Sites
  BY GraphStill DEF gvars
<1>3. Known' = Known /\ Resolved' = Resolved /\ NamedSites' = NamedSites
  BY <1>1, <1>2 DEF Known, Resolved, NamedSites
<1>4. \A a, b : Calls(a, b)' = Calls(a, b)
  BY <1>3 DEF Calls
<1>5. \A r, s, depth : Way(r, s, depth)' = Way(r, s, depth)
  <2> TAKE r, s, depth
  <2>1. (\A i \in 1 .. r.depth : Calls(r.path[i + 1], r.path[i]))'
        <=> \A i \in 1 .. r.depth : Calls(r.path[i + 1], r.path[i])
    BY <1>4
  <2>2. (\E t \in NamedSites : /\ Caller(t) = r.sym /\ CallAt(t).line = r.line
                               /\ CallAt(t).callee = r.path[r.depth])'
        <=> \E t \in NamedSites : /\ Caller(t) = r.sym /\ CallAt(t).line = r.line
                                 /\ CallAt(t).callee = r.path[r.depth]
    BY <1>3
  <2> QED BY ONLY <1>3, <2>1, <2>2 DEF Way
<1>6. \A id : Anchor(id)' = Anchor(id)
  BY <1>3 DEF Anchor
<1> QED BY <1>1, <1>3, <1>5, <1>6

LEMMA AskStep ==
    ASSUME QInv, OneALine, Ask
    PROVE  Walk' /\ Answered'
<1>1. PICK who \in {"route", "tool"}, s \in symbols, depth \in Depths, limit \in Limits :
        /\ q' = [who |-> who, sym |-> s, depth |-> depth, limit |-> limit]
        /\ work' = Anchor(s.id)
  BY DEF Ask
<1>2. built /\ q = NoQuestion /\ walked' = work' /\ UNCHANGED <<cvars, gvars, answer>>
  BY DEF Ask
<1>3. q'.sym = s /\ q'.depth = depth /\ q' \in Question
  BY <1>1 DEF Question
<1>4. IsFiniteSet(work') /\ \A r \in work' : Way(r, s, depth)
  BY <1>1, <1>2, AnchorWays DEF QInv
<1>5. \A r \in walked' : Way(r, s, depth)'
  BY <1>2, <1>4, WaysStill
<1>6. Anchor(s.id)' \subseteq walked'
  BY <1>1, <1>2, WaysStill
<1>7. q' \in Question'
  BY <1>2, <1>3, WaysStill DEF Question
<1>8. Walk'
  BY <1>2, <1>3, <1>4, <1>5, <1>6, <1>7, WaysStill DEF Walk
<1>9. Answered'
  BY <1>2 DEF QInv, Answered
<1> QED BY <1>8, <1>9

(* A round extends each row of the last in every way it can be.                *)
LEMMA ExtendStep ==
    ASSUME QInv, OneALine, Extend
    PROVE  Walk' /\ Answered'
<1> DEFINE pairs == {x \in work \X Resolved :
                       /\ x[2].to = x[1].sym
                       /\ x[1].depth < q.depth
                       /\ ~Revisits(x[1], x[2])}
           ext == [p \in pairs |-> Extension(p[1], p[2])]
<1>1. /\ q # NoQuestion /\ ~answer.given /\ walked' = walked \cup work'
      /\ UNCHANGED <<cvars, gvars, q, answer>>
  BY DEF Extend, Asked
<1>2. work' = {ext[p] : p \in pairs}
  BY DEF Extend, Extension
<1>3. /\ built /\ q \in Question /\ IsFiniteSet(work) /\ IsFiniteSet(walked)
      /\ work \subseteq walked /\ Anchor(q.sym.id) \subseteq walked
      /\ \A r \in walked : Way(r, q.sym, q.depth)
      /\ \A r \in walked \ work, e \in Resolved : Extends(r, e) => Extension(r, e) \in walked
  BY <1>1 DEF QInv, Walk
<1>4. IsFiniteSet(pairs)
  <2>1. IsFiniteSet(work \X Resolved)
    BY <1>3, EdgesFinite, FS_Product DEF QInv
  <2>2. pairs \in SUBSET (work \X Resolved)
    OBVIOUS
  <2> HIDE DEF pairs
  <2> QED BY <2>1, <2>2, FS_Subset
<1>5. \A p \in pairs : /\ p[1] \in walked /\ p[2] \in Resolved /\ Extends(p[1], p[2])
                       /\ ext[p] = Extension(p[1], p[2])
  BY <1>3 DEF Extends
<1>6. \A r \in work, e \in Resolved : Extends(r, e) => Extension(r, e) \in work'
  <2> SUFFICES ASSUME NEW r \in work, NEW e \in Resolved, Extends(r, e)
               PROVE  Extension(r, e) \in work'
    OBVIOUS
  <2>1. <<r, e>> \in pairs
    BY DEF Extends
  <2>2. ext[<<r, e>>] = Extension(r, e)
    BY <2>1
  <2> QED BY <1>2, <2>1, <2>2
<1> HIDE DEF pairs, ext
<1>7. IsFiniteSet(work')
  BY <1>2, <1>4, ImageFinite
<1>8. \A r \in work' : Way(r, q.sym, q.depth)
  <2> SUFFICES ASSUME NEW p \in pairs PROVE Way(ext[p], q.sym, q.depth)
    BY <1>2
  <2>1. Way(p[1], q.sym, q.depth) /\ p[2] \in Resolved
    BY <1>3, <1>5
  <2>2. p[2].to = p[1].sym /\ p[1].depth < q.depth /\ ~Revisits(p[1], p[2])
    BY <1>5 DEF Extends
  <2>3. q.depth \in Nat
    BY <1>3, CallersAssumption DEF CallersAssumption, Question
  <2>4. Way(Extension(p[1], p[2]), q.sym, q.depth)
    BY <1>3, <2>1, <2>2, <2>3, ExtensionWay DEF QInv
  <2> QED BY <1>5, <2>4
<1>9. IsFiniteSet(walked')
  BY <1>1, <1>3, <1>7, FS_Union
<1>10. \A r \in walked' : Way(r, q.sym, q.depth)
  BY <1>1, <1>3, <1>8
<1>11. \A r \in walked' \ work', e \in Resolved : Extends(r, e) => Extension(r, e) \in walked'
  <2> SUFFICES ASSUME NEW r \in walked' \ work', NEW e \in Resolved, Extends(r, e)
               PROVE  Extension(r, e) \in walked'
    OBVIOUS
  <2>1. r \in walked
    BY <1>1
  <2>2. CASE r \in work
    BY <1>1, <1>6, <2>2
  <2>3. CASE r \notin work
    BY <1>1, <1>3, <2>1, <2>3
  <2> QED BY <2>2, <2>3
<1>12. Walk'
  <2>1. \A r, e : Extends(r, e)' = Extends(r, e)
    BY <1>1 DEF Extends
  <2>2. Question' = Question /\ q' = q /\ built' = built /\ Resolved' = Resolved
    BY <1>1, WaysStill DEF Question
  <2>3. \A r \in walked' : Way(r, q.sym, q.depth)'
    BY <1>1, <1>10, <2>2, WaysStill
  <2>4. Anchor(q.sym.id)' \subseteq walked'
    BY <1>1, <1>3, <2>2, WaysStill
  <2>5. \A r \in walked' \ work', e \in Resolved' : Extends(r, e)' => Extension(r, e) \in walked'
    BY <1>11, <2>1, <2>2
  <2> QED BY <1>1, <1>3, <1>7, <1>9, <2>2, <2>3, <2>4, <2>5 DEF Walk
<1>13. Answered'
  BY <1>1 DEF Answered
<1> QED BY <1>12, <1>13

(* What a step that leaves the walk alone leaves alone.                        *)
LEMMA WalkStill ==
    ASSUME Walk, UNCHANGED <<cvars, gvars, q, work, walked>>
    PROVE  /\ Walk' /\ Grouped' = Grouped /\ ByName(AskedName)' = ByName(AskedName)
           /\ \A rs : Clipped(rs)' = Clipped(rs)
<1>1. \A r, e : Extends(r, e)' = Extends(r, e)
  BY DEF Extends
<1>2. Question' = Question /\ q' = q /\ work' = work /\ walked' = walked
  BY WaysStill DEF Question
<1>3. Walk'
  <2>1. q # NoQuestion => \A r \in walked' : Way(r, q.sym, q.depth)'
    BY <1>2, WaysStill DEF Walk
  <2>2. q # NoQuestion => Anchor(q.sym.id)' \subseteq walked'
    BY <1>2, WaysStill DEF Walk
  <2>3. q # NoQuestion =>
          \A r \in walked' \ work', e \in Resolved' :
            Extends(r, e)' => Extension(r, e) \in walked'
    BY <1>1, <1>2, WaysStill DEF Walk
  <2> QED BY <1>2, <2>1, <2>2, <2>3, WaysStill DEF Walk
<1>4. Grouped' = Grouped
  BY DEF Grouped, Nearest
<1>5. ByName(AskedName)' = ByName(AskedName)
  <2>1. edges' = edges
    BY WaysStill
  <2>2. AskedName' = AskedName
    BY DEF AskedName
  <2> QED BY <2>1, <2>2 DEF ByName
<1>6. \A rs : Clipped(rs)' = Clipped(rs)
  BY DEF Clipped
<1> QED BY <1>3, <1>4, <1>5, <1>6

LEMMA AnswerStep ==
    ASSUME QInv, Answer
    PROVE  Walk' /\ Answered'
<1>1. /\ q # NoQuestion /\ ~answer.given /\ work = {}
      /\ UNCHANGED <<cvars, gvars, q, work, walked>>
  BY DEF Answer, Asked
<1>2. /\ Walk' /\ Grouped' = Grouped /\ ByName(AskedName)' = ByName(AskedName)
      /\ \A rs : Clipped(rs)' = Clipped(rs)
  BY <1>1, WalkStill DEF QInv
<1>3. PICK callers \in Firsts(Grouped, q.limit), approx \in Firsts(ByName(AskedName), q.limit) :
        \/ answer' = [callers |-> callers, truncated |-> Clipped(Grouped),
                      approx |-> approx, more |-> Clipped(ByName(AskedName)),
                      failed |-> FALSE, given |-> TRUE]
        \/ /\ q.who = "route"
           /\ answer' = [callers |-> callers, truncated |-> Clipped(Grouped),
                         approx |-> {}, more |-> FALSE, failed |-> TRUE, given |-> TRUE]
  BY DEF Answer
<1>4. /\ answer'.callers \in Firsts(Grouped, q.limit) /\ answer'.truncated = Clipped(Grouped)
      /\ \/ answer'.failed /\ q.who = "route" /\ answer'.approx = {}
         \/ /\ answer'.approx \in Firsts(ByName(AskedName), q.limit)
            /\ answer'.more = Clipped(ByName(AskedName))
  BY <1>3
<1>5. Answered'
  BY <1>1, <1>2, <1>4 DEF Answered
<1> QED BY <1>2, <1>5

(* Once there is a graph the job has nothing left to do.                       *)
LEMMA BuiltStays ==
    ASSUME GraphInv, built, [GNext]_<<cvars, gvars>>
    PROVE  UNCHANGED <<cvars, gvars>>
<1>1. stage = "indexed" /\ UNCHANGED gvars
  BY DEF GraphInv, Graphed, GNext, BuildGraph, gvars
<1>2. UNCHANGED cvars
  BY <1>1 DEF GNext, BuildGraph, CNext, Skip, Visit, Walked, Vanished, PassOver, Open, Whole,
              Tile, Window, Cut, Reuse, Embed, Indexed, Fail, Between, cvars
<1> QED BY <1>1, <1>2

LEMMA NextQ ==
    ASSUME QInv, OneALine, [QNext]_<<cvars, gvars, qvars>>
    PROVE  QInv'
<1>1. [GNext]_<<cvars, gvars>>
  BY DEF QNext, Ask, Extend, Cancelled, Answer
<1>2. GraphInv'
  BY <1>1, NextGraph DEF QInv
<1>3. CASE Ask
  BY <1>2, <1>3, AskStep DEF QInv
<1>4. CASE Extend
  BY <1>2, <1>4, ExtendStep DEF QInv
<1>5. CASE Answer
  BY <1>2, <1>5, AnswerStep DEF QInv
<1>6. CASE Cancelled
  <2>1. q' = NoQuestion /\ ~answer.given /\ answer' = answer
    BY <1>6 DEF Cancelled, Asked
  <2>2. Walk' /\ Answered'
    BY <2>1 DEF Walk, Answered
  <2> QED BY <1>2, <2>2 DEF QInv
<1>7. CASE UNCHANGED qvars
  <2>1. UNCHANGED <<q, work, walked, answer>>
    BY <1>7 DEF qvars
  <2>2. CASE q = NoQuestion
    <3>1. Walk' /\ Answered'
      BY <2>1, <2>2 DEF QInv, Walk, Answered
    <3> QED BY <1>2, <3>1 DEF QInv
  <2>3. CASE q # NoQuestion
    <3>1. built
      BY <2>3 DEF QInv, Walk
    <3>2. UNCHANGED <<cvars, gvars, q, work, walked>>
      BY <1>1, <2>1, <3>1, BuiltStays DEF QInv
    <3>3. /\ Walk' /\ Grouped' = Grouped /\ ByName(AskedName)' = ByName(AskedName)
          /\ \A rs : Clipped(rs)' = Clipped(rs)
      BY <3>2, WalkStill DEF QInv
    <3>4. Answered'
      BY <2>1, <3>3 DEF QInv, Answered
    <3> QED BY <1>2, <3>3, <3>4 DEF QInv
  <2> QED BY <2>2, <2>3
<1> QED BY <1>3, <1>4, <1>5, <1>6, <1>7 DEF QNext, qvars

(* The row by which a caller is listed: as near as any, and the first call of    *)
(* those.                                                                      *)
LEMMA NearestIs ==
    ASSUME QInv, q # NoQuestion, NEW r \in walked
    PROVE  /\ Nearest(r.sym) \in walked /\ Nearest(r.sym).sym = r.sym
           /\ Nearest(r.sym).depth <= r.depth
<1> DEFINE own == {o \in walked : o.sym = r.sym}
           best(m) == \A o \in own : m.depth < o.depth
                                     \/ (m.depth = o.depth /\ m.line <= o.line)
<1>1. \A o \in own : o.depth \in Nat /\ o.line \in Nat
  BY DEF QInv, Walk, Way
<1>2. r \in own
  OBVIOUS
<1>3. PICK m \in own : \A o \in own : m.depth <= o.depth
  <2> DEFINE f == [o \in own |-> o.depth]
  <2>1. f \in [own -> Nat]
    BY <1>1
  <2>2. PICK m \in own : \A o \in own : f[m] <= f[o]
    BY <1>2, <2>1, LeastOf
  <2> QED BY <2>2
<1> DEFINE near == {o \in own : o.depth = m.depth}
<1>4. PICK k \in near : \A o \in near : k.line <= o.line
  <2> DEFINE f == [o \in near |-> o.line]
  <2>1. f \in [near -> Nat] /\ m \in near
    BY <1>1
  <2>2. PICK k \in near : \A o \in near : f[k] <= f[o]
    BY <2>1, LeastOf
  <2> QED BY <2>2
<1>5. k \in own /\ best(k)
  BY <1>1, <1>3, <1>4
<1>6. Nearest(r.sym) = CHOOSE x \in own : best(x)
  BY DEF Nearest
<1>7. Nearest(r.sym) \in own /\ best(Nearest(r.sym))
  BY <1>5, <1>6
<1> QED BY <1>1, <1>2, <1>7

LEMMA GroupedFinite ==
    ASSUME QInv, q # NoQuestion
    PROVE  /\ IsFiniteSet(Grouped) /\ Cardinality(Grouped) \in Nat
           /\ IsFiniteSet(ByName(AskedName)) /\ Cardinality(ByName(AskedName)) \in Nat
<1> DEFINE sym == [r \in walked |-> r.sym]
           syms == {sym[r] : r \in walked}
           group == [s \in syms |-> [sym |-> s, depth |-> Nearest(s).depth,
                                     line |-> Nearest(s).line]]
           named_ == {x \in edges : x.to = None /\ x.name = AskedName}
           row == [e \in named_ |-> [sym |-> e.from, site |-> e.site, depth |-> 1]]
<1>1. IsFiniteSet(walked) /\ built
  BY DEF QInv, Walk
<1>2. Grouped = {group[s] : s \in syms}
  BY DEF Grouped
<1>3. ByName(AskedName) = {row[e] : e \in named_}
  BY DEF ByName
<1>4. IsFiniteSet(named_)
  BY <1>1, EdgesFinite, FS_Subset DEF QInv
<1> HIDE DEF sym, group, row, named_
<1>5. IsFiniteSet(syms)
  BY <1>1, ImageFinite
<1> HIDE DEF syms
<1> QED BY <1>2, <1>3, <1>4, <1>5, ImageFinite, FS_CardinalityType

(* A LIMIT that is not reached leaves nothing out.                             *)
LEMMA FirstsAll ==
    ASSUME NEW rs, IsFiniteSet(rs), NEW n \in Nat, NEW top \in Firsts(rs, n)
    PROVE  Cardinality(top) < n \/ ~(Cardinality(rs) > n) => top = rs
<1>1. /\ top \in SUBSET rs
      /\ Cardinality(top) = IF Cardinality(rs) < n THEN Cardinality(rs) ELSE n
  BY DEF Firsts
<1>2. Cardinality(rs) \in Nat
  BY FS_CardinalityType
<1>3. Cardinality(rs) = Cardinality(top) => rs = top
  BY <1>1, FS_Subset
<1> QED BY <1>1, <1>2, <1>3

(* A caller's group is of its nearest row.                                     *)
LEMMA GroupedHas ==
    ASSUME QInv, q # NoQuestion
    PROVE  /\ \A r \in walked : \E g \in Grouped : g.sym = r.sym /\ g.depth <= r.depth
           /\ \A g \in Grouped :
                /\ \E r \in walked : g.sym = r.sym /\ g.depth = r.depth /\ g.line = r.line
                /\ \A r \in walked : r.sym = g.sym => g.depth <= r.depth
                /\ \A o \in Grouped : o.sym = g.sym => o = g
<1> DEFINE group(s) == [sym |-> s, depth |-> Nearest(s).depth, line |-> Nearest(s).line]
<1>1. Grouped = {group(r.sym) : r \in walked}
  BY DEF Grouped
<1>2. ASSUME NEW r \in walked
      PROVE  /\ group(r.sym).sym = r.sym /\ group(r.sym).depth <= r.depth
             /\ \E o \in walked : /\ group(r.sym).sym = o.sym /\ group(r.sym).depth = o.depth
                                  /\ group(r.sym).line = o.line
  BY NearestIs
<1> HIDE DEF group
<1>3. \A r \in walked : \E g \in Grouped : g.sym = r.sym /\ g.depth <= r.depth
  BY <1>1, <1>2
<1>4. ASSUME NEW g \in Grouped
      PROVE  /\ \E r \in walked : g.sym = r.sym /\ g.depth = r.depth /\ g.line = r.line
             /\ \A r \in walked : r.sym = g.sym => g.depth <= r.depth
             /\ \A o \in Grouped : o.sym = g.sym => o = g
  <2>1. PICK a \in walked : g = group(a.sym)
    BY <1>1
  <2>2. g.sym = a.sym
    BY <1>2, <2>1
  <2>3. \A r \in walked : r.sym = g.sym => g.depth <= r.depth
    BY <1>2, <2>1, <2>2
  <2>4. \A o \in Grouped : o.sym = g.sym => o = g
    <3> TAKE o \in Grouped
    <3>1. PICK b \in walked : o = group(b.sym)
      BY <1>1
    <3>2. o.sym = b.sym
      BY <1>2, <3>1
    <3> QED BY <2>1, <2>2, <3>1, <3>2
  <2> QED BY <1>2, <2>1, <2>3, <2>4
<1> QED BY <1>3, <1>4

(* What go/types makes of a call of a function or a method: the identifier's     *)
(* object has the identifier's name.  A call of an interface's method is placed  *)
(* at the interface, whose name is another.                                    *)
CalledByName ==
    \A j \in Jobs : \A f, g \in FilesOf(j) : \A k \in DOMAIN f.calls, m \in DOMAIN g.decls :
      f.calls[k].callee = Sym(g, m) =>
        f.calls[k].name = g.decls[m].name[Len(g.decls[m].name)]

LEMMA NamesAre ==
    ASSUME GraphInv, CalledByName, built, NEW s \in Sites, NEW sym \in symbols,
           CallAt(s).callee = sym.id
    PROVE  <<CallAt(s).name>> = ApproxName(sym)
<1>1. PICK j \in Jobs : parsed \in Seq(FilesOf(j))
  BY DEF GraphInv, Walking
<1>2. ParsedFiles \subseteq FilesOf(j)
  BY <1>1 DEF ParsedFiles
<1>3. PICK g \in ParsedFiles : sym \in SymbolsOf(g)
  BY DEF GraphInv, Graphed
<1>4. PICK m \in DOMAIN g.decls : sym.id = Sym(g, m) /\ sym.name = g.decls[m].name
  BY <1>3 DEF SymbolsOf
<1>5. s[1] \in ParsedFiles /\ s[2] \in DOMAIN s[1].calls
  BY SitesAre
<1>6. s[1].calls[s[2]].name = g.decls[m].name[Len(g.decls[m].name)]
  BY <1>2, <1>4, <1>5 DEF CalledByName, CallAt
<1> QED BY <1>4, <1>6 DEF ApproxName, CallAt

(* What the type-check names is a fact of the answer, what it does not a guess:  *)
(* whichever calls were resolved, whatever cycles the walk met and wherever the  *)
(* limit fell, the route leaves no call of the symbol out without saying so.    *)
THEOREM NoCallUnanswered ==
  ASSUME OneALine, CalledByName PROVE QSpec => []EveryCallAnswered
<1>1. QInv => EveryCallAnswered
  <2> SUFFICES ASSUME QInv, answer.given, q.who = "route", NEW s \in Sites,
                      CallAt(s).callee = q.sym.id
               PROVE  /\ \/ \E r \in answer.callers : r.sym = Caller(s) /\ r.depth = 1
                         \/ \E r \in answer.approx : r.site = SiteId(s)
                         \/ answer.truncated \/ answer.more \/ answer.failed
                      /\ ~(SiteId(s) \in named /\ \E r \in answer.approx : r.site = SiteId(s))
    BY DEF EveryCallAnswered
  <2>1. q # NoQuestion
    BY DEF QInv, Answered
  <2>2. /\ built /\ q \in Question /\ Anchor(q.sym.id) \subseteq walked
        /\ \A r \in walked : Way(r, q.sym, q.depth)
    BY <2>1 DEF QInv, Walk
  <2>3. q.sym \in symbols /\ q.limit \in Nat
    BY <2>2, CallersAssumption DEF CallersAssumption, Question
  <2>4. PICK f \in ParsedFiles : \E i \in DOMAIN f.decls : q.sym.id = Sym(f, i)
    BY <2>2, <2>3, KnownAre DEF QInv
  <2>5. f.path = CallAt(s).callee[1] /\ CallAt(s).callee # None
    BY <2>4 DEF Sym, None
  <2>6. /\ Edge(s, named) \in edges /\ Edge(s, named).site = SiteId(s)
        /\ Edge(s, named).from = Caller(s)
        /\ Edge(s, named).name = <<CallAt(s).name>>
        /\ Edge(s, named).to = IF SiteId(s) \in named THEN q.sym.id ELSE None
        /\ \A e \in edges : e.site = SiteId(s) => e = Edge(s, named)
    BY <2>2, <2>5, EdgesAre DEF QInv
  <2>7. ~(SiteId(s) \in named /\ \E r \in answer.approx : r.site = SiteId(s))
    <3> SUFFICES ASSUME SiteId(s) \in named, NEW r \in answer.approx, r.site = SiteId(s)
                 PROVE  FALSE
      OBVIOUS
    <3>1. r \in ByName(AskedName)
      BY DEF QInv, Answered, Firsts
    <3>2. PICK e \in edges : e.to = None /\ r.site = e.site
      BY <3>1 DEF ByName
    <3> QED BY <2>5, <2>6, <3>2
  <2>8. ASSUME ~answer.truncated, ~answer.failed, SiteId(s) \in named
        PROVE  \E r \in answer.callers : r.sym = Caller(s) /\ r.depth = 1
    <3>1. Edge(s, named) \in Resolved /\ Edge(s, named).to = q.sym.id
      BY <2>5, <2>6, <2>8 DEF Resolved
    <3>2. \E r \in Anchor(q.sym.id) : r.sym = Caller(s) /\ r.depth = 1
      <4> DEFINE e == Edge(s, named)
                 row == [sym |-> e.from, depth |-> 1, path |-> <<e.to, e.from>>,
                         line |-> e.line]
      <4>1. e \in {x \in Resolved : x.to = q.sym.id} /\ e.from = Caller(s)
        BY <2>6, <3>1
      <4>2. row.sym = e.from /\ row.depth = 1
        OBVIOUS
      <4> HIDE DEF e
      <4>3. row \in Anchor(q.sym.id)
        BY <4>1 DEF Anchor
      <4> HIDE DEF row
      <4> QED BY <4>1, <4>2, <4>3
    <3>3. PICK r \in walked : r.sym = Caller(s) /\ r.depth = 1
      BY <2>2, <3>2
    <3>4. PICK g \in Grouped : g.sym = r.sym /\ g.depth <= r.depth
      BY <2>1, GroupedHas
    <3>5. g.depth = 1
      <4>1. PICK o \in walked : g.depth = o.depth
        BY <2>1, GroupedHas
      <4>2. o.depth \in Nat /\ 1 <= o.depth
        BY <2>2 DEF Way
      <4> QED BY <3>3, <3>4, <4>1, <4>2
    <3>6. answer.callers = Grouped
      <4>1. answer.callers \in Firsts(Grouped, q.limit) /\ ~(Cardinality(Grouped) > q.limit)
        BY <2>8 DEF QInv, Answered, Clipped
      <4> QED BY <2>1, <2>3, <4>1, GroupedFinite, FirstsAll
    <3> QED BY <3>3, <3>4, <3>5, <3>6
  <2>9. ASSUME ~answer.more, ~answer.failed, SiteId(s) \notin named
        PROVE  \E r \in answer.approx : r.site = SiteId(s)
    <3>1. Edge(s, named).name = AskedName
      BY <2>2, <2>3, <2>6, NamesAre DEF QInv, AskedName
    <3>2. \E r \in ByName(AskedName) : r.site = SiteId(s)
      <4> DEFINE e == Edge(s, named)
                 row == [sym |-> e.from, site |-> e.site, depth |-> 1]
      <4>1. e \in {x \in edges : x.to = None /\ x.name = AskedName} /\ e.site = SiteId(s)
        BY <2>6, <2>9, <3>1
      <4>2. row.site = e.site
        OBVIOUS
      <4> HIDE DEF e
      <4>3. row \in ByName(AskedName)
        BY <4>1 DEF ByName
      <4> HIDE DEF row
      <4> QED BY <4>1, <4>2, <4>3
    <3>3. answer.approx = ByName(AskedName)
      <4>1. /\ answer.approx \in Firsts(ByName(AskedName), q.limit)
            /\ ~(Cardinality(ByName(AskedName)) > q.limit)
        BY <2>9 DEF QInv, Answered, Clipped
      <4> QED BY <2>1, <2>3, <4>1, GroupedFinite, FirstsAll
    <3> QED BY <3>2, <3>3
  <2> QED BY <2>7, <2>8, <2>9
<1>2. QInv /\ [QNext]_<<cvars, gvars, qvars>> => QInv'
  BY NextQ
<1> QED BY <1>1, <1>2, InitQ, PTL DEF QSpec
-----------------------------------------------------------------------------
(* A row of the walk is a chain of calls from each symbol on it.               *)
LEMMA WayChain ==
    ASSUME NEW s, NEW depth \in Nat, NEW r, Way(r, s, depth), NEW m \in 0 .. r.depth
    PROVE  r.path[m + 1] \in Known /\ Chain(r.path[m + 1], s.id, m)
<1>1. /\ r.depth \in Nat /\ r.path \in Seq(Known) /\ Len(r.path) = r.depth + 1
      /\ r.path[1] = s.id /\ \A i \in 1 .. r.depth : Calls(r.path[i + 1], r.path[i])
  BY OnTheWay
<1>2. m \in Nat /\ m <= r.depth
  BY <1>1
<1>3. \A i \in 0 .. m : r.path[m + 1 - i] \in Known
  <2> SUFFICES ASSUME NEW i \in 0 .. m PROVE r.path[m + 1 - i] \in Known
    OBVIOUS
  <2>1. m + 1 - i \in 1 .. Len(r.path)
    BY <1>1, <1>2
  <2> QED BY <1>1, <2>1
<1> DEFINE f == [i \in 0 .. m |-> r.path[m + 1 - i]]
<1>4. f \in [0 .. m -> Known]
  BY <1>3
<1>5. f[0] = r.path[m + 1] /\ f[m] = s.id
  BY <1>1, <1>2
<1>6. \A i \in 0 .. m - 1 : Calls(f[i], f[i + 1])
  <2> SUFFICES ASSUME NEW i \in 0 .. m - 1 PROVE Calls(f[i], f[i + 1])
    OBVIOUS
  <2>1. f[i] = r.path[(m - i) + 1] /\ f[i + 1] = r.path[m - i] /\ m - i \in 1 .. r.depth
    <3>1. i \in 0 .. m /\ i + 1 \in 0 .. m /\ i \in Nat
      BY <1>2
    <3>2. m + 1 - i = (m - i) + 1 /\ m + 1 - (i + 1) = m - i /\ m - i \in 1 .. r.depth
      BY <1>1, <1>2, <3>1
    <3>3. f[i] = r.path[m + 1 - i] /\ f[i + 1] = r.path[m + 1 - (i + 1)]
      BY <3>1
    <3> HIDE DEF f
    <3> QED BY <3>2, <3>3
  <2> QED BY <1>1, <2>1
<1>7. r.path[m + 1] \in Known
  BY <1>1, <1>2
<1> HIDE DEF f
<1>8. Chain(f[0], s.id, m)
  BY ONLY <1>4, <1>5, <1>6, Zenon DEF Chain
<1> QED BY <1>5, <1>7, <1>8

(* A chain that passes a symbol twice is shorter without what lies between: the  *)
(* shortest passes none.                                                       *)
Path(f, a, b, n) ==
    /\ f \in [0 .. n -> Known] /\ f[0] = a /\ f[n] = b
    /\ \A i \in 0 .. n - 1 : Calls(f[i], f[i + 1])

Simple(f, n) == \A i, j \in 0 .. n : f[i] = f[j] => i = j

LEMMA Shortcut ==
    ASSUME NEW a, NEW b, NEW n \in Nat, NEW f, Path(f, a, b, n),
           NEW i \in 0 .. n, NEW j \in 0 .. n, i < j, f[i] = f[j]
    PROVE  \E m \in Nat : m < n /\ Chain(a, b, m)
<1> DEFINE d == j - i
           m == n - d
           g == [l \in 0 .. m |-> IF l <= i THEN f[l] ELSE f[l + d]]
<1>1. d \in Nat /\ d > 0 /\ m \in Nat /\ m < n /\ i \in Nat /\ i <= m
  OBVIOUS
<1>2. /\ f \in [0 .. n -> Known] /\ f[0] = a /\ f[n] = b
      /\ \A l \in 0 .. n - 1 : Calls(f[l], f[l + 1])
  BY DEF Path
<1>3. g \in [0 .. m -> Known]
  <2> SUFFICES ASSUME NEW l \in 0 .. m PROVE (IF l <= i THEN f[l] ELSE f[l + d]) \in Known
    OBVIOUS
  <2>1. l \in 0 .. n /\ l + d \in 0 .. n
    BY <1>1
  <2> QED BY <1>2, <2>1
<1>4. g[0] = a
  BY <1>1, <1>2
<1>5. g[m] = b
  <2>1. CASE m <= i
    <3>1. m = i /\ n = j
      BY <1>1, <2>1
    <3> QED BY <1>1, <1>2, <3>1
  <2>2. CASE ~(m <= i)
    <3>1. m + d = n /\ g[m] = f[m + d]
      BY <1>1, <2>2
    <3> QED BY <1>2, <3>1
  <2> QED BY <2>1, <2>2
<1>6. \A l \in 0 .. m - 1 : Calls(g[l], g[l + 1])
  <2> SUFFICES ASSUME NEW l \in 0 .. m - 1 PROVE Calls(g[l], g[l + 1])
    OBVIOUS
  <2>1. l \in 0 .. m /\ l + 1 \in 0 .. m /\ l \in 0 .. n - 1 /\ l + d \in 0 .. n - 1
    BY <1>1
  <2>2. CASE l < i
    <3>1. g[l] = f[l] /\ g[l + 1] = f[l + 1]
      BY <1>1, <2>1, <2>2
    <3> QED BY <1>2, <2>1, <3>1
  <2>3. CASE l = i
    <3>1. g[l] = f[j] /\ g[l + 1] = f[j + 1] /\ j = l + d
      <4>1. g[l] = f[i] /\ g[l + 1] = f[(l + 1) + d] /\ (l + 1) + d = j + 1 /\ j = l + d
        BY <1>1, <2>1, <2>3
      <4> QED BY <4>1
    <3> QED BY <1>2, <2>1, <3>1
  <2>4. CASE l > i
    <3>1. g[l] = f[l + d] /\ g[l + 1] = f[(l + 1) + d] /\ (l + 1) + d = (l + d) + 1
      BY <1>1, <2>1, <2>4
    <3> QED BY <1>2, <2>1, <3>1
  <2> QED BY <1>1, <2>1, <2>2, <2>3, <2>4
<1> HIDE DEF g
<1>7. Chain(a, b, m)
  BY <1>3, <1>4, <1>5, <1>6 DEF Chain
<1> QED BY <1>1, <1>7

LEMMA ShortestChain ==
    ASSUME NEW a, NEW b, NEW k \in Nat, Chain(a, b, k)
    PROVE  \E n \in 0 .. k : \E f : Path(f, a, b, n) /\ Simple(f, n)
<1> DEFINE S == {n \in Nat : Chain(a, b, n)}
           id == [n \in S |-> n]
<1>1. k \in S /\ id \in [S -> Nat]
  OBVIOUS
<1>2. PICK n \in S : \A o \in S : id[n] <= id[o]
  BY <1>1, LeastOf
<1>3. n \in Nat /\ n <= k /\ Chain(a, b, n) /\ \A o \in Nat : Chain(a, b, o) => n <= o
  BY <1>1, <1>2
<1>4. PICK f : Path(f, a, b, n)
  BY <1>3 DEF Chain, Path
<1>5. \A i, j \in 0 .. n : i < j => f[i] # f[j]
  BY <1>3, <1>4, Shortcut
<1>6. Simple(f, n)
  <2> SUFFICES ASSUME NEW i \in 0 .. n, NEW j \in 0 .. n, f[i] = f[j] PROVE i = j
    BY DEF Simple
  <2>1. i \in Int /\ j \in Int /\ (i = j \/ i < j \/ j < i)
    OBVIOUS
  <2> QED BY <1>5, <2>1
<1> QED BY <1>3, <1>4, <1>6

(* The walk climbs every way that crosses itself nowhere, a round for a call.    *)
Climbed(f, n, m) ==
    \E w \in walked :
      /\ w.depth = m /\ w.sym = f[n - m] /\ w.path \in Seq(Known) /\ Len(w.path) = m + 1
      /\ \A i \in 1 .. m + 1 : w.path[i] = f[n + 1 - i]

LEMMA WalkedUp ==
    ASSUME QInv, OneALine, q # NoQuestion, work = {},
           NEW n \in 1 .. q.depth, NEW a, NEW f, Path(f, a, q.sym.id, n), Simple(f, n)
    PROVE  \E w \in walked : w.sym = a /\ w.depth = n
<1>1. /\ built /\ GraphInv /\ q \in Question /\ Anchor(q.sym.id) \subseteq walked
      /\ \A r \in walked : Way(r, q.sym, q.depth)
      /\ \A r \in walked, e \in Resolved : Extends(r, e) => Extension(r, e) \in walked
  BY DEF QInv, Walk
<1>2. q.depth \in Nat /\ n \in Nat /\ 1 <= n /\ n <= q.depth
  <2>1. q.depth \in Nat
    BY <1>1, CallersAssumption DEF CallersAssumption, Question
  <2> QED BY <2>1
<1>3. /\ f[0] = a /\ f[n] = q.sym.id /\ \A i \in 0 .. n : f[i] \in Known
      /\ \A i \in 0 .. n - 1 : Calls(f[i], f[i + 1])
  BY DEF Path
<1>4. \A i \in 0 .. n - 1 : \E e \in Resolved : e.from = f[i] /\ e.to = f[i + 1]
  BY <1>1, <1>2, <1>3, ResolvedAre
<1>5. Climbed(f, n, 1)
  <2>1. PICK e \in Resolved : e.from = f[n - 1] /\ e.to = f[(n - 1) + 1]
    BY <1>2, <1>4
  <2>2. e.to = f[n] /\ f[n] \in Known /\ f[n - 1] \in Known /\ e.to = q.sym.id
    BY <1>2, <1>3, <2>1
  <2> DEFINE w == [sym |-> e.from, depth |-> 1, path |-> <<e.to, e.from>>, line |-> e.line]
  <2>3. w \in Anchor(q.sym.id)
    BY <2>2 DEF Anchor
  <2>4. /\ w.depth = 1 /\ w.sym = f[n - 1] /\ w.path \in Seq(Known) /\ Len(w.path) = 1 + 1
        /\ w.path[1] = f[n] /\ w.path[2] = f[n - 1]
    BY <2>1, <2>2
  <2> HIDE DEF w
  <2>5. \A i \in 1 .. 1 + 1 : w.path[i] = f[n + 1 - i]
    <3> TAKE i \in 1 .. 1 + 1
    <3>1. (i = 1 /\ n + 1 - i = n) \/ (i = 2 /\ n + 1 - i = n - 1)
      BY <1>2
    <3> QED BY <2>4, <3>1
  <2> QED BY <1>1, <2>3, <2>4, <2>5 DEF Climbed
<1>6. ASSUME NEW m \in 1 .. n - 1, Climbed(f, n, m) PROVE Climbed(f, n, m + 1)
  <2>1. PICK w \in walked : /\ w.depth = m /\ w.sym = f[n - m] /\ w.path \in Seq(Known)
                            /\ Len(w.path) = m + 1
                            /\ \A i \in 1 .. m + 1 : w.path[i] = f[n + 1 - i]
    BY <1>6 DEF Climbed
  <2>2. m \in Nat /\ 1 <= m /\ m < n /\ n - (m + 1) \in 0 .. n - 1
        /\ (n - (m + 1)) + 1 = n - m
    BY <1>2
  <2>3. PICK e \in Resolved : e.from = f[n - (m + 1)] /\ e.to = f[n - m]
    BY <1>4, <2>2
  <2>4. ~Revisits(w, e)
    <3> SUFFICES ASSUME NEW i \in 1 .. m + 1, w.path[i] = e.from PROVE FALSE
      BY <2>1, <2>2 DEF Revisits
    <3>1. n + 1 - i \in 0 .. n /\ n - (m + 1) \in 0 .. n /\ n + 1 - i # n - (m + 1)
      BY <1>2, <2>2
    <3>2. f[n + 1 - i] = f[n - (m + 1)]
      BY <2>1, <2>3
    <3> QED BY <3>1, <3>2 DEF Simple
  <2>5. Extension(w, e) \in walked
    BY <1>1, <1>2, <2>1, <2>2, <2>3, <2>4 DEF Extends
  <2>6. e.from \in Known
    BY <1>3, <2>2, <2>3
  <2> DEFINE x == Extension(w, e)
  <2>7. x.depth = m + 1 /\ x.sym = f[n - (m + 1)] /\ x.path = Append(w.path, e.from)
    BY <2>1, <2>3 DEF Extension
  <2>8. /\ x.path \in Seq(Known) /\ Len(x.path) = (m + 1) + 1
        /\ \A i \in 1 .. m + 1 : x.path[i] = w.path[i]
        /\ x.path[(m + 1) + 1] = e.from
    BY <2>1, <2>2, <2>6, <2>7
  <2>9. \A i \in 1 .. (m + 1) + 1 : x.path[i] = f[n + 1 - i]
    <3> TAKE i \in 1 .. (m + 1) + 1
    <3>1. CASE i \in 1 .. m + 1
      BY <2>1, <2>8, <3>1
    <3>2. CASE i = (m + 1) + 1
      <4>1. n + 1 - i = n - (m + 1)
        BY <1>2, <2>2, <3>2
      <4> QED BY <2>3, <2>8, <3>2, <4>1
    <3> QED BY <2>2, <3>1, <3>2
  <2> QED BY <2>5, <2>7, <2>8, <2>9 DEF Climbed
<1>7. Climbed(f, n, n)
  <2> DEFINE U == {m \in 0 .. n - 1 : Climbed(f, n, m + 1)}
  <2>1. 0 \in U
    BY <1>2, <1>5
  <2>2. ASSUME NEW i \in 0 .. (n - 1) - 1, i \in U PROVE i + 1 \in U
    <3>1. i + 1 \in 1 .. n - 1 /\ i + 1 \in 0 .. n - 1
      BY <1>2
    <3> QED BY <1>6, <2>2, <3>1
  <2>3. n - 1 \in Nat
    BY <1>2
  <2>4. n - 1 \in U
    <3> HIDE DEF U
    <3> QED BY <2>1, <2>2, <2>3, Climb
  <2> QED BY <1>2, <2>4
<1> QED BY <1>2, <1>3, <1>7 DEF Climbed

(* So what calls the symbol in some number of calls, within the depth asked for,  *)
(* was walked to in no more.                                                   *)
LEMMA Reached ==
    ASSUME QInv, OneALine, q # NoQuestion, work = {},
           NEW a, a # q.sym.id, NEW k \in Nat, k <= q.depth, Near(a, k)
    PROVE  \E g \in Grouped : g.sym = a /\ g.depth <= k
<1>1. PICK c \in 1 .. k : Chain(a, q.sym.id, c)
  BY DEF Near
<1>2. c \in Nat /\ c <= k
  OBVIOUS
<1>3. PICK n \in 0 .. c : \E f : Path(f, a, q.sym.id, n) /\ Simple(f, n)
  BY <1>1, <1>2, ShortestChain
<1>4. PICK f : Path(f, a, q.sym.id, n) /\ Simple(f, n)
  BY <1>3
<1>5. n # 0
  BY <1>4 DEF Path
<1>6. q.depth \in Nat
  BY CallersAssumption DEF QInv, Walk, CallersAssumption, Question
<1>7. n \in 1 .. q.depth /\ n <= k
  BY <1>2, <1>5, <1>6
<1>8. PICK w \in walked : w.sym = a /\ w.depth = n
  BY <1>4, <1>7, WalkedUp
<1>9. PICK g \in Grouped : g.sym = w.sym /\ g.depth <= w.depth
  BY GroupedHas
<1>10. g.depth \in Nat
  <2>1. PICK o \in walked : g.depth = o.depth
    BY GroupedHas
  <2> QED BY <2>1 DEF QInv, Walk, Way
<1> QED BY <1>2, <1>7, <1>8, <1>9, <1>10

(* The callers an answer lists are the nearest there are, each as near as it says, *)
(* at a line of that way, in whatever graph and at whatever depth and limit.     *)
THEOREM NearestThereAre ==
  ASSUME OneALine PROVE QSpec => []NearestCallers
<1>1. QInv => NearestCallers
  <2> SUFFICES ASSUME QInv, answer.given PROVE NearestCallers
    BY DEF NearestCallers
  <2> DEFINE own == q.sym.id
             given == {r.sym : r \in answer.callers}
  <2>1. q # NoQuestion /\ work = {} /\ answer.callers \in Firsts(Grouped, q.limit)
        /\ answer.truncated = Clipped(Grouped)
    BY DEF QInv, Answered
  <2>2. /\ built /\ GraphInv /\ q \in Question /\ Anchor(own) \subseteq walked
        /\ \A r \in walked : Way(r, q.sym, q.depth)
    BY <2>1 DEF QInv, Walk
  <2>3. q.depth \in Nat /\ q.limit \in Nat /\ q.sym \in symbols /\ own \in Known
    BY <2>2, KnownAre, CallersAssumption DEF CallersAssumption, Question
  <2>4. /\ answer.callers \subseteq Grouped
        /\ \A r \in answer.callers, out \in Grouped \ answer.callers : r.depth <= out.depth
    BY <2>1 DEF Firsts
  <2>5. ASSUME NEW r \in Grouped
        PROVE  \E w \in walked : /\ r.sym = w.sym /\ r.depth = w.depth /\ r.line = w.line
                                 /\ Way(w, q.sym, q.depth) /\ r.depth \in Nat /\ 1 <= r.depth
                                 /\ r.depth <= q.depth
    <3>1. PICK w \in walked : r.sym = w.sym /\ r.depth = w.depth /\ r.line = w.line
      BY <2>1, GroupedHas
    <3>2. w.depth \in 1 .. q.depth /\ Way(w, q.sym, q.depth)
      BY <2>2 DEF Way
    <3> QED BY <2>3, <3>1, <3>2
  <2>6. ASSUME NEW r \in answer.callers
        PROVE  /\ \A o \in answer.callers : o.sym = r.sym => o = r
               /\ Chain(r.sym, own, r.depth) /\ ~Near(r.sym, r.depth - 1)
               /\ \E s \in NamedSites :
                    /\ Caller(s) = r.sym /\ CallAt(s).line = r.line
                    /\ IF r.depth = 1 THEN CallAt(s).callee = own
                       ELSE /\ CallAt(s).callee \in Known
                            /\ Chain(CallAt(s).callee, own, r.depth - 1)
    <3>1. PICK w \in walked : /\ r.sym = w.sym /\ r.depth = w.depth /\ r.line = w.line
                              /\ Way(w, q.sym, q.depth) /\ r.depth \in Nat /\ 1 <= r.depth
                              /\ r.depth <= q.depth
      BY <2>4, <2>5
    <3>2. Chain(r.sym, own, r.depth)
      <4>1. w.path[w.depth + 1] = w.sym
        BY <3>1 DEF Way
      <4> QED BY <2>3, <3>1, <4>1, WayChain
    <3>3. ~Near(r.sym, r.depth - 1)
      <4>1. CASE r.sym = own
        <5>1. r.depth = 1
          BY <3>1, <4>1 DEF Way
        <5> QED BY <5>1 DEF Near
      <4>2. CASE r.sym # own
        <5> SUFFICES ASSUME Near(r.sym, r.depth - 1) PROVE FALSE
          OBVIOUS
        <5>1. r.depth - 1 \in Nat /\ r.depth - 1 <= q.depth
          BY <2>3, <3>1
        <5>2. PICK g \in Grouped : g.sym = r.sym /\ g.depth <= r.depth - 1
          BY <2>1, <4>2, <5>1, Reached
        <5>3. g = r
          BY <2>1, <2>4, <5>2, GroupedHas
        <5> QED BY <3>1, <5>2, <5>3
      <4> QED BY <4>1, <4>2
    <3>4. PICK t \in NamedSites : /\ Caller(t) = r.sym /\ CallAt(t).line = r.line
                                  /\ CallAt(t).callee = w.path[w.depth]
      BY <3>1 DEF Way
    <3>5. CASE r.depth = 1
      <4>1. w.path[w.depth] = own
        BY <3>1, <3>5 DEF Way
      <4> QED BY <2>1, <2>4, <3>2, <3>3, <3>4, <3>5, <4>1, GroupedHas
    <3>6. CASE r.depth # 1
      <4>1. w.depth - 1 \in 0 .. w.depth /\ (w.depth - 1) + 1 = w.depth
        BY <3>1
      <4>2. w.path[w.depth] \in Known /\ Chain(w.path[w.depth], own, w.depth - 1)
        BY <2>3, <3>1, <4>1, WayChain
      <4> QED BY <2>1, <2>4, <3>1, <3>2, <3>3, <3>4, <3>6, <4>2, GroupedHas
    <3> QED BY <3>5, <3>6
  <2>7. ASSUME NEW a \in Known \ ({own} \cup given)
        PROVE  /\ Cardinality(answer.callers) < q.limit => ~Near(a, q.depth)
               /\ \A r \in answer.callers : ~Near(a, r.depth - 1)
    <3>1. ASSUME Cardinality(answer.callers) < q.limit, Near(a, q.depth) PROVE FALSE
      <4>1. answer.callers = Grouped
        BY <2>1, <2>3, <3>1, GroupedFinite, FirstsAll
      <4>2. PICK g \in Grouped : g.sym = a
        BY <2>1, <2>3, <2>7, <3>1, Reached
      <4> QED BY <2>7, <4>1, <4>2
    <3>2. ASSUME NEW r \in answer.callers, Near(a, r.depth - 1) PROVE FALSE
      <4>1. r.depth \in Nat /\ 1 <= r.depth /\ r.depth <= q.depth
        BY <2>4, <2>5
      <4>2. r.depth - 1 \in Nat /\ r.depth - 1 <= q.depth
        BY <2>3, <4>1
      <4>3. PICK g \in Grouped : g.sym = a /\ g.depth <= r.depth - 1
        BY <2>1, <2>7, <3>2, <4>2, Reached
      <4>4. g \notin answer.callers
        BY <2>7, <4>3
      <4>5. r.depth <= g.depth /\ g.depth \in Nat
        BY <2>4, <2>5, <4>4
      <4> QED BY <4>1, <4>3, <4>5
    <3> QED BY <3>1, <3>2
  <2>8. own \in given => Calls(own, own)
    <3> SUFFICES ASSUME NEW r \in answer.callers, r.sym = own PROVE Calls(own, own)
      OBVIOUS
    <3>1. PICK w \in walked : r.sym = w.sym /\ Way(w, q.sym, q.depth)
      BY <2>4, <2>5
    <3>2. /\ w.depth = 1 /\ w.path[1] = own /\ w.path[w.depth + 1] = own
          /\ \A i \in 1 .. w.depth : Calls(w.path[i + 1], w.path[i])
      <4>1. w.sym = own
        BY <3>1
      <4> QED BY <3>1, <4>1 DEF Way
    <3>3. Calls(w.path[1 + 1], w.path[1])
      BY <3>2
    <3> QED BY <3>2, <3>3
  <2>9. ASSUME Calls(own, own), ~answer.truncated, q.who = "route" PROVE own \in given
    <3>1. PICK e \in Resolved : e.from = own /\ e.to = own
      BY <2>2, <2>3, <2>9, ResolvedAre
    <3> DEFINE row == [sym |-> e.from, depth |-> 1, path |-> <<e.to, e.from>>, line |-> e.line]
    <3>2. row \in Anchor(own) /\ row.sym = own
      BY <3>1 DEF Anchor
    <3> HIDE DEF row
    <3>3. PICK g \in Grouped : g.sym = own
      BY <2>1, <2>2, <3>2, GroupedHas
    <3>4. answer.callers = Grouped
      BY <2>1, <2>3, <2>9, GroupedFinite, FirstsAll DEF Clipped
    <3> QED BY <3>3, <3>4
  <2> HIDE DEF own, given
  <2>10. /\ \A r \in answer.callers :
              /\ \A o \in answer.callers : o.sym = r.sym => o = r
              /\ Chain(r.sym, own, r.depth) /\ ~Near(r.sym, r.depth - 1)
              /\ \E s \in NamedSites :
                   /\ Caller(s) = r.sym /\ CallAt(s).line = r.line
                   /\ IF r.depth = 1 THEN CallAt(s).callee = own
                      ELSE /\ CallAt(s).callee \in Known
                           /\ Chain(CallAt(s).callee, own, r.depth - 1)
         /\ \A a \in Known \ ({own} \cup given) :
              /\ Cardinality(answer.callers) < q.limit => ~Near(a, q.depth)
              /\ \A r \in answer.callers : ~Near(a, r.depth - 1)
    BY <2>6, <2>7
  <2> QED BY <2>8, <2>9, <2>10 DEF NearestCallers, own, given
<1>2. QInv /\ [QNext]_<<cvars, gvars, qvars>> => QInv'
  BY NextQ
<1> QED BY <1>1, <1>2, InitQ, PTL DEF QSpec
=============================================================================
