------------------------------ MODULE MCContent ------------------------------
(* Checkouts and settings small enough for TLC: see README, "Bounds".          *)
EXTENDS Callers

MCPaths == {"a.go", "b.go", "c.md"}
MCLines == {"blank", "prose", "x", "y"}
MCModels == {"ours", "theirs"}

Setting(strategy, lines, overlap, maxDecl, strip) ==
    [strategy |-> strategy, lines |-> lines, overlap |-> overlap, maxDecl |-> maxDecl,
     strip |-> strip]

File(path, lang, parses, lines, decls, calls) ==
    [path |-> path, kind |-> "regular", lang |-> lang, parses |-> parses, lines |-> lines,
     decls |-> decls, calls |-> calls]

Job(opt_, entries_) == [opt |-> opt_, entries |-> entries_]

(* Any text of up to six lines, under every window and overlap of up to four.  *)
Texts == UNION {[1 .. n -> {"blank", "x"}] : n \in 1 .. 5} \cup {[l \in 1 .. 7 |-> "x"]}
Tilings ==
    {Job(Setting("window", w[1], w[2], 9, FALSE), <<File("c.md", "other", TRUE, t, <<>>, <<>>)>>) :
       t \in Texts, w \in {v \in (1 .. 4) \X (0 .. 3) : v[2] < v[1]}}

(* A Go file of two declarations, under documentation and directives.          *)
Repeat(line, n) == [i \in 1 .. n |-> line]
TwoDecls(doc1, len1, doc2, dir, len2, parses) ==
    LET head == doc1 + len1
        at == head + doc2 + dir + 1
    IN  File("a.go", "go", parses,
             Repeat("prose", doc1) \o Repeat("x", len1) \o Repeat("prose", doc2)
               \o Repeat("y", dir) \o <<"y">> \o Repeat("prose", 1) \o Repeat("x", len2),
             IF ~parses THEN <<>> ELSE
             <<[from |-> 1, bare |-> doc1 + 1, at |-> doc1 + 1, to |-> head, name |-> <<"f">>],
               [from |-> head + 1, bare |-> head + doc2 + 1, at |-> at, to |-> at + 1 + len2,
                name |-> <<"g">>]>>, <<>>)
Cuttings ==
    {Job(Setting(s, w[1], w[2], m, strip), <<TwoDecls(d1, l1, d2, dir, l2, p)>>) :
       s \in {"ast", "window"}, w \in {<<2, 0>>, <<2, 1>>, <<3, 1>>}, m \in {2, 4},
       strip \in BOOLEAN, d1 \in {0, 1}, l1 \in {1, 2}, d2 \in 0 .. 3, dir \in {0, 1},
       l2 \in {0, 1}, p \in BOOLEAN}

(* What a walk may meet besides, two declarations on a line among it.          *)
Odd(kind, lang) ==
    [path |-> "b.go", kind |-> kind, lang |-> lang, parses |-> FALSE, lines |-> <<"y">>,
     decls |-> <<>>, calls |-> <<>>]
Shared ==
    File("a.go", "go", TRUE, <<"x", "y">>,
         <<[from |-> 1, bare |-> 1, at |-> 1, to |-> 1, name |-> <<"f">>],
           [from |-> 1, bare |-> 1, at |-> 1, to |-> 2, name |-> <<"g">>]>>, <<>>)
Oddities ==
    {Job(Setting(s, 2, 1, 1, strip), e) :
       s \in {"ast", "window"}, strip \in BOOLEAN,
       e \in {<<Shared, o>> : o \in {Odd("link", "go"), Odd("big", "go"), Odd("regular", "none")}}
             \cup {<<Shared, File("c.md", "other", TRUE, <<"x", "blank", "y">>, <<>>, <<>>),
                     Odd("regular", "go")>>}}

(* Calls between two files: a method and a function of one name, a call of     *)
(* itself, a cycle, and two ways of different length from one caller.           *)
Site(in, line, name, callee) == [in |-> in, line |-> line, name |-> name, callee |-> callee]
Decl1(from, at, to, name) == [from |-> from, bare |-> at, at |-> at, to |-> to, name |-> name]
InA == <<Site(1, 2, "Get", <<"a.go", 2>>),       \* Serve calls Store.Get,
         Site(2, 4, "Serve", <<"a.go", 1>>),     \* which calls Serve
         Site(2, 4, "Get", <<"a.go", 2>>)>>      \* and itself
InB == <<Site(1, 1, "Serve", <<"a.go", 1>>),     \* load calls Serve
         Site(1, 2, "Get", <<"a.go", 2>>),       \* and Store.Get
         Site(2, 3, "load", <<"b.go", 1>>),      \* Cache.Get calls load
         Site(2, 3, "Get", Elsewhere)>>          \* and some other Get
Some(calls) == {SelectSeq(calls, LAMBDA c : c \in s) : s \in SUBSET {calls[k] : k \in DOMAIN calls}}
Graphs ==
    {Job(Setting("ast", 2, 1, 4, FALSE),
         <<File("a.go", "go", TRUE, <<"x", "x", "prose", "y">>,
                <<Decl1(1, 1, 2, <<"Serve">>), Decl1(3, 4, 4, <<"Store", "Get">>)>>, a),
           File("b.go", "go", TRUE, <<"x", "x", "y">>,
                <<Decl1(1, 1, 2, <<"load">>), Decl1(3, 3, 3, <<"Cache", "Get">>)>>, b)>>) :
       a \in Some(InA), b \in Some(InB)}

MCJobs == Tilings \cup Cuttings \cup Oddities \cup Graphs

(* Rows of a text by its first line: of our model, of another, of both, and    *)
(* with a vector of the wrong width before or behind a good one.               *)
Row1(model, fits) == [model |-> model, fits |-> fits]
Of(xs, ys) == [l \in MCLines |-> IF l = "x" THEN xs ELSE IF l = "y" THEN ys ELSE <<>>]
MCCorpora ==
    {Of(<<Row1("ours", TRUE)>>, <<Row1("theirs", TRUE)>>),
     Of(<<>>, <<Row1("theirs", TRUE), Row1("ours", TRUE), Row1("ours", FALSE)>>),
     Of(<<Row1("ours", FALSE), Row1("ours", TRUE)>>, <<Row1("ours", TRUE)>>)}
=============================================================================
