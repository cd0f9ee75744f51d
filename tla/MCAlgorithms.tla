----------------------------- MODULE MCAlgorithms -----------------------------
(***************************************************************************)
(* Bounded inputs for Algorithms.  Every set is chosen so that each rule   *)
(* of its algorithm has an input on either side of it.                     *)
(***************************************************************************)
EXTENDS Algorithms

UpTo(n, set) == UNION {[1..k -> set] : k \in 0..n}

-----------------------------------------------------------------------------
(* Paragraphs: up to three words of up to four runes, with a hyphenation   *)
(* point or a dash after the second, on a grid of cells and in a           *)
(* proportional face, with and without a run-in on the first line; and     *)
(* four words without points, whose cheapest lines are not the fullest.    *)

Mono == [rune |-> 1, hyphen |-> 1, sp |-> 1]
Face == [rune |-> 2, hyphen |-> 2, sp |-> 3]
Words == {w \in [len : 1..4, pts : {{}, {2}}, dash : {{}, {2}}] :
             (\A p \in w.pts : p < w.len) /\ \A p \in w.dash : p <= w.len}
Measures == {<<3, 5>>, <<5, 5>>, <<5, 7>>}

MCParagraphs == {[m |-> m, justified |-> j, ws |-> ws, first |-> f[1], width |-> f[2]] :
                    m \in {Mono, Face}, j \in BOOLEAN, ws \in UpTo(2, Words), f \in Measures}
                \cup {[m |-> m, justified |-> j, ws |-> ws, first |-> 7, width |-> 7] :
                    m \in {Mono, Face}, j \in BOOLEAN, ws \in [1..3 -> {w \in Words : w.dash = {}}]}
                \cup {[m |-> mw[1], justified |-> j, ws |-> ws, first |-> mw[2], width |-> mw[2]] :
                    mw \in {<<Mono, 6>>, <<Face, 13>>}, j \in BOOLEAN,
                    ws \in [1..4 -> [len : {1, 2, 3, 5}, pts : {{}}, dash : {{}}]]}

(* A run-in of the first line, and a word longer than either measure.      *)
StuckParagraphs == {[m |-> Mono, justified |-> FALSE, ws |-> ws, first |-> f, width |-> 6] :
                       ws \in UpTo(2, [len : {2, 8}, pts : {{}}, dash : {{}}]), f \in 2..6}

-----------------------------------------------------------------------------
(* Documents: every kind of block, in three on narrow pages, and in four   *)
(* of the kinds that break on pages of three columns.                      *)

Headings == [kind : {"heading"}, lines : {1}, level : {1, 2}, tight : {FALSE}]
Texted(lines) == [kind : {"para"}, lines : lines, extra : {FALSE}, tight : {FALSE}]
Listed == [kind : {"item"}, lines : {1, 2}, extra : {FALSE}, tight : BOOLEAN]
Tabled(headers, sizes) ==
    {[kind |-> "table", header |-> h, hnotes |-> 0, tight |-> FALSE,
      rows |-> [i \in 1..n |-> [lines |-> 1, notes |-> IF i = 2 THEN q ELSE 0, total |-> i = n]]] :
        h \in headers, n \in sizes, q \in {1, 2}}
Pres(lines, repeats) == [kind : {"pre"}, lines : lines, repeat : repeats, tight : {FALSE}]
Small == {[kind |-> "rule", tight |-> FALSE], [kind |-> "link", titled |-> TRUE, tight |-> TRUE]}

AnyBlock == Headings \cup Texted({1, 3, 5, 9}) \cup Listed \cup Tabled({0, 1}, {2, 4})
            \cup Pres({3, 8}, {0, 1}) \cup Small
LongBlock == {h \in Headings : h.level = 2} \cup Texted({2, 3, 5}) \cup Tabled({1}, {4}) \cup Pres({4}, {0})

MCDocuments ==
    [doc : UpTo(3, AnyBlock), cap : {[ncols |-> 1, first |-> 6, rest |-> 7], [ncols |-> 2, first |-> 8, rest |-> 8]}]
    \cup [doc : [1..4 -> LongBlock], cap : {[ncols |-> 3, first |-> 11, rest |-> 8], [ncols |-> 2, first |-> 16, rest |-> 8]}]

-----------------------------------------------------------------------------
(* Tables: a format and up to two rows, or three formats and a row.        *)

Col(align, w) == [t |-> "col", sized |-> TRUE, auto |-> w = 0, width |-> w, align |-> align,
                  code |-> T!NoCode, clip |-> FALSE]
Rel(align) == [Col(align, 0) EXCEPT !.sized = FALSE, !.auto = FALSE]
Red == [fg |-> "r", bg |-> T!Unset]
OnBlue == [fg |-> T!Unset, bg |-> "b"]
Formats == {<<Col("L", 0), Col("N", 4)>>, <<Col("L", 0), Col("N", 0)>>, <<[t |-> "narrow", n |-> 6], Col("N", 5)>>,
            <<[t |-> "code", code |-> Red], Col("L", 2), Col("S", 2), Col("N", 4)>>,
            <<Rel("N"), Rel("L")>>, <<Rel("N"), Rel("S")>>, <<Rel("S"), Rel("L")>>,
            <<[t |-> "code", code |-> OnBlue]>>, <<Rel("L"), Col("L", 2)>>,
            <<[Rel("L") EXCEPT !.code = Red], [Rel("N") EXCEPT !.clip = TRUE]>>}
Plain(n) == [len |-> n, num |-> FALSE, frac |-> 0, paren |-> FALSE]
Number(n, frac, paren) == [len |-> n, num |-> TRUE, frac |-> frac, paren |-> paren]
Unmarked(text) == [marks |-> <<>>, text |-> text]
Celled == {<<Unmarked(t)>> : t \in {Plain(5), Number(3, 0, TRUE)}}
          \cup {<<Unmarked(Plain(3)), Unmarked(t)>> :
                   t \in {Plain(0), Plain(5), Number(3, 2, FALSE), Number(2, 0, FALSE), Number(3, 0, TRUE), Number(4, 0, FALSE)}}
          \cup {[i \in 1..3 |-> Unmarked(Plain(1))]}
TableRows == [kind : {"data"}, role : {"none", "header", "total", "note"}, cells : Celled]
             \cup {[kind |-> "rule", role |-> "none", cells |-> <<>>],
                   [kind |-> "data", role |-> "none",
                    cells |-> <<[marks |-> <<[m |-> ":", code |-> OnBlue], [m |-> "@", target |-> "x"]>>, text |-> Plain(2)]>>]}
FormatLines == [is : {"format"}, toks : Formats]
RowLines == [is : {"row"}, row : TableRows]

MCTables ==
    [lines : {<<f>> \o r : f \in FormatLines, r \in UpTo(2, RowLines)}, pica : BOOLEAN, measure : {8}]
    \cup [lines : {<<f, g, h, [is |-> "row", row |-> r]>> : f, g, h \in FormatLines,
                      r \in {x \in TableRows : x.role = "none" /\ Len(x.cells) = 2}},
          pica : {FALSE}, measure : {8}]

-----------------------------------------------------------------------------
(* Rasters of three columns, two glyphs, two colours and two targets.      *)

MCDrafts == [1..RasterWidth -> [g : {0, 1}, fg : {0, 1}, bg : {0, 1}, target : {<<>>, <<5>>, <<6>>}]]

Segments == {s \in [start : 0..(RasterWidth - 1), end : 1..RasterWidth, text : UpTo(RasterWidth, {0, 1}),
                    fg : {0, 1}, bg : {0, 1}, target : {<<>>, <<5>>}] :
                s.end > s.start /\ s.end - s.start = Len(s.text)}
RECURSIVE Cover(_)
Cover(at) == IF at = RasterWidth THEN {<<>>}
             ELSE UNION {{<<s>> \o r : r \in Cover(s.end)} : s \in {x \in Segments : x.start = at}}
MCRows == [index : {0}, role : {0}, segs : Cover(0)]

Filled(i) == [index |-> i, role |-> 1, segs |-> <<[start |-> 0, end |-> 3, text |-> <<0, 0, 0>>, fg |-> 0, bg |-> 1, target |-> <<>>]>>]
Linked(i) == [index |-> i, role |-> 0,
              segs |-> <<[start |-> 0, end |-> 1, text |-> <<1>>, fg |-> 1, bg |-> 0, target |-> <<5>>],
                         [start |-> 1, end |-> 3, text |-> <<0, 1>>, fg |-> 0, bg |-> 0, target |-> <<>>]>>]
OnePage(kinds) == [i \in 1..Len(kinds) |-> CASE kinds[i] = "blank" -> A!Blank(i - 1)
                                             [] kinds[i] = "filled" -> Filled(i - 1)
                                             [] OTHER -> Linked(i - 1)]
AllPages == {OnePage(k) : k \in UpTo(3, {"blank", "filled", "linked"})}
MCPages == [page : AllPages, over : AllPages]

-----------------------------------------------------------------------------
(* Bytes to compress: runs, repeats at both distances, and a base of up to *)
(* five.                                                                   *)

MCSources == [base : UpTo(3, {1, 2}), src : UpTo(6, {1, 2})] \cup [base : UpTo(1, {1, 2}), src : [1..7 -> {1, 2}]]
             \cup [base : [1..5 -> {1, 2}], src : UpTo(5, {1, 2})]

-----------------------------------------------------------------------------
(* Rows: every kind at both ends of its range, strings that compress and   *)
(* that do not, lists of up to three, all bytes up to three, and streams   *)
(* with one byte changed.                                                  *)

Strings == UpTo(3, {1, 2, ByteLimit - 1}) \cup {[i \in 1..n |-> 1] : n \in 4..9}
           \cup {<<1, 2, 1, 2, 1, 2, 1, 2>>, [i \in 1..8 |-> ByteLimit - 1], <<1, 1, 1, 1, 2, 1, 1, 1, 1>>}
Numbers == (-22)..22
Scalars == {[k |-> k] : k \in {"none", "false", "true"}} \cup [k : {"string", "bytes"}, s : Strings]
           \cup [k : {"int", "date", "datetime", "duration"}, n : Numbers] \cup [k : {"time"}, n : 0..22]
           \cup [k : {"decimal"}, n : Numbers, scale : 0..2] \cup [k : {"float"}, s : {<<0>>, <<7>>, <<15>>}]
Few == {[k |-> "none"], [k |-> "string", s |-> <<1>>], [k |-> "string", s |-> [i \in 1..8 |-> 1]],
        [k |-> "string", s |-> <<ByteLimit - 1>>], [k |-> "int", n |-> 20], [k |-> "list", list |-> <<>>]}
MCValueRows == LET any == Scalars \cup [k : {"list"}, list : UpTo(3, Few)]
           IN  {<<v>> : v \in any} \cup {<<v, w>> : v \in any, w \in Few}

Changed == UNION {{[Packed(x) EXCEPT ![i] = b] : i \in 1..Len(Packed(x)), b \in 0..(ByteLimit - 1)} :
                     x \in {[i \in 1..6 |-> 1], [i \in 1..7 |-> 1], <<1, 2, 1, 2, 1, 2, 1>>}}
MCEncodings == UpTo(3, 0..(ByteLimit - 1)) \cup {<<2, u, Len(m)>> \o m : u \in {5, 6, 7}, m \in Changed}

-----------------------------------------------------------------------------
(* Days around the ends of the range, of an era, of a century and of a     *)
(* leap year; with two digits after the second instead of three.           *)

MCDays == {d \in UNION {(c - 400)..(c + 400) : c \in {-718762, -141427, -135140, 0, 10957, 47482, 2932096, 2932496}} :
              d \in (-719162)..2932895}

MCValues ==
    [k : {"date"}, n : {-719162, -1, 0, 59, 60, 11016, 2932896}]
    \cup [k : {"datetime"}, n : (-120)..120] \cup [k : {"datetime"}, n : {C!DayLen * d + e : d \in (-100)..100, e \in {-1, 0}}]
    \cup [k : {"time"}, n : {0, 1, 99, 100, 101, 5999, 6000, 359999, 360000, C!DayLen - 1}]
    \cup [k : {"duration"}, n : {s * d : s \in {1, -1}, d \in (0..300) \cup (5990..6010) \cup (359990..360010) \cup (999990..1000000)}]
    \cup [k : {"decimal"}, n : ((-120)..120) \cup {1000000, -1000000}, scale : 0..2]

Two == UpTo(2, {0, 1, 5})
Clocks == [h : {0, 23, 24}, mi : {0, 59, 60}, s : {0, 59, 60}, ms : {0, 1, 99}]
MCTexts ==
    [shape : {"duration"}, neg : BOOLEAN, h : {<<>>, <<0>>, <<1>>, <<0, 1>>, <<2>>, <<2, 7>>, <<3>>},
     m : {<<>>, <<0>>, <<5>>, <<0, 5>>, <<4, 6>>, <<6, 0>>}, s : Two \cup {<<4, 0>>, <<6, 0>>}, frac : Two]
    \cup [shape : {"decimal"}, neg : BOOLEAN, whole : (Two \ {<<>>}) \cup {<<1, 0, 0, 0, 0, 0>>, <<1, 0, 0, 0, 0, 0, 1>>},
          frac : UpTo(3, {0, 1, 5})]
    \cup [shape : {"date"}, date : [y : {0, 1, 1900, 2000, 2023, 2024, 9999}, m : 0..13, d : 0..32]]
    \cup [shape : {"time"}, clock : Clocks]
    \cup [shape : {"datetime"}, date : [y : {1970}, m : 0..2, d : {0, 1, 29, 31}], clock : Clocks]

-----------------------------------------------------------------------------
(* Fact files of up to three lines: fields, namespaces and instances that  *)
(* meet in one another's way, references forward and backward, and one     *)
(* line of each kind that is refused.                                      *)

Named(n) == [kind |-> n, id |-> NoId]
Marker(k, i) == [kind |-> k, id |-> i]
Keys == {<<Named("a")>>, <<Named("a"), Named("b")>>, <<Named("d")>>, <<Named("d"), Named("e")>>,
         <<Named("d"), Named("e"), Named("x")>>, <<Named("a"), Named("d"), Named("e"), Named("y")>>,
         <<Marker("d", "e")>>, <<Marker("d", "e"), Named("x")>>, <<Marker("d", "e"), Named("y")>>,
         <<Marker("d", "e"), Named("x"), Named("z")>>, <<Marker("d", "f"), Named("x")>>,
         <<Named("a"), Marker("d", "e"), Named("x")>>, <<Marker("a", "d"), Named("e"), Named("y")>>}
Typed(base, wraps) == [base |-> base, wraps |-> wraps, syms |-> <<"p">>, ref |-> "d"]
One(base, spell) == [is |-> "one", toks |-> <<[base |-> base, spell |-> spell]>>]
Ref(i) == [base |-> "ref", spell |-> Marker("d", i)]
Line(key, type, val) == [is |-> "fact", key |-> key, type |-> type, val |-> val]
Ints == {Line(k, Typed("int", <<>>), One("int", "1")) : k \in Keys}
Refs == {Line(k, Typed("ref", <<"opt">>), One("ref", Marker("d", "e"))) : k \in Keys}
        \cup {Line(k, Typed("ref", <<"list">>), [is |-> "list", toks |-> <<Ref("e"), Ref("f")>>]) : k \in Keys}
Refused ==
    {[is |-> "blank"], [is |-> "unlexed"],
     Line(<<Named(BadName)>>, Typed("int", <<>>), One("int", "1")),
     Line(<<Marker("d", "e"), Marker("d", "f")>>, Typed("int", <<>>), One("int", "1")),
     Line(<<Named("a")>>, Typed("int", <<"opt", "list">>), One("int", "1")),
     Line(<<Named("a")>>, Typed("int", <<"list">>), [is |-> "none", toks |-> <<>>]),
     Line(<<Named("a")>>, Typed("int", <<>>), One("int", Big)),
     Line(<<Named("a")>>, Typed("int", <<>>), One("int", "-0")),
     Line(<<Named("a")>>, Typed("ref", <<>>), One("ref", Marker("a", "d")))}

MCFactSources == UpTo(2, Ints \cup Refs) \cup [1..3 -> Ints] \cup {<<f, g, h>> : f \in Refs, g, h \in Ints}
                 \cup {<<b, f>> : b \in Refused, f \in Ints \cup Refs}
===============================================================================
