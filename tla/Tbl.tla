--------------------------------- MODULE Tbl ---------------------------------
(***************************************************************************)
(* typeset/tbl: the table language.  A format line is a sequence of        *)
(* tokens, a row a sequence of cells; a code is [fg, bg], each a colour or *)
(* Unset.  A text is [len, num, frac, paren]: its runes, whether it reads  *)
(* as a number, the runes of its fraction (the point included) and whether *)
(* it closes a parenthesis; a text that is no number is one word, which    *)
(* the breaker cuts at the width.  Results carry the error's kind in err,  *)
(* "" for none.                                                            *)
(***************************************************************************)
EXTENDS Integers, Sequences, SequencesExt, FiniteSets, FiniteSetsExt

Unset == "unset"
Default == "default"
NoCode == [fg |-> Unset, bg |-> Unset]
Gap == 1

Over(c, lower) == [fg |-> IF c.fg = Unset THEN lower.fg ELSE c.fg,
                   bg |-> IF c.bg = Unset THEN lower.bg ELSE c.bg]

Resolved(c) == Over(c, [fg |-> Default, bg |-> Default])

-----------------------------------------------------------------------------
(* Formats.Apply: toks against the last full format (<<>>: none yet).      *)

BadToken(toks, i) ==
    LET before(kinds) == \E j \in 1..(i - 1) : toks[j].t \in kinds
    IN  CASE toks[i].t = "code" -> i # 1
          [] toks[i].t = "narrow" -> before({"narrow", "col"}) \/ toks[i].n < 1
          [] toks[i].t = "col" -> toks[i].sized /\ ~toks[i].auto /\ toks[i].width < 1

ColsOf(toks) == SelectSeq(toks, LAMBDA t : t.t = "col")
RowCode(toks) == IF toks # <<>> /\ toks[1].t = "code" THEN toks[1].code ELSE NoCode
NarrowOf(toks) == Max({0} \cup {toks[i].n : i \in {j \in 1..Len(toks) : toks[j].t = "narrow"}})

BadSpan(cols, i) ==
    cols[i].align = "S" /\ (i = 1 \/ cols[i].code # NoCode \/ cols[i].clip)

IsFull(cols) == cols # <<>> /\ \A i \in 1..Len(cols) : cols[i].sized

ApplyErr(full, toks) ==
    LET cols == ColsOf(toks)
        some == \E i \in 1..Len(cols) : cols[i].sized
        all  == IsFull(cols)
    IN  IF \E i \in 1..Len(toks) : BadToken(toks, i) THEN "token"
        ELSE IF some /\ ~all THEN "mixed widths"
        ELSE IF \E i \in 1..Len(cols) : BadSpan(cols, i) THEN "span"
        ELSE IF all /\ Cardinality({i \in 1..Len(cols) : cols[i].auto}) > 1 THEN "auto"
        ELSE IF all THEN ""
        ELSE IF full = <<>> THEN "no full"
        ELSE IF NarrowOf(toks) # 0 THEN "narrow"
        ELSE IF cols # <<>> /\ Len(cols) # Len(full[1].cols) THEN "column count"
        ELSE ""

FullFormat(toks) ==
    LET cols == ColsOf(toks)
    IN  [row |-> RowCode(toks), narrow |-> NarrowOf(toks),
         cols |-> [i \in 1..Len(cols) |->
                     [width |-> IF cols[i].auto THEN 0 ELSE cols[i].width, auto |-> cols[i].auto,
                      align |-> cols[i].align, clip |-> cols[i].clip, code |-> cols[i].code]]]

RelativeFormat(full, toks) ==
    LET cols == ColsOf(toks)
    IN  [full EXCEPT
           !.row = Over(RowCode(toks), @),
           !.cols = IF cols = <<>> THEN @
                    ELSE [i \in 1..Len(full.cols) |->
                            [full.cols[i] EXCEPT !.align = cols[i].align, !.clip = cols[i].clip,
                                                 !.code = Over(cols[i].code, @)]]]

(* Mutation of Apply: a relative format is what later ones resolve         *)
(* against.                                                                *)
ApplyPiling(full, toks) ==
    LET err == ApplyErr(full, toks)
        fm  == IF IsFull(ColsOf(toks)) THEN FullFormat(toks) ELSE RelativeFormat(full[1], toks)
    IN  IF err # "" THEN [err |-> err, full |-> full]
        ELSE [err |-> "", full |-> <<fm>>, fm |-> fm, new |-> IsFull(ColsOf(toks))]

Apply(full, toks) ==
    LET err == ApplyErr(full, toks)
    IN  CASE err # "" -> [err |-> err, full |-> full]
          [] err = "" /\ IsFull(ColsOf(toks)) ->
               [err |-> "", full |-> <<FullFormat(toks)>>, fm |-> FullFormat(toks), new |-> TRUE]
          [] OTHER ->
               [err |-> "", full |-> full, fm |-> RelativeFormat(full[1], toks), new |-> FALSE]

-----------------------------------------------------------------------------
(* parseCell: a cell's marks, : and @, at most once each.                  *)
ParseCell(c) ==
    LET of(m) == SelectSeq(c.marks, LAMBDA x : x.m = m)
        err == IF Len(of(":")) > 1 \/ Len(of("@")) > 1 THEN "mark"
               ELSE IF \E i \in 1..Len(c.marks) : c.marks[i].m = "@" /\ c.marks[i].target = "" THEN "target"
               ELSE ""
    IN  [err |-> err, text |-> c.text,
         code |-> IF of(":") = <<>> THEN NoCode ELSE of(":")[1].code,
         target |-> IF of("@") = <<>> THEN "" ELSE of("@")[1].target]

ParseRow(r) == [r EXCEPT !.cells = [i \in 1..Len(r.cells) |-> ParseCell(r.cells[i])]]
RowErr(r) == IF \E i \in 1..Len(r.cells) : ParseCell(r.cells[i]).err # ""
             THEN ParseCell(r.cells[Min({i \in 1..Len(r.cells) : ParseCell(r.cells[i]).err # ""})]).err
             ELSE ""

(* groups: the columns that begin a group.                                 *)
Starts(fm) == {i \in 1..Len(fm.cols) : i = 1 \/ fm.cols[i].align # "S"}
Nth(S, n) == CHOOSE i \in S : Cardinality({j \in S : j <= i}) = n

(* Mutation of Boxes: the last cell ends with its group.                   *)
BoxesShort(fm, n) ==
    LET gs == Starts(fm)
    IN  [i \in 1..n |-> [first |-> Nth(gs, i),
                         last  |-> IF i = Cardinality(gs) THEN Len(fm.cols) ELSE Nth(gs, i + 1) - 1]]

(* Boxes of a row of n cells: the last runs to the last column.            *)
Boxes(fm, n) ==
    LET gs == Starts(fm)
    IN  [i \in 1..n |-> [first |-> Nth(gs, i),
                         last  |-> IF i = n \/ i = Cardinality(gs) THEN Len(fm.cols)
                                   ELSE Nth(gs, i + 1) - 1]]

SameGrid(a, b) ==
    /\ a.narrow = b.narrow /\ Len(a.cols) = Len(b.cols)
    /\ \A i \in 1..Len(a.cols) : a.cols[i].width = b.cols[i].width /\ a.cols[i].auto = b.cols[i].auto

(* Mutation of AddErr: a note row may come first.                          *)
AddErrNotes(entries, fm, r) ==
    IF entries # <<>> /\ ~SameGrid(entries[1].fm, fm) THEN "another grid"
    ELSE IF r.kind = "data" /\ r.cells = <<>> THEN "no cells"
    ELSE IF r.kind = "data" /\ Len(r.cells) > Cardinality(Starts(fm)) THEN "cells"
    ELSE ""

(* Table.Add: a row r under fm, after the entries of the table.            *)
AddErr(entries, fm, r) ==
    IF entries # <<>> /\ ~SameGrid(entries[1].fm, fm) THEN "another grid"
    ELSE IF r.kind = "data" /\ r.cells = <<>> THEN "no cells"
    ELSE IF r.kind = "data" /\ Len(r.cells) > Cardinality(Starts(fm)) THEN "cells"
    ELSE IF /\ r.kind = "data" /\ r.role = "note"
            /\ \A i \in 1..Len(entries) : entries[i].row.kind # "data" THEN "note"
    ELSE ""

-----------------------------------------------------------------------------
(* fit: the columns on the measure.                                        *)
Widths(fm, measure) ==
    LET width == IF fm.narrow > 0 /\ fm.narrow < measure THEN fm.narrow ELSE measure
        fixed == FoldSeq(LAMBDA c, w : c.width + w, (Len(fm.cols) - 1) * Gap, fm.cols)
        auto  == \E i \in 1..Len(fm.cols) : fm.cols[i].auto
    IN  [err |-> IF (auto /\ width - fixed < 1) \/ (~auto /\ fixed > width) THEN "fit" ELSE "",
         w   |-> [i \in 1..Len(fm.cols) |-> IF fm.cols[i].auto THEN width - fixed ELSE fm.cols[i].width]]

Spans(w) ==
    [i \in 1..Len(w) |->
       LET at == FoldSeq(LAMBDA x, y : x + Gap + y, 0, SubSeq(w, 1, i - 1))
       IN  [start |-> at, end |-> at + w[i]]]

(* The texts that measure N column i: single boxes of data and total rows. *)
Measured(entries, i) ==
    UNION {{e.row.cells[k].text :
              k \in {j \in 1..Len(e.row.cells) :
                       /\ e.row.kind = "data" /\ e.row.role \in {"none", "total"}
                       /\ Boxes(e.fm, Len(e.row.cells))[j] = [first |-> i, last |-> i]
                       /\ e.fm.cols[i].align = "N" /\ e.row.cells[j].text.num}} :
           e \in Range(entries)}

Metrics(entries) ==
    [i \in 1..Len(entries[1].fm.cols) |->
       [frac  |-> Max({0} \cup {t.frac : t \in Measured(entries, i)}),
        paren |-> IF \E t \in Measured(entries, i) : t.paren THEN 1 ELSE 0]]

(* A text in its box: lead blanks, len runes, the rest blank.              *)
Pad(len, w, align) ==
    [lead |-> CASE align = "R" -> w - len [] align = "C" -> (w - len) \div 2 [] OTHER -> 0,
     len |-> len]
Trunc(text, w) == Min({text.len, w})

(* Mutation of NumberIn: the slot of the parenthesis is not kept open.     *)
NumberInNoSlot(t, w, m) ==
    LET n == m.frac - t.frac
    IN  [lead |-> w - Min({t.len + Max({n, 0}), w}), len |-> Trunc(t, w)]

(* Grid.number: padded on the right until its point is in the column's.    *)
NumberIn(t, w, m) ==
    LET n == IF t.num THEN m.frac - t.frac + m.paren - (IF t.paren THEN 1 ELSE 0)
             ELSE m.frac + m.paren
        padded == Min({t.len + Max({n, 0}), w})
    IN  IF t.len = 0 THEN [lead |-> w, len |-> 0]
        ELSE [lead |-> w - padded, len |-> Trunc(t, w)]

(* The lines of one box of row r.                                          *)
Stack(fm, r, k, b, w, metrics) ==
    LET note == r.role = "note"
        col  == fm.cols[b.first]
        t    == r.cells[k].text
        cut  == Max({1, (t.len + w - 1) \div w})
    IN  CASE ~note /\ col.align = "N" /\ b.first = b.last -> <<NumberIn(t, w, metrics[b.first])>>
          [] ~note /\ col.align = "N" /\ b.first # b.last -> <<Pad(Trunc(t, w), w, "R")>>
          [] ~note /\ col.align # "N" /\ col.clip -> <<Pad(Trunc(t, w), w, col.align)>>
          [] note \/ (col.align # "N" /\ ~col.clip) ->
               [h \in 1..cut |-> Pad(IF h < cut THEN w ELSE t.len - (cut - 1) * w, w,
                                     IF note THEN "L" ELSE col.align)]

BoxWidth(spans, b) == spans[b.last].end - spans[b.first].start

NumberErr(fm, r, spans) ==
    LET bs == Boxes(fm, Len(r.cells))
    IN  \E k \in 1..Len(bs) : /\ r.role # "note" /\ fm.cols[bs[k].first].align = "N"
                              /\ r.cells[k].text.num /\ r.cells[k].text.len > BoxWidth(spans, bs[k])

LayRow(fm, r, spans, metrics) ==
    LET bs     == Boxes(fm, Len(r.cells))
        stacks == [k \in 1..Len(bs) |-> Stack(fm, r, k, bs[k], BoxWidth(spans, bs[k]), metrics)]
        height == Max({1} \cup {Len(stacks[k]) : k \in 1..Len(bs)})
    IN  [h \in 1..height |-> [k \in 1..Len(bs) |->
           [start |-> spans[bs[k].first].start, end |-> spans[bs[k].last].end,
            code |-> Resolved(Over(r.cells[k].code, Over(fm.row, fm.cols[bs[k].first].code))),
            target |-> r.cells[k].target,
            text |-> IF h <= Len(stacks[k]) THEN stacks[k][h] ELSE [lead |-> 0, len |-> 0]]]]

(* Table.Layout *)
Layout(entries, measure) ==
    LET fitted  == Widths(entries[1].fm, measure)
        spans   == Spans(fitted.w)
        metrics == Metrics(entries)
        wide    == \E e \in Range(entries) : e.row.kind = "data" /\ NumberErr(e.fm, e.row, spans)
    IN  IF entries = <<>> \/ fitted.err # "" \/ wide
        THEN [err |-> IF entries = <<>> THEN "no rows" ELSE IF fitted.err # "" THEN "fit" ELSE "number"]
        ELSE [err |-> "", spans |-> spans, metrics |-> metrics,
              rows |-> [i \in 1..Len(entries) |->
                          IF entries[i].row.kind = "data"
                          THEN LayRow(entries[i].fm, entries[i].row, spans, metrics) ELSE <<>>]]

-----------------------------------------------------------------------------
(* pica's table: one full format, without colours.                         *)
NewTableErr(toks) ==
    LET a == Apply(<<>>, toks)
    IN  CASE a.err = "no full" -> "relative"
          [] a.err \notin {"", "no full"} -> a.err
          [] a.err = "" -> IF a.fm.row # NoCode \/ \E i \in 1..Len(a.fm.cols) : a.fm.cols[i].code # NoCode
                           THEN "colour" ELSE ""

PicaErr(entries, fm, r) ==
    CASE r.kind # "data" -> "row"
      [] r.kind = "data" /\ r.role = "header" /\ entries # <<>> -> "header"
      [] /\ r.kind = "data" /\ ~(r.role = "header" /\ entries # <<>>)
         /\ \E i \in 1..Len(r.cells) : r.cells[i].code # NoCode \/ r.cells[i].target # "" -> "colour"
      [] OTHER -> AddErr(entries, fm, r)

(* The rows of a pica table, each with the notes under it; a note goes to  *)
(* the last row, or to the header while there is none.                     *)
Attach(entries) ==
    FoldLeft(LAMBDA tl, i :
        LET r == entries[i].row
            row == [entry |-> i, total |-> r.role = "total", notes |-> <<>>]
            n == Len(tl.rows)
        IN  CASE r.role = "note" /\ n > 0 -> [tl EXCEPT !.rows[n].notes = Append(@, i)]
              [] r.role = "note" /\ n = 0 -> [tl EXCEPT !.header[1].notes = Append(@, i)]
              [] r.role = "header" -> [tl EXCEPT !.header = <<row>>]
              [] r.role \in {"none", "total"} -> [tl EXCEPT !.rows = Append(@, row)],
        [header |-> <<>>, rows |-> <<>>], [i \in 1..Len(entries) |-> i])

(* A host reads a source line by line: a format or a row.  A line that is  *)
(* refused is reported and leaves the table as it was; a full format       *)
(* begins a new one, and rows before any format are refused.  In pica the  *)
(* format is the first line, and a table it refuses has no rows.           *)
Host(lines, pica) ==
    FoldLeft(LAMBDA s, ln :
        IF ln.is = "format"
        THEN LET a == Apply(s.full, ln.toks)
                 err == IF pica THEN NewTableErr(ln.toks) ELSE a.err
             IN  IF err # "" THEN [s EXCEPT !.errs = Append(@, err)]
                 ELSE [s EXCEPT !.full = a.full, !.fm = <<a.fm>>,
                                !.entries = IF a.new THEN <<>> ELSE @]
        ELSE LET r == ParseRow(ln.row)
                 err == IF s.fm = <<>> THEN "no format" ELSE IF RowErr(ln.row) # "" THEN RowErr(ln.row)
                        ELSE IF pica THEN PicaErr(s.entries, s.fm[1], r)
                        ELSE AddErr(s.entries, s.fm[1], r)
             IN  IF err # "" THEN [s EXCEPT !.errs = Append(@, err)]
                 ELSE [s EXCEPT !.entries = Append(@, [fm |-> s.fm[1], row |-> r])],
        [full |-> <<>>, fm |-> <<>>, entries |-> <<>>, errs |-> <<>>], lines)

-----------------------------------------------------------------------------
(* What is promised of a table.                                            *)

(* The format in force is the last accepted one, resolved against the last *)
(* full one and nothing between them, and every row is on its grid.        *)
Resolves(lines, host) ==
    LET toks(k) == lines[k].toks
        of(full) == {k \in 1..Len(lines) : lines[k].is = "format" /\ IsFull(ColsOf(toks(k))) = full}
        fulls == {k \in of(TRUE) : ApplyErr(<<>>, toks(k)) = ""}
        base  == FullFormat(toks(Max(fulls)))
        rels  == {k \in of(FALSE) : k > Max(fulls) /\ ApplyErr(<<base>>, toks(k)) = ""}
    IN  /\ host.fm = (IF fulls = {} THEN <<>> ELSE IF rels = {} THEN <<base>>
                       ELSE <<RelativeFormat(base, toks(Max(rels)))>>)
        /\ \A e \in Range(host.entries) : SameGrid(e.fm, base)
        /\ "another grid" \notin Range(host.errs)

(* A note of a pica table has a row, or the header, above it, and each row *)
(* but the header has the notes between it and the next row.               *)
NotesUnder(entries) ==
    LET tl == Attach(entries)
        all == tl.header \o tl.rows
        after(i) == {k \in 1..Len(entries) : k > i /\ \A j \in (i + 1)..k : entries[j].row.role = "note"}
    IN  /\ entries # <<>> => entries[1].row.role # "note"
        /\ \A i \in 1..Len(all) : Range(all[i].notes) = after(all[i].entry)

(* The boxes of a line are in order on the grid, a gap apart, from its     *)
(* first column to its last; the grid is within the measure; every text is *)
(* within its box.                                                         *)
Tiles(line, spans, measure) ==
    /\ spans[Len(spans)].end <= measure
    /\ line[Len(line)].end = spans[Len(spans)].end /\ line[1].start = 0
    /\ \A k \in 1..Len(line) :
          /\ line[k].start < line[k].end
          /\ k > 1 => line[k].start = line[k - 1].end + Gap
          /\ line[k].text.lead >= 0
          /\ line[k].text.lead + line[k].text.len <= line[k].end - line[k].start

(* The grid column of the point of every decimal point in N column i.      *)
SepIndex(spans, metrics, i) == spans[i].end - metrics[i].paren - metrics[i].frac

(* A number is shown whole, and its point, or its end where it has none,   *)
(* is in the column's, unless its whole part does not fit left of it.      *)
PointsAlign(entries, laid) ==
    \A e \in 1..Len(entries) : \A k \in 1..Len(entries[e].row.cells) :
        LET fm == entries[e].fm
            r  == entries[e].row
            b  == Boxes(fm, Len(r.cells))[k]
            t  == r.cells[k].text
            p  == laid.rows[e][1][k]
            whole == t.len - t.frac - (IF t.paren THEN 1 ELSE 0)
        IN  /\ r.kind = "data" /\ r.role \in {"none", "total"}
            /\ b.first = b.last /\ fm.cols[b.first].align = "N" /\ t.num
            => /\ p.text.len = t.len
               /\ \/ p.start + p.text.lead + whole = SepIndex(laid.spans, laid.metrics, b.first)
                  \/ p.start + whole > SepIndex(laid.spans, laid.metrics, b.first)
=============================================================================
