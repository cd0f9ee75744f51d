-------------------------------- MODULE Raster --------------------------------
(***************************************************************************)
(* typeset/raster: rows of Width columns.  A glyph is a number (Space, or  *)
(* one that shows), a colour a number (Default is 0), a target a sequence  *)
(* of bytes, <<>> for no link.  A segment is [start, end, text, fg, bg,    *)
(* target], a row [index, role, segs]; a page is the sequence of its rows. *)
(***************************************************************************)
EXTENDS Integers, Sequences, SequencesExt, FiniteSets, FiniteSetsExt

CONSTANTS Width, MaxRow, Colors, MaxTarget

Space == 0
Default == 0
CountKind == MaxRow + 1
Spaces(n) == [i \in 1..n |-> Space]

HasGlyph(text) == \E i \in 1..Len(text) : text[i] # Space
IsLink(s) == s.target # <<>>

Blank(index) ==
    [index |-> index, role |-> 0,
     segs |-> <<[start |-> 0, end |-> Width, text |-> Spaces(Width),
                 fg |-> Default, bg |-> Default, target |-> <<>>]>>]
IsBlank(r) == r = Blank(r.index)

-----------------------------------------------------------------------------
(* Row.Check: the one form of a row.                                       *)

(* Mutation of Meets: a change of foreground alone may begin on a space.   *)
MeetsAnywhere(a, b) ==
    CASE IsLink(a) /\ IsLink(b) -> a.target # b.target
      [] IsLink(a) # IsLink(b) \/ (~IsLink(a) /\ ~IsLink(b) /\ a.bg # b.bg) -> TRUE
      [] OTHER -> a.fg # b.fg /\ HasGlyph(a.text)

Meets(a, b) ==
    CASE IsLink(a) /\ IsLink(b) -> a.target # b.target
      [] IsLink(a) # IsLink(b) \/ (~IsLink(a) /\ ~IsLink(b) /\ a.bg # b.bg) -> TRUE
      [] OTHER -> a.fg # b.fg /\ HasGlyph(a.text) /\ b.text[1] # Space

(* A target of the link's length; its bytes are of a URI.                  *)
CheckTarget(t) == Len(t) <= MaxTarget
CheckColor(c) == c \in Colors
(* The columns of a text: one for each glyph.                              *)
CheckText(text) == Len(text)

CheckSeg(segs, i) ==
    LET s == segs[i]
    IN  /\ s.start = (IF i = 1 THEN 0 ELSE segs[i - 1].end)
        /\ s.start < s.end /\ s.end <= Width
        /\ CheckText(s.text) = s.end - s.start
        /\ CheckColor(s.fg) /\ CheckColor(s.bg) /\ CheckTarget(s.target)
        /\ HasGlyph(s.text) \/ s.fg = Default
        /\ i > 1 => Meets(segs[i - 1], s)

CheckRow(r) ==
    /\ r.index \in 0..MaxRow /\ r.segs # <<>>
    /\ \A i \in 1..Len(r.segs) : CheckSeg(r.segs, i)
    /\ r.segs[Len(r.segs)].end = Width

CheckRec(rec) == IF rec.is = "row" THEN CheckRow(rec.row) ELSE rec.count \in 0..(MaxRow + 1)

-----------------------------------------------------------------------------
(* Draft: a cell [g, fg, bg, target] for every column.                     *)

NewDraft(bg) == [c \in 1..Width |-> [g |-> Space, fg |-> Default, bg |-> bg, target |-> <<>>]]

(* Put: what runs past the row writes nothing.                             *)
Put(d, p) ==
    IF p.col < 0 \/ p.col + Len(p.text) > Width THEN d
    ELSE [c \in 1..Width |->
            IF c - p.col \in 1..Len(p.text)
            THEN [g |-> p.text[c - p.col], fg |-> p.fg, bg |-> p.bg, target |-> p.target]
            ELSE d[c]]

(* Mutation of SegFg: a segment has the foreground of its first cell.      *)
SegFgFirst(d, at, fg) == d[at + 1].fg

(* The foreground of a segment is the one its glyphs show.                 *)
SegFg(d, at, fg) == fg

(* The starts of a row's segments and their foregrounds: one where the     *)
(* background or the target changes, and in plain text one at each glyph   *)
(* that shows another foreground.  two: a link whose glyphs show two.      *)
Opened(d) ==
    FoldLeft(LAMBDA st, c :
        LET run == c > 1 /\ d[c].bg = d[c - 1].bg /\ d[c].target = d[c - 1].target
            cur == st.segs[Len(st.segs)]
            shows == d[c].g # Space
            Open(fg) == Append(st.segs, [start |-> c - 1, fg |-> fg])
        IN  CASE ~run ->
                   [st EXCEPT !.segs = Open(IF shows THEN d[c].fg ELSE Default), !.seen = shows]
              [] run /\ (~shows \/ (st.seen /\ d[c].fg = cur.fg)) -> st
              [] run /\ shows /\ ~st.seen ->
                   [st EXCEPT !.segs[Len(st.segs)].fg = d[c].fg, !.seen = TRUE]
              [] run /\ shows /\ st.seen /\ d[c].fg # cur.fg ->
                   IF d[c].target # <<>> THEN [st EXCEPT !.two = TRUE]
                   ELSE [st EXCEPT !.segs = Open(d[c].fg)],
        [segs |-> <<>>, seen |-> FALSE, two |-> FALSE], [c \in 1..Width |-> c])

(* Draft.Row, before its Check: <<>> for a link in two colours.            *)
DraftRow(d, index) ==
    LET o == Opened(d)
        end(i) == IF i < Len(o.segs) THEN o.segs[i + 1].start ELSE Width
    IN  IF o.two THEN <<>>
        ELSE <<[index |-> index, role |-> 0,
                segs |-> [i \in 1..Len(o.segs) |->
                   LET at == o.segs[i].start
                   IN  [start |-> at, end |-> end(i), fg |-> SegFg(d, at, o.segs[i].fg),
                        text |-> [k \in 1..(end(i) - at) |-> d[at + k].g],
                        bg |-> d[at + 1].bg, target |-> d[at + 1].target]]]>>

-----------------------------------------------------------------------------
(* Append and Decode: records as bytes.                                    *)

EncodeRec(rec) ==
    LET segs == rec.row.segs
    IN  IF rec.is = "count" THEN <<CountKind, rec.count>>
        ELSE <<rec.row.index, rec.row.role, Len(segs)>>
             \o FlattenSeq([i \in 1..Len(segs) |->
                  <<segs[i].end, segs[i].fg, segs[i].bg, Len(segs[i].target)>> \o segs[i].target])
             \o FlattenSeq([i \in 1..Len(segs) |-> segs[i].text])

Encode(recs) == FlattenSeq([i \in 1..Len(recs) |-> EncodeRec(recs[i])])

(* The segments of the k heads from byte at: how far they reach, or 0 when *)
(* the bytes end or a head does not go on from the one before.             *)
Heads(b, at, k) ==
    FoldLeft(LAMBDA st, i :
        IF st.at = 0 \/ st.at + 3 > Len(b) THEN [st EXCEPT !.at = 0]
        ELSE LET end == b[st.at]
                 n   == b[st.at + 3]
             IN  IF st.at + 3 + n > Len(b) \/ end <= st.col \/ end > Width THEN [st EXCEPT !.at = 0]
                 ELSE [at |-> st.at + 4 + n, col |-> end,
                       segs |-> Append(st.segs, [start |-> st.col, end |-> end, text |-> <<>>,
                                                 fg |-> b[st.at + 1], bg |-> b[st.at + 2],
                                                 target |-> SubSeq(b, st.at + 4, st.at + 3 + n)])],
        [at |-> at, col |-> 0, segs |-> <<>>], [i \in 1..k |-> i])

NoRecord == [rec |-> [is |-> "none"], next |-> 0]

(* decodeRecord: the record at byte off, and the byte after it.            *)
DecodeRec(b, off) ==
    LET h == IF off + 2 > Len(b) \/ b[off + 2] \notin 1..Width
             THEN [at |-> 0, col |-> 0, segs |-> <<>>]
             ELSE Heads(b, off + 3, b[off + 2])
        row == [index |-> b[off], role |-> b[off + 1],
                segs |-> [i \in 1..Len(h.segs) |->
                   [h.segs[i] EXCEPT !.text = [c \in 1..(h.segs[i].end - h.segs[i].start) |->
                                                  b[h.at + h.segs[i].start + c - 1]]]]]
    IN  CASE b[off] = CountKind /\ off + 1 > Len(b) -> NoRecord
          [] b[off] = CountKind /\ off + 1 <= Len(b) ->
               [rec |-> [is |-> "count", count |-> b[off + 1]], next |-> off + 2]
          [] b[off] # CountKind /\ (h.at = 0 \/ h.col # Width \/ h.at + Width - 1 > Len(b)) -> NoRecord
          [] OTHER -> IF CheckRow(row) THEN [rec |-> [is |-> "row", row |-> row], next |-> h.at + Width]
                      ELSE NoRecord

RECURSIVE DecodeFrom(_, _, _)
DecodeFrom(b, off, recs) ==
    LET d == DecodeRec(b, off)
    IN  CASE off > Len(b) -> [ok |-> TRUE, recs |-> recs]
          [] off <= Len(b) /\ d.next = 0 -> [ok |-> FALSE, recs |-> recs]
          [] OTHER -> DecodeFrom(b, d.next, Append(recs, d.rec))
Decode(b) == DecodeFrom(b, 1, <<>>)

-----------------------------------------------------------------------------
(* Page *)

Resize(p, h) == IF h <= Len(p) THEN SubSeq(p, 1, h)
                ELSE p \o [i \in 1..(h - Len(p)) |-> Blank(Len(p) + i - 1)]

ApplyRec(p, rec) ==
    IF rec.is = "count" THEN Resize(p, rec.count)
    ELSE [Resize(p, Max({Len(p), rec.row.index + 1})) EXCEPT ![rec.row.index + 1] = rec.row]

(* Apply: all the records, or none.                                        *)
Apply(p, recs) ==
    IF \E i \in 1..Len(recs) : ~CheckRec(recs[i]) THEN p ELSE FoldLeft(ApplyRec, p, recs)

(* Mutation of Records: the page is not emptied first.                     *)
RecordsOver(p) ==
    LET rows == SelectSeq(p, LAMBDA r : ~IsBlank(r))
    IN  Append([i \in 1..Len(rows) |-> [is |-> "row", row |-> rows[i]]],
               [is |-> "count", count |-> Len(p)])

Records(p) ==
    LET rows == SelectSeq(p, LAMBDA r : ~IsBlank(r))
    IN  <<[is |-> "count", count |-> 0]>>
        \o [i \in 1..Len(rows) |-> [is |-> "row", row |-> rows[i]]]
        \o <<[is |-> "count", count |-> Len(p)]>>

-----------------------------------------------------------------------------
(* What a row shows at each column: a space shows no foreground.           *)
Shown(d) == [c \in 1..Width |-> [g |-> d[c].g, bg |-> d[c].bg, target |-> d[c].target,
                                 fg |-> IF d[c].g = Space THEN Default ELSE d[c].fg]]

(* The draft that puts a row's segments.                                   *)
Painted(r) ==
    FoldLeft(LAMBDA d, s : Put(d, [col |-> s.start, text |-> s.text, fg |-> s.fg,
                                   bg |-> s.bg, target |-> s.target]),
             NewDraft(Default), r.segs)
===============================================================================
