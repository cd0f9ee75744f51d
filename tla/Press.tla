-------------------------------- MODULE Press --------------------------------
(***************************************************************************)
(* pica/press: a document's blocks composed into flow blocks and           *)
(* distributed over columns.  A block carries what its text sets to (how   *)
(* many lines); a segment is [h, b, k]: the height in half-lines of the    *)
(* k-th part of block b that is never split.  b = 0 is white space.        *)
(***************************************************************************)
EXTENDS Integers, Sequences, SequencesExt, FiniteSets, FiniteSetsExt

MinKeep == 2

(* roleUnits *)
Half == 1
BodyLine == 2
HeadingLine == 3
DisplayLine == 4

Height(segs) == FoldSeq(LAMBDA s, h : s.h + h, 0, segs)

-----------------------------------------------------------------------------
(* compose *)

Rep(n, h) == [k \in 1..n |-> h]

(* A prose block, one segment a line: a term's label on its own line is    *)
(* the head, a quote's attribution the tail.                               *)
Prose(blk) == Rep(blk.lines + (IF blk.extra THEN 1 ELSE 0), BodyLine)

(* Every plain row carries the blank half of a note when no note wraps.    *)
EvenPitch(rows) ==
    /\ \E i \in 1..Len(rows) : rows[i].notes > 0
    /\ \A i \in 1..Len(rows) : rows[i].notes <= 1

TableHeights(blk) ==
    (IF blk.header = 0 THEN <<>> ELSE <<BodyLine * (blk.header + 1) + Half * blk.hnotes>>)
    \o [i \in 1..Len(blk.rows) |->
          LET r == blk.rows[i]
          IN  BodyLine * (r.lines + (IF r.total THEN 1 ELSE 0)) + Half * r.notes
              + (IF EvenPitch(blk.rows) /\ r.notes = 0 /\ ~r.total THEN Half ELSE 0)]

PreHeights(blk) ==
    IF blk.repeat > 0 /\ blk.repeat < blk.lines
    THEN <<BodyLine * blk.repeat>> \o Rep(blk.lines - blk.repeat, BodyLine)
    ELSE <<BodyLine * blk.lines>>

Heights(blk) ==
    CASE blk.kind \in {"para", "quote", "item", "term"} -> Prose(blk)
      [] blk.kind = "heading" ->
           Rep(blk.lines, IF blk.level = 2 THEN HeadingLine ELSE DisplayLine)
      [] blk.kind = "rule" -> <<BodyLine>>
      [] blk.kind = "link" -> <<BodyLine * (IF blk.titled THEN 2 ELSE 1)>>
      [] blk.kind = "table" -> TableHeights(blk)
      [] blk.kind = "pre" -> PreHeights(blk)

(* The blocks of the tight run of items, or of terms, that block b is in.  *)
RunOf(doc, b) ==
    LET linked(i) == doc[i].tight /\ doc[i].kind = doc[i - 1].kind /\ doc[i].kind \in {"item", "term"}
    IN  {i \in 1..Len(doc) : \A j \in (Min({i, b}) + 1)..Max({i, b}) : linked(j)}

(* composeItems: where an item of the run turns over, a half-line follows  *)
(* every item but the last, in the item's last segment.                    *)
Air(doc, b) ==
    LET run == RunOf(doc, b)
    IN  IF /\ doc[b].kind \in {"item", "term"} /\ b # Max(run)
           /\ \E i \in run : Len(Heights(doc[i])) > 1
        THEN Half ELSE 0

Fblock(doc, b) ==
    LET blk  == doc[b]
        hs   == Heights(blk)
        lead == \/ blk.kind = "table" /\ blk.header > 0
                \/ blk.kind = "pre" /\ blk.repeat > 0 /\ blk.repeat < blk.lines
    IN  [segs |-> [k \in 1..Len(hs) |-> [h |-> hs[k] + (IF k = Len(hs) THEN Air(doc, b) ELSE 0),
                                        b |-> b, k |-> k]],
         repeat |-> IF lead THEN 1 ELSE 0, tight |-> blk.tight,
         keepNext |-> blk.kind = "heading",
         atomic |-> blk.kind \in {"heading", "rule", "link"} \/ (blk.kind = "pre" /\ ~lead)]

Compose(doc) ==
    SelectSeq([b \in 1..Len(doc) |-> Fblock(doc, b)], LAMBDA f : f.segs # <<>>)

-----------------------------------------------------------------------------
(* flow *)

Blank == [h |-> BodyLine, b |-> 0, k |-> 0]
Snap == [h |-> Half, b |-> 0, k |-> 1]

(* place: a block begins on a whole body line, after a blank one.          *)
Place(cur, b, upto) ==
    LET snapped == IF Height(cur) % 2 # 0 THEN Append(cur, Snap) ELSE cur
        spaced == IF snapped # <<>> /\ ~b.tight THEN Append(snapped, Blank) ELSE snapped
    IN  spaced \o SubSeq(b.segs, 1, upto)

FitSegs(b, avail) ==
    Max({k \in 0..Len(b.segs) : Height(SubSeq(b.segs, 1, k)) <= Max({avail, 0})})

(* Mutation of SplitSegs: one segment may be left over.                    *)
SplitSegsLast(b, avail) ==
    LET k == Min({FitSegs(b, avail), Len(b.segs) - 1})
    IN  IF b.atomic \/ k < b.repeat + MinKeep THEN 0 ELSE k

SplitSegs(b, avail) ==
    LET k == Min({FitSegs(b, avail), Len(b.segs) - MinKeep})
    IN  IF b.atomic \/ k < b.repeat + MinKeep THEN 0 ELSE k

ForceSplit(b, avail) ==
    IF b.atomic \/ Len(b.segs) = 1 THEN Len(b.segs)
    ELSE Min({Max({FitSegs(b, avail), b.repeat + 1}), Len(b.segs)})

(* Mutation of Rest: the lead-in is not set again.                         *)
RestBare(b, k) ==
    [b EXCEPT !.segs = SubSeq(b.segs, k + 1, Len(b.segs)), !.repeat = 0,
              !.tight = FALSE, !.keepNext = FALSE, !.atomic = FALSE]

(* rest: what is left of b after k segments, under its lead-in again.      *)
Rest(b, k) ==
    [segs |-> IF k >= Len(b.segs) THEN <<>>
              ELSE SubSeq(b.segs, 1, b.repeat) \o SubSeq(b.segs, k + 1, Len(b.segs)),
     repeat |-> b.repeat, tight |-> FALSE, keepNext |-> FALSE, atomic |-> FALSE]

(* Mutation of Need: a heading needs its own room.                         *)
NeedAlone(blocks, i) == Height(blocks[i].segs)

(* What a heading needs: the run of headings it opens and the first        *)
(* segments of the block after them.                                       *)
Need(blocks, i) ==
    LET j == Min({k \in (i + 1)..(Len(blocks) + 1) : k > Len(blocks) \/ ~blocks[k].keepNext})
        run == [k \in 1..(j - i) |-> Height(blocks[i + k - 1].segs) + (IF k > 1 THEN BodyLine ELSE 0)]
    IN  FoldSeq(LAMBDA x, y : x + y, 0, run)
        + (IF j > Len(blocks) THEN 0
           ELSE BodyLine + Height(SubSeq(blocks[j].segs, 1, Min({MinKeep, Len(blocks[j].segs)}))))

(* The lines of column col (from 0) of a page set: the first page's        *)
(* columns are shorter.                                                    *)
Capacity(c, col) == IF col < c.ncols THEN c.first ELSE c.rest

(* Mutation of Avail: the half-line a block is snapped by is not counted.  *)
AvailUnsnapped(cur, b, colCap) ==
    colCap - Height(cur) - (IF cur # <<>> /\ ~b.tight THEN BodyLine ELSE 0)

Avail(cur, b, colCap) ==
    colCap - Height(cur) - (Height(cur) % 2) - (IF cur # <<>> /\ ~b.tight THEN BodyLine ELSE 0)

(* A heading over a block needs the room of both, or a column of its own.  *)
HeadingFits(blocks, i, b, cur, avail) ==
    ~(b.keepNext /\ i < Len(blocks) /\ cur # <<>>) \/ avail >= Need(blocks, i)

(* The loop of flow: b, the rest of block i, goes into the column cur.     *)
RECURSIVE Run(_, _, _, _, _, _)
Run(blocks, c, i, b, cols, cur) ==
    LET avail == Avail(cur, b, 2 * Capacity(c, Len(cols)))
        held  == ~HeadingFits(blocks, i, b, cur, avail)
        fits  == Height(b.segs) <= avail
        split == SplitSegs(b, avail)
        k     == IF split > 0 THEN split ELSE ForceSplit(b, avail)
        close == Append(cols, cur)
        full  == Append(cols, Place(cur, b, k))
        Done(cs, cu) == IF i = Len(blocks) THEN (IF cu # <<>> \/ cs = <<>> THEN Append(cs, cu) ELSE cs)
                        ELSE Run(blocks, c, i + 1, blocks[i + 1], cs, cu)
    IN  CASE held -> Run(blocks, c, i, b, close, <<>>)
          [] ~held /\ fits -> Done(cols, Place(cur, b, Len(b.segs)))
          [] ~held /\ ~fits /\ split = 0 /\ cur # <<>> -> Run(blocks, c, i, b, close, <<>>)
          [] ~held /\ ~fits /\ ~(split = 0 /\ cur # <<>>) ->
               IF k >= Len(b.segs) THEN Done(full, <<>>)
               ELSE Run(blocks, c, i, Rest(b, k), full, <<>>)

Flow(blocks, c) == IF blocks = <<>> THEN << <<>> >> ELSE Run(blocks, c, 1, blocks[1], <<>>, <<>>)

-----------------------------------------------------------------------------
(* paged *)

Uniform(n) == [ncols |-> 0, first |-> n, rest |-> n]
Narrowest == 2 * MinKeep + 2

(* Mutation of Fewer: a page of fewer columns than it has is too much.     *)
FewerColumns(n, ncols) == n < ncols

Fewer(n, ncols) == n <= ncols

(* The search for the capacity of a balanced page.                         *)
RECURSIVE Search(_, _, _, _, _)
Search(blocks, ncols, lo, hi, best) ==
    LET mid == (lo + hi) \div 2
    IN  IF lo > hi THEN best
        ELSE IF Fewer(Len(Flow(blocks, Uniform(mid))), ncols)
             THEN Search(blocks, ncols, lo, mid - 1, mid)
             ELSE Search(blocks, ncols, mid + 1, hi, best)

AtCapacity(blocks, n) == [cap |-> Uniform(n), columns |-> Flow(blocks, Uniform(n))]

Paged(blocks, c) ==
    LET columns == Flow(blocks, c)
    IN  IF c.ncols > 1 /\ Len(columns) <= c.ncols
        THEN AtCapacity(blocks, Search(blocks, c.ncols, Narrowest, c.first, c.first))
        ELSE [cap |-> c, columns |-> columns]

-----------------------------------------------------------------------------
(* What is promised of the columns.                                        *)

Content(col) == SelectSeq(col, LAMBDA s : s.b # 0)

(* Every segment is set once and in order, and a column that goes on with  *)
(* a block opens with the block's lead-in.                                 *)
SetsAll(blocks, columns) ==
    LET fb(b)  == CHOOSE i \in 1..Len(blocks) : blocks[i].segs[1].b = b
        again(c, k) == LET col == Content(columns[c])
                           rep == blocks[fb(col[1].b)].repeat
                       IN  /\ k <= rep /\ Len(col) > rep
                           /\ \A j \in 1..rep : col[j].k = j
                           /\ col[rep + 1].b = col[1].b /\ col[rep + 1].k > rep + 1
        once(c) == LET col == Content(columns[c])
                   IN  SubSeq(col, 1 + Cardinality({k \in 1..Len(col) : again(c, k)}), Len(col))
        opens(c) == LET col == Content(columns[c])
                    IN  col = <<>> \/ col[1].k <= Max({1, blocks[fb(col[1].b)].repeat})
                        \/ blocks[fb(col[1].b)].repeat = 0
    IN  /\ FlattenSeq([c \in 1..Len(columns) |-> once(c)])
             = FlattenSeq([i \in 1..Len(blocks) |-> blocks[i].segs])
        /\ \A c \in 1..Len(columns) : opens(c)

(* A column is no higher than its capacity, unless nothing less can be     *)
(* set: one segment, with its lead-in, or one block that is never split.   *)
InColumn(blocks, cap, columns) ==
    \A c \in 1..Len(columns) :
        \/ Height(columns[c]) <= 2 * Capacity(cap, c - 1)
        \/ \E i \in 1..Len(blocks) :
              /\ \A s \in Range(columns[c]) : s.b = blocks[i].segs[1].b
              /\ blocks[i].atomic \/ Len(columns[c]) <= blocks[i].repeat + 1

(* Every block begins on a whole body line.                                *)
OnGrid(columns) ==
    \A c \in 1..Len(columns) : \A j \in 1..Len(columns[c]) :
        j > 1 /\ columns[c][j].b # columns[c][j - 1].b /\ columns[c][j].b # 0 =>
            Height(SubSeq(columns[c], 1, j - 1)) % 2 = 0

(* A break leaves two segments of a block, beside its lead-in, on each     *)
(* side, unless the block has the whole column.                            *)
Keeps(blocks, columns) ==
    \A c \in 1..(Len(columns) - 1) :
        LET here == Content(columns[c])
            b    == here[Len(here)].b
            next == {j \in 1..Len(columns[c + 1]) : columns[c + 1][j].b = b}
            rep  == LET i == CHOOSE i \in 1..Len(blocks) : blocks[i].segs[1].b = b IN blocks[i].repeat
            mine == {j \in 1..Len(here) : here[j].b = b}
        IN  here # <<>> /\ next # {} =>
                \/ Cardinality(mine) >= rep + MinKeep /\ Cardinality(next) >= rep + MinKeep
                \/ here[1].b = b

(* A heading over a block that can be split after its second segment, or   *)
(* that has no third, is never the last thing in a column.                 *)
HeadingHeld(blocks, columns) ==
    \A c \in 1..(Len(columns) - 1) : \A i \in 1..(Len(blocks) - 1) :
        LET here == Content(columns[c])
            next == blocks[i + 1]
        IN  /\ here # <<>> /\ blocks[i].keepNext /\ ~next.keepNext
            /\ Len(next.segs) <= MinKeep \/ (next.repeat = 0 /\ Len(next.segs) >= 2 * MinKeep)
            /\ here[1].b # blocks[i].segs[1].b
            => here[Len(here)].b # blocks[i].segs[1].b

(* A balanced page is of the least capacity at which it has no more than   *)
(* its columns.                                                            *)
Balanced(blocks, c, paged) ==
    c.ncols > 1 /\ paged.cap.ncols = 0 =>
        /\ Len(paged.columns) <= c.ncols
        /\ \A n \in Narrowest..(paged.cap.first - 1) : Len(Flow(blocks, Uniform(n))) > c.ncols
=============================================================================
