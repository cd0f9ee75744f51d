-------------------------------- MODULE Wrap --------------------------------
(***************************************************************************)
(* typeset/wrap: optimal line breaking.  A word is [len, pts, dash]: its   *)
(* runes, the points Hyphenate gives (a point p ends a line after rune p)  *)
(* and the runes that are dashes.  A piece [id, lo, hi, hy] is the runes   *)
(* lo + 1 to hi of word id, with the hyphen a break adds or not.  A        *)
(* measure m has the widths of a rune, a hyphen and a space.  Costs are    *)
(* scaled to be whole numbers.                                             *)
(***************************************************************************)
EXTENDS Integers, Sequences, SequencesExt, FiniteSets, FiniteSetsExt

Sum(s) == FoldSeq(LAMBDA x, y : x + y, 0, s)

PieceWidth(m, p) == (p.hi - p.lo) * m.rune + (IF p.hy THEN m.hyphen ELSE 0)
LineWidth(m, ps) == Sum([k \in 1..Len(ps) |-> PieceWidth(m, ps[k])]) + (Len(ps) - 1) * m.sp

HyphenHang(m) == (m.hyphen * 7) \div 10

(* The cost models.  line costs a line that is not the last, last the one  *)
(* that is; Unit makes whole numbers of lines of up to four words.         *)
Unit(m) == 24 * m.sp * m.sp

MonoGapCost(slack, words) ==
    LET gaps  == words - 1
        base  == slack \div gaps
        extra == slack % gaps
    IN  IF words <= 1 THEN slack * slack * 4
        ELSE extra * (base + 1) * (base + 1) + (gaps - extra) * base * base

GapCost(m, slack, words) ==
    CASE m.sp = 1 -> Unit(m) * MonoGapCost(slack, words)
      [] m.sp # 1 /\ words <= 1 -> 24 * slack * slack * 4
      [] m.sp # 1 /\ words > 1 -> (24 * slack * slack * (IF slack < 0 THEN 9 ELSE 1)) \div (words - 1)

Ragged(m, penalty) ==
    [sp |-> m.sp, hang |-> 0, shrink |-> 0, penalty |-> penalty * Unit(m), final |-> 0,
     proactive |-> FALSE, orphan |-> FALSE]
Justified(m) ==
    [sp |-> m.sp, hang |-> HyphenHang(m), shrink |-> m.sp \div 3, penalty |-> 6 * Unit(m),
     final |-> 40 * Unit(m), proactive |-> TRUE, orphan |-> TRUE]

LineCost(m, md, slack, words) ==
    IF md.orphan THEN GapCost(m, slack, words) ELSE 24 * slack * slack
LastCost(m, md, slack, width) ==
    IF slack > (IF md.orphan THEN width - 5 * m.sp ELSE width \div 2) THEN 6 * slack * slack ELSE 0

-----------------------------------------------------------------------------
(* A word in the paragraph: what is left of it, and its points.            *)
Whole(ws, k) == [id |-> k, lo |-> 0, hi |-> ws[k].len, pts |-> ws[k].pts, dash |-> ws[k].dash]

(* The suffix of w from rune cut: no point leaves fewer than two runes     *)
(* before a hyphen.                                                        *)
From(w, cut) == [w EXCEPT !.lo = cut, !.pts = {p \in @ : p - cut >= 2}]

Piece(w, cut, hy) == [id |-> w.id, lo |-> w.lo, hi |-> cut, hy |-> hy]

(* Mutation of Hyphened: a break at a dash adds a second one.              *)
HyphenedTwice(w, cut) == Piece(w, cut, TRUE)

(* hyphened: a break just after a dash adds no hyphen.                     *)
Hyphened(w, cut) == Piece(w, cut, cut \notin w.dash)

WordWidth(m, w) == (w.hi - w.lo) * m.rune

(* The points whose prefix was measured.                                   *)
Prefixed(m, w, limit) == {p \in w.pts : PieceWidth(m, Hyphened(w, p)) <= limit}

(* Mutation of FitRunes: the last rune that begins on the line is on it.   *)
FitRunesOver(m, runes, lw) == Min({runes, (lw + m.rune - 1) \div m.rune})

FitRunes(m, runes, lw) == Min({runes, lw \div m.rune})

(* The pieces that each fill a line, until what is left fits, and where    *)
(* that begins.                                                            *)
RECURSIVE Split(_, _, _, _, _)
Split(m, w, lw, width, hang) ==
    LET left  == w.hi - w.lo
        n     == FitRunes(m, left, lw)
        reach == FitRunes(m, left, lw + hang)
        at    == {p \in w.pts : /\ w.lo < p /\ p - w.lo <= reach
                                /\ PieceWidth(m, Hyphened(w, p)) <= lw + hang}
        piece == IF at # {} THEN Hyphened(w, Max(at)) ELSE Piece(w, w.lo + Max({n, 1}), FALSE)
        more  == Split(m, [w EXCEPT !.lo = piece.hi], width, width, hang)
    IN  IF left <= 1 \/ n = left THEN [pieces |-> <<>>, rest |-> w.lo]
        ELSE [pieces |-> <<piece>> \o more.pieces, rest |-> more.rest]

-----------------------------------------------------------------------------
(* The dynamic program.  An entry of the table T is the cost of the words  *)
(* from a position on, where its line ends, and the point it hyphenates at *)
(* (0: after a whole word, -1: the word is overlong).                      *)

(* The cheapest point to end a line at after used (-1: w begins the line); *)
(* the rightmost of equals.                                                *)
Hyphen(m, md, w, limit, used, width, words, tail) ==
    LET Total(p) == PieceWidth(m, Hyphened(w, p)) + (IF used >= 0 THEN used + md.sp ELSE 0)
        target   == width + md.hang
        fits     == {p \in Prefixed(m, w, limit) : Total(p) <= target + (words - 1) * md.shrink}
        C(p)     == LineCost(m, md, target - Total(p), words) + md.penalty + tail
    IN  {[cost |-> C(p), at |-> p] : p \in {q \in fits :
            \A r \in fits : C(q) < C(r) \/ (C(q) = C(r) /\ q >= r)}}

(* Mutation of Cheapest: the longest line.                                 *)
CheapestLongest(all) == CHOOSE a \in all : \A b \in all : a.seq >= b.seq

(* The least cost, the first of equals.                                    *)
Cheapest(all) == CHOOSE a \in all : \A b \in all : a.cost < b.cost \/ (a.cost = b.cost /\ a.seq <= b.seq)

(* One position of dp: scan the ends j of a line that begins at word i.    *)
Entry(m, md, ws, i, first, measure, T) ==
    LET n     == Len(ws)
        width == IF i = 1 THEN first ELSE measure
        limit == 2 * Max({first, measure})
        len   == [j \in i..n |-> Sum([k \in 1..(j - i + 1) |-> WordWidth(m, ws[i + k - 1])])
                                 + (j - i) * md.sp]
        allow == [j \in i..n |-> (j - i) * md.shrink]
        goal  == [j \in i..n |-> width + (IF j < n /\ ws[j].hi \in ws[j].dash THEN md.hang ELSE 0)]
        over  == {j \in i..n : len[j] > width + md.hang + allow[j]}
        stop  == IF over = {} THEN n + 1 ELSE Min(over)
        ends  == {[cost |-> T[j + 1].cost + (IF j < n THEN LineCost(m, md, goal[j] - len[j], j - i + 1)
                                             ELSE LastCost(m, md, goal[j] - len[j], width)),
                   next |-> j + 1, hyph |-> 0, seq |-> 2 * j] :
                     j \in {k \in i..(stop - 1) : goal[k] - len[k] >= (IF k < n THEN -allow[k] ELSE 0)}}
        Cut(j) == {[cost |-> h.cost + (IF T[j].next = n + 1 THEN md.final ELSE 0),
                    next |-> j, hyph |-> h.at, seq |-> 2 * j + 1] :
                     h \in Hyphen(m, md, ws[j], limit, len[j] - WordWidth(m, ws[j]) - md.sp,
                                  width, j - i + 1, T[j].cost)}
        cuts  == UNION {Cut(j) : j \in {k \in (i + 1)..n : \/ k = stop
                                                           \/ md.proactive /\ k < n /\ k < stop}}
        all   == ends \cup cuts
        alone == Hyphen(m, md, ws[i], limit, -1, width, 1, T[i + 1].cost)
    IN  CASE len[i] > width /\ ws[i].hi - ws[i].lo = 1 ->
               [cost |-> T[i + 1].cost, next |-> i + 1, hyph |-> 0]
          [] len[i] > goal[i] /\ ws[i].hi - ws[i].lo > 1 ->
               [cost |-> Min({a.cost : a \in alone} \cup (IF alone = {} THEN {T[i + 1].cost} ELSE {})),
                next |-> i, hyph |-> -1]
          [] OTHER ->
               LET best == Cheapest(all)
               IN  [cost |-> best.cost, next |-> best.next, hyph |-> best.hyph]

(* dp for every position, from the last back.                              *)
Table(m, md, ws, first, width) ==
    LET n == Len(ws)
        blank == [k \in 1..(n + 1) |-> [cost |-> 0, next |-> n + 1, hyph |-> 0]]
    IN  FoldLeft(LAMBDA T, d : [T EXCEPT ![n + 1 - d] = Entry(m, md, ws, n + 1 - d, first, width, T)],
                 blank, [d \in 1..n |-> d])

(* The reconstruction.  Where a suffix takes its word's place, the entry   *)
(* of that word is computed again.  A round of the loop that splits off    *)
(* nothing is repeated for ever: an empty line stands for that.            *)
RECURSIVE Build(_, _, _, _, _, _, _, _)
Build(m, md, ws, first, width, T, i, lines) ==
    LET e == T[i]
        Rest(k, cut, at, more) ==
            LET new == [ws EXCEPT ![k] = From(@, cut)]
            IN  Build(m, md, new, first, width,
                      [T EXCEPT ![k] = Entry(m, md, new, k, first, width, T)], at, lines \o more)
        words(j) == [k \in 1..(j - i) |-> Piece(ws[i + k - 1], ws[i + k - 1].hi, FALSE)]
        lw    == IF lines = <<>> THEN first ELSE width
        split == Split(m, ws[i], lw, width, md.hang)
    IN  CASE i > Len(ws) -> lines
          [] i <= Len(ws) /\ e.hyph = -1 /\ split.pieces = <<>> -> Append(lines, <<>>)
          [] i <= Len(ws) /\ e.hyph = -1 /\ split.pieces # <<>> ->
               Rest(i, split.rest, i, [k \in 1..Len(split.pieces) |-> <<split.pieces[k]>>])
          [] i <= Len(ws) /\ e.hyph = 0 ->
               Build(m, md, ws, first, width, T, e.next, Append(lines, words(e.next)))
          [] i <= Len(ws) /\ e.hyph > 0 ->
               Rest(e.next, e.hyph, e.next,
                    <<Append(words(e.next), Hyphened(ws[e.next], e.hyph))>>)

BreakLines(m, md, ws, first, width) ==
    LET words == [k \in 1..Len(ws) |-> Whole(ws, k)]
    IN  IF ws = <<>> THEN <<>>
        ELSE Build(m, md, words, first, width, Table(m, md, words, first, width), 1, <<>>)

(* The line ends in a dash, added or its own.                              *)
EndsInDash(ws, ps) == LET p == ps[Len(ps)] IN p.hy \/ p.hi \in ws[p.id].dash

(* Mutation of Gaps: what does not divide is left at the end.              *)
GapsEven(m, ws, ps, width, last) ==
    LET k     == Len(ps) - 1
        slack == width - LineWidth(m, ps)
                 + (IF ~last /\ EndsInDash(ws, ps) THEN HyphenHang(m) ELSE 0)
        sign  == IF slack < 0 THEN -1 ELSE 1
    IN  [i \in 1..k |-> IF last THEN m.sp ELSE m.sp + sign * ((sign * slack) \div k)]

(* Gaps: the advances between the words of a line set to width.            *)
Gaps(m, ws, ps, width, last) ==
    LET k     == Len(ps) - 1
        slack == width - LineWidth(m, ps)
                 + (IF ~last /\ EndsInDash(ws, ps) THEN HyphenHang(m) ELSE 0)
        sign  == IF slack < 0 THEN -1 ELSE 1
        each  == (sign * slack) \div k
        extra == (sign * slack) % k
    IN  [i \in 1..k |-> IF last THEN m.sp
                        ELSE m.sp + sign * (each + (IF i <= extra THEN 1 ELSE 0))]

-----------------------------------------------------------------------------
(* What is promised of the lines of a paragraph, when breakLines returns.  *)

Returns(lines) == \A i \in 1..Len(lines) : lines[i] # <<>>

(* Every line fits its measure, but for the hang of its hyphen and the     *)
(* shrink of its gaps where the model allows them, and a single rune.      *)
Fits(m, md, ws, first, width, lines) ==
    \A i \in 1..Len(lines) :
        LET ps == lines[i]
            w  == IF i = 1 THEN first ELSE width
            allowed == IF i = Len(lines) THEN 0
                       ELSE (Len(ps) - 1) * md.shrink + (IF EndsInDash(ws, ps) THEN md.hang ELSE 0)
        IN  \/ LineWidth(m, ps) <= w + allowed
            \/ Len(ps) = 1 /\ ps[1].hi - ps[1].lo = 1

(* Nothing is dropped, doubled or moved; a hyphen is added at a point of   *)
(* the word and nowhere else.                                              *)
Keeps(ws, lines) ==
    LET ps == FlattenSeq(lines)
    IN  /\ Len(ps) > 0 => ps[1].id = 1 /\ ps[1].lo = 0 /\ ps[Len(ps)].id = Len(ws)
                           /\ ps[Len(ps)].hi = ws[Len(ws)].len
        /\ (ps = <<>>) = (ws = <<>>)
        /\ \A k \in 1..Len(ps) :
              /\ ps[k].lo < ps[k].hi
              /\ ps[k].hy => ps[k].hi \in ws[ps[k].id].pts \ ws[ps[k].id].dash
              /\ k > 1 => \/ ps[k].id = ps[k - 1].id /\ ps[k].lo = ps[k - 1].hi
                          \/ /\ ps[k].id = ps[k - 1].id + 1 /\ ps[k].lo = 0
                             /\ ps[k - 1].hi = ws[ps[k - 1].id].len

(* The cost of lines that end after the words in breaks, or {} when one    *)
(* does not fit: what breaking between words may choose from.              *)
CostOf(m, md, ws, first, width, breaks) ==
    LET n       == Len(ws)
        start(e) == Max({0} \cup {b \in breaks : b < e}) + 1
        wide(e) == Sum([k \in 1..(e - start(e) + 1) |-> ws[start(e) + k - 1].len * m.rune])
                   + (e - start(e)) * m.sp
        lw(e)   == IF start(e) = 1 THEN first ELSE width
        goal(e) == lw(e) + (IF e < n /\ ws[e].len \in ws[e].dash THEN md.hang ELSE 0)
        words(e) == e - start(e) + 1
    IN  IF \E e \in breaks : goal(e) - wide(e) < (IF e < n THEN -(words(e) - 1) * md.shrink ELSE 0) THEN {}
        ELSE {MapThenSumSet(LAMBDA e : IF e < n THEN LineCost(m, md, goal(e) - wide(e), words(e))
                                       ELSE LastCost(m, md, goal(e) - wide(e), lw(e)), breaks)}

(* Without hyphenation, and every word fitting its line, no other choice   *)
(* of breaks costs less.                                                   *)
Optimal(m, md, ws, first, width, lines) ==
    LET n      == Len(ws)
        ends   == {lines[i][Len(lines[i])].id : i \in 1..Len(lines)}
        mine   == CostOf(m, md, ws, first, width, ends)
    IN  (\A k \in 1..n : ws[k].pts = {} /\ ws[k].len * m.rune <= first) /\ n > 0 =>
            /\ mine # {}
            /\ \A B \in SUBSET (1..(n - 1)) :
                  \A c \in CostOf(m, md, ws, first, width, B \cup {n}) : \A d \in mine : d <= c

(* Set to its measure, a line is exactly as wide as it, and no gap is      *)
(* shrunk by more than a third of a space.                                 *)
Flush(m, md, ws, first, width, lines) ==
    \A i \in 1..Len(lines) :
        LET ps == lines[i]
            w  == IF i = 1 THEN first ELSE width
            gs == Gaps(m, ws, ps, w, i = Len(lines))
        IN  Len(ps) > 1 /\ i < Len(lines) =>
                /\ Sum(gs) + LineWidth(m, ps) - (Len(ps) - 1) * m.sp
                      = w + (IF EndsInDash(ws, ps) THEN md.hang ELSE 0)
                /\ \A k \in 1..Len(gs) : gs[k] >= m.sp - md.shrink
=============================================================================
