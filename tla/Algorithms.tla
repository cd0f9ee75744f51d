------------------------------ MODULE Algorithms ------------------------------
(***************************************************************************)
(* The repository's pure algorithms: a task is one input of one of them,   *)
(* out is <<>> until the algorithm has run and then <<its result>>.  The   *)
(* sets of inputs are parameters, and so are the sizes of the formats.     *)
(***************************************************************************)
EXTENDS Integers, Sequences, FiniteSets

CONSTANTS
    Paragraphs,     \* [m, justified, ws, first, width]: words to break into lines
    Documents,      \* [doc, cap]: blocks to set in columns
    Tables,         \* [lines, pica, measure]: a table's source
    Drafts,         \* a row of cells
    Rows,           \* a raster's row, in any form
    Pages,          \* [page, over]: a page sent to a renderer that shows over
    Sources,        \* [base, src]: bytes to compress
    ValueRows,      \* the values of a row
    Encodings,      \* bytes that may be a row
    Days,           \* days from 1970-01-01
    Values,         \* values with a text
    Texts,          \* texts that may be a value
    FactSources,    \* the lines of a fact file
    NoId, BadName, Big,             \* see Fact
    RasterWidth,                    \* the columns of a raster
    ByteLimit,                      \* bytes are the numbers below it
    ShortString                     \* the longest string with its length in the tag

VARIABLES task, out
vars == <<task, out>>

W == INSTANCE Wrap
P == INSTANCE Press
T == INSTANCE Tbl
A == INSTANCE Raster WITH Width <- RasterWidth, MaxRow <- 2, Colors <- {0, 1}, MaxTarget <- 1
Z == INSTANCE Lz4s WITH LitMax <- 2, MatchMax <- 2, MinMatch <- 3, ExtMax <- 2, Near <- 2, Far <- 5
C == INSTANCE RowText WITH Digits <- 2, MaxInt <- 1000000, MaxScale <- 2
F == INSTANCE Fact

(* The codec of rows, with a compressor whose bytes are the codec's.       *)
S == INSTANCE Lz4s WITH LitMax <- 1, MatchMax <- 2, MinMatch <- 3, ExtMax <- 3, Near <- 8, Far <- 8
Packed(s) == S!Compress(s)
Unpacked(s, n) == S!Decompress(s, n)
NoLastByte(s) == \A i \in 1..Len(s) : s[i] # ByteLimit - 1
OddFloat(s) == s = <<7>>
R == INSTANCE Row WITH Base <- ByteLimit \div 2, MaxShort <- ShortString, MaxVarint <- 2, MaxInt <- 20,
                       MaxScale <- 1, DayMin <- -3, DayMax <- 4, DatetimeMin <- -5, DatetimeMax <- 6,
                       MaxTime <- 9, FloatLen <- 1, MaxExpand <- 3, ValidUTF8 <- NoLastByte,
                       BadFloat <- OddFloat, Compress <- Packed, Decompress <- Unpacked

Model(p) == IF p.justified THEN W!Justified(p.m) ELSE W!Ragged(p.m, 2)

-----------------------------------------------------------------------------
Inputs(alg, set) == [alg : {alg}, in : set]

Init ==
    /\ out = <<>>
    /\ \/ task \in Inputs("paragraph", Paragraphs) \/ task \in Inputs("document", Documents)
       \/ task \in Inputs("table", Tables)         \/ task \in Inputs("draft", Drafts)
       \/ task \in Inputs("row", Rows)             \/ task \in Inputs("page", Pages)
       \/ task \in Inputs("source", Sources)       \/ task \in Inputs("items", ValueRows)
       \/ task \in Inputs("encoding", Encodings)   \/ task \in Inputs("day", Days)
       \/ task \in Inputs("value", Values)         \/ task \in Inputs("text", Texts)
       \/ task \in Inputs("facts", FactSources)

Begins(alg) == task.alg = alg /\ out = <<>> /\ UNCHANGED task

BreakLines == Begins("paragraph") /\ LET p == task.in
                                     IN  out' = <<W!BreakLines(p.m, Model(p), p.ws, p.first, p.width)>>
SetColumns == Begins("document") /\ out' = <<P!Paged(P!Compose(task.in.doc), task.in.cap)>>
LayTable   == Begins("table") /\ LET host == T!Host(task.in.lines, task.in.pica)
                                 IN  out' = <<host, T!Layout(host.entries, task.in.measure)>>
MakeRow    == Begins("draft") /\ out' = <<A!DraftRow(task.in, 0)>>
Redraw     == Begins("row") /\ out' = <<A!DraftRow(A!Painted(task.in), task.in.index)>>
SendPage   == Begins("page") /\ out' = <<A!Encode(A!Records(task.in.page))>>
Compress   == Begins("source") /\ out' = <<Z!Delta(task.in.base, task.in.src)>>
EncodeRow  == Begins("items") /\ out' = <<R!Encode(task.in)>>
DecodeRow  == Begins("encoding") /\ out' = <<R!Decode(task.in)>>
ReadDay    == Begins("day") /\ out' = <<C!CivilFromDays(task.in)>>
FormatItem == Begins("value") /\ out' = <<C!FormatText(task.in)>>
ParseItem  == Begins("text") /\ out' = <<C!ParseText(task.in)>>
LoadFacts  == Begins("facts") /\ LET l == F!Load(task.in) IN out' = <<l, F!Bind(l.facts)>>

Next == \/ BreakLines \/ SetColumns \/ LayTable \/ MakeRow \/ Redraw \/ SendPage \/ Compress
        \/ EncodeRow \/ DecodeRow \/ ReadDay \/ FormatItem \/ ParseItem \/ LoadFacts

Spec == Init /\ [][Next]_vars

Ran(alg) == task.alg = alg /\ out # <<>>

-----------------------------------------------------------------------------
(* typeset/wrap.  What the lines are like is said of the paragraphs that   *)
(* breakLines returns for (BreakReturns).                                  *)

Broken == Ran("paragraph") /\ W!Returns(out[1])

(* breakLines returns for every paragraph and measure: the reconstruction  *)
(* loop makes progress in every round.                                     *)
BreakReturns == Ran("paragraph") => W!Returns(out[1])

(* No line is wider than its measure but by the hang of its hyphen and the *)
(* shrink of its gaps, whether the breaker hyphenates a word, forces one   *)
(* that is too long apart or takes up the rest of one that it cut.         *)
LinesFit == Broken => LET p == task.in IN W!Fits(p.m, Model(p), p.ws, p.first, p.width, out[1])

(* The lines hold the paragraph's words, each rune once and in order, with *)
(* a hyphen added at a hyphenation point and nowhere else: no rest of a    *)
(* cut word is lost or set twice.                                          *)
WordsKept == Broken => W!Keeps(task.in.ws, out[1])

(* Without hyphenation the dynamic program finds the cheapest breaks of    *)
(* all, the shrink of gaps and the hang of a dash included.                *)
BreaksCheapest == Broken => LET p == task.in IN W!Optimal(p.m, Model(p), p.ws, p.first, p.width, out[1])

(* A justified line set with its Gaps is exactly as wide as its measure:   *)
(* no unit is lost to the division, and no gap shrinks past a third.       *)
LinesFlush == Broken /\ task.in.justified =>
                  LET p == task.in IN W!Flush(p.m, Model(p), p.ws, p.first, p.width, out[1])

(* breakLines loses no text, keeps to the measure and breaks at the least  *)
(* cost, with words cut, forced apart and taken up again on the way.       *)
ParagraphsBroken == LinesFit /\ WordsKept /\ BreaksCheapest /\ LinesFlush

-----------------------------------------------------------------------------
(* pica/press *)

Blocks == P!Compose(task.in.doc)

(* flow sets every segment of every block once, in order, and a table or a *)
(* listing that goes on in another column has its lead-in there again.     *)
SegmentsSet == Ran("document") => P!SetsAll(Blocks, out[1].columns)

(* A column is within its capacity unless one unsplittable block, or one   *)
(* segment, is already higher, and every block begins on the body grid.    *)
ColumnsHold == Ran("document") => /\ P!InColumn(Blocks, out[1].cap, out[1].columns)
                                  /\ P!OnGrid(out[1].columns)

(* A column break inside a block leaves at least minKeep segments on both  *)
(* sides, unless the block is alone in its column.                         *)
BreaksKeep == Ran("document") => P!Keeps(Blocks, out[1].columns)

(* A heading is not left at the foot of a column above a block that can    *)
(* be broken there, or that is too short to be broken.                     *)
HeadingsHeld == Ran("document") => P!HeadingHeld(Blocks, out[1].columns)

(* The binary search for a balanced page finds the least capacity that     *)
(* does, though flow is not monotone in it by construction.                *)
PagesBalanced == Ran("document") => P!Balanced(Blocks, task.in.cap, out[1])

(* A document's columns hold all of it, on the grid and within the page,   *)
(* with no break that the rules forbid, and the last page is balanced.     *)
ColumnsSet == SegmentsSet /\ ColumnsHold /\ BreaksKeep /\ HeadingsHeld /\ PagesBalanced

-----------------------------------------------------------------------------
(* typeset/tbl and pica's tables *)

Laid == Ran("table") /\ out[2].err = ""

(* After any lines, refused ones among them, the format in force is the    *)
(* last accepted one over the last full one: relative formats never pile   *)
(* up, and Table.Add never meets a row of another grid.                    *)
FormatsResolve == Ran("table") /\ ~task.in.pica => T!Resolves(task.in.lines, out[1])

(* The boxes of every laid line tile the grid from its first column to its *)
(* last, within the measure, and every text is within its box.             *)
BoxesTile == Laid => \A i \in 1..Len(out[2].rows) : \A j \in 1..Len(out[2].rows[i]) :
                        T!Tiles(out[2].rows[i][j], out[2].spans, task.in.measure)

(* Every number in a single N box is shown whole with its point in the     *)
(* column's (Num.SepIndex), whatever fractions and parentheses the other   *)
(* rows have, unless it is too wide to.                                    *)
PointsAligned == Laid => T!PointsAlign(out[1].entries, out[2])

(* A note of a pica table always has a row or the header above it to go    *)
(* to (layout would follow a nil header else), and goes to the nearest.    *)
NotesAttached == Ran("table") /\ task.in.pica => T!NotesUnder(out[1].entries)

(* A table is laid as its formats say, after any accepted and refused      *)
(* lines.                                                                  *)
TablesLaid == FormatsResolve /\ BoxesTile /\ PointsAligned /\ NotesAttached

-----------------------------------------------------------------------------
(* typeset/raster *)

(* Draft.Row makes a row that passes Check and shows what the draft shows, *)
(* or refuses a link of two colours.                                       *)
RowsShown ==
    Ran("draft") =>
        \/ out[1] # <<>> /\ A!CheckRow(out[1][1]) /\ A!Shown(A!Painted(out[1][1])) = A!Shown(task.in)
        \/ \E b, c \in DOMAIN task.in :
              /\ b < c /\ task.in[c].target # <<>> /\ \A k \in b..c : task.in[k].target = task.in[c].target
              /\ \/ task.in[b].bg # task.in[c].bg
                 \/ task.in[b].fg # task.in[c].fg /\ task.in[b].g # A!Space /\ task.in[c].g # A!Space

(* Check leaves a row one form: drawn again, a row that passes it is       *)
(* itself.                                                                 *)
RowOneForm == Ran("row") /\ A!CheckRow(task.in) => out[1] = <<task.in>>

(* Records, encoded, decoded and applied to a renderer in any state, leave *)
(* it with the page; a stream cut short is refused or is the first of the  *)
(* records, and one with a byte changed is refused or means what it says.  *)
PageCarried ==
    Ran("page") =>
        LET sent == A!Records(task.in.page)
            got  == A!Decode(out[1])
            cut(k) == A!Decode(SubSeq(out[1], 1, k))
        IN  /\ got.ok /\ A!Apply(task.in.over, got.recs) = task.in.page
            /\ \A k \in 0..(Len(out[1]) - 1) :
                  cut(k).ok => \E n \in 0..(Len(sent) - 1) : cut(k).recs = SubSeq(sent, 1, n)
            /\ \A i \in 1..Len(out[1]) : \A b \in 0..6 :
                  LET s == [out[1] EXCEPT ![i] = b] IN A!Decode(s).ok => A!Encode(A!Decode(s).recs) = s

(* A page drawn, checked, encoded and applied elsewhere is that page.      *)
RasterCarried == RowsShown /\ RowOneForm /\ PageCarried

-----------------------------------------------------------------------------
(* lz4s *)

(* Undelta gives back what Delta compressed, against the same base, runs   *)
(* that overlap their copy included, and refuses any other length and a    *)
(* stream cut short.                                                       *)
StreamExact ==
    Ran("source") =>
        LET b == task.in.base
            n == Len(task.in.src)
        IN  /\ Z!Undelta(b, out[1], n) = [ok |-> TRUE, out |-> task.in.src]
            /\ \A k \in (0..(n + 2)) \ {n} : ~Z!Undelta(b, out[1], k).ok
            /\ \A k \in 0..(Len(out[1]) - 1) : ~Z!Undelta(b, SubSeq(out[1], 1, k), n).ok

(* The match taken has the greatest gain and is the nearest of those: the  *)
(* candidates the chain scan passes over could not have won.               *)
MatchBest == Ran("source") => LET b == task.in.base
                              IN  \A p \in 1..Len(task.in.src) : Z!BestIsBest(b \o task.in.src, Len(b) + p)

(* The compressor is lossless, and its choice of matches is the best one.  *)
Compressed == StreamExact /\ MatchBest

-----------------------------------------------------------------------------
(* row *)

(* Decode gives back the values Encode took, compressed strings and lists  *)
(* among them.                                                             *)
RowsRead == Ran("items") /\ out[1].err = "" =>
                R!Decode(out[1].val) = R!Got(task.in, Len(out[1].val) + 1)

(* A row has one encoding: bytes that Decode accepts are what Encode makes *)
(* of the values, so no varint, length, tag or stream has a second form.   *)
RowOneEncoding == Ran("encoding") /\ out[1].err = "" => R!Encode(out[1].val) = R!Got(task.in, 0)

(* A value that Encode refuses is refused with the code that Decode gives  *)
(* its bytes.                                                              *)
RowRefusedAlike == Ran("items") /\ out[1].err # "" => R!Decode(R!Bytes(task.in)).err = out[1].err

(* civilFromDays and daysFromCivil are inverse, and days in order are      *)
(* dates in order, over the ends of years, centuries and eras.             *)
DaysInOrder == Ran("day") => C!OneCalendar(task.in, out[1])

(* Parse reads the text Format gives a value as that value: the day of a   *)
(* datetime before 1970, the parts of a duration left out, the zeros of a  *)
(* decimal.                                                                *)
TextReads == Ran("value") => C!ParseText(out[1]) = C!ValueOf(task.in)

(* A text that Parse accepts is the one spelling of a value that is within *)
(* its range.                                                              *)
TextOneSpelling ==
    Ran("text") /\ out[1].err = "" =>
        /\ C!FormatText(out[1].val) = task.in
        /\ out[1].val.k \in {"duration", "decimal"} => out[1].val.n \in (-1000000)..1000000

(* The two forms of a row agree: a value has one encoding and one text,    *)
(* each read back as the value, and what one side refuses the other does.  *)
RowsExact == RowsRead /\ RowOneEncoding /\ RowRefusedAlike /\ DaysInOrder /\ TextReads /\ TextOneSpelling

-----------------------------------------------------------------------------
(* fact *)

Facts == out[1].facts
Valid == Ran("facts") /\ out[1].errs = <<>> /\ F!Apart(Facts)

(* Validate refuses exactly the sets that break a rule, forward references *)
(* allowed, and reports a line at fault, in the order of the lines.        *)
SetsValidated == Ran("facts") => F!ValidExactly(Facts)

(* In a bound set every value is at its key's path, and the map a ref      *)
(* binds to has its instance's fields and no others.                       *)
FactsBound == Valid /\ out[2].ok => F!BindsAll(Facts, out[2])

(* What Bind makes of a set, and whether it refuses it, does not depend on *)
(* the order of its lines.                                                 *)
BindOrderFree ==
    Valid => LET n == Len(Facts)
             IN  \A p \in {q \in [1..n -> 1..n] : \A i, j \in 1..n : q[i] = q[j] => i = j} :
                    F!Bind([i \in 1..n |-> Facts[p[i]]]) = out[2]

(* Instances puts every fact in the one record of its prefix and marker,   *)
(* in source order, and an import file that LoadInstances accepts has one  *)
(* record for each marker, of the kinds asked for.                         *)
InstancesGrouped ==
    LET OfKind(r) == r.line = 0 => \A i, j \in 1..Len(r.instances) :
                        /\ r.instances[i].through[1].kind = "d"
                        /\ r.instances[i].through[1] = r.instances[j].through[1] => i = j
    IN  Ran("facts") => F!Grouped(Facts, F!Instances(Facts)) /\ OfKind(F!LoadInstances(task.in, {"d"}))

(* A set of facts is judged, bound and grouped by what it says and not by  *)
(* the order it says it in.                                                *)
FactsLoaded == SetsValidated /\ FactsBound /\ BindOrderFree /\ InstancesGrouped
===============================================================================
