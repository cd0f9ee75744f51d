--------------------------------- MODULE Lz4s ---------------------------------
(***************************************************************************)
(* lz4s: the compressor and its decoder.  A byte is a number; the sizes of *)
(* the format are parameters: a token is [W][L][M] with L in 0..LitMax and *)
(* M in 0..MatchMax, MinMatch is the shortest match, an extension byte     *)
(* goes on at ExtMax, an offset byte holds Near distances.  The code has   *)
(* 7, 15, 3, 255 and 256, and Far is 65536.                                *)
(***************************************************************************)
EXTENDS Integers, Sequences, SequencesExt, FiniteSets, FiniteSetsExt

CONSTANTS LitMax, MatchMax, MinMatch, ExtMax, Near, Far

(* The length from which a match has an extension.                         *)
LongMatch == MatchMax + MinMatch - 1

Ext(v) == [i \in 1..(v \div ExtMax) |-> ExtMax] \o <<v % ExtMax>>

(* emit: a token, its literals and, unless len is 0, a match.              *)
Emit(lits, len, dist) ==
    LET l    == Min({Len(lits), LitMax})
        m    == IF len > 0 THEN Min({len - MinMatch + 1, MatchMax}) ELSE 0
        wide == len > 0 /\ dist > Near
    IN  <<((IF wide THEN LitMax + 1 ELSE 0) + l) * (MatchMax + 1) + m>>
        \o (IF Len(lits) >= LitMax THEN Ext(Len(lits) - LitMax) ELSE <<>>)
        \o lits
        \o (IF len = 0 THEN <<>>
            ELSE (IF wide THEN <<(dist - 1) % Near, (dist - 1) \div Near>> ELSE <<dist - 1>>)
                 \o (IF len >= LongMatch THEN Ext(len - LongMatch) ELSE <<>>))

(* How far src agrees from cand with itself from pos.                      *)
MatchLen(src, cand, pos) ==
    Max({l \in 0..(Len(src) - pos + 1) : \A i \in 0..(l - 1) : src[cand + i] = src[pos + i]})

Gain(l, dist) ==
    l - (IF dist > Near THEN 3 ELSE 2) - (IF l >= LongMatch THEN 1 + (l - LongMatch) \div ExtMax ELSE 0)

(* Mutation of Wins: a tie wins.                                           *)
WinsTied(g, b) == g >= b.gain

Wins(g, b) == g > b.gain

NoMatch == [gain |-> 0, len |-> 0, dist |-> 0]

(* The scan of the chain, near to far.  A candidate that differs where the *)
(* best ends is passed over; the scan ends at a match to the end.          *)
Best(src, pos) ==
    LET maxLen == Len(src) - pos + 1
        cands  == {c \in Max({1, pos - Far})..(pos - 1) :
                     maxLen >= MinMatch /\ \A i \in 0..(MinMatch - 1) : src[c + i] = src[pos + i]}
    IN  FoldLeft(LAMBDA b, c :
            LET l == MatchLen(src, c, pos)
                g == Gain(l, pos - c)
            IN  IF \/ b.len >= maxLen
                   \/ src[c + b.len] # src[pos + b.len]
                   \/ l < MinMatch \/ ~Wins(g, b) THEN b
                ELSE [gain |-> g, len |-> l, dist |-> pos - c],
            NoMatch, Reverse(SetToSortSeq(cands, LAMBDA x, y : x < y)))

RECURSIVE DeltaFrom(_, _, _)
DeltaFrom(src, pos, lits) ==
    LET Goes(b) == IF b.gain > 0 THEN Emit(lits, b.len, b.dist) \o DeltaFrom(src, pos + b.len, <<>>)
                   ELSE DeltaFrom(src, pos + 1, Append(lits, src[pos]))
    IN  IF pos <= Len(src) THEN Goes(Best(src, pos))
        ELSE IF lits = <<>> THEN <<>> ELSE Emit(lits, 0, 0)

Delta(base, src) == DeltaFrom(base \o src, Len(base) + 1, <<>>)
Compress(src) == Delta(<<>>, src)

-----------------------------------------------------------------------------
(* The extension at i: its sum and the byte after it; next is 0 when the   *)
(* stream ends first.                                                      *)
ReadExt(comp, i) ==
    LET ends == {j \in i..Len(comp) : comp[j] # ExtMax}
    IN  IF ends = {} THEN [sum |-> 0, next |-> 0]
        ELSE [sum |-> FoldSeq(LAMBDA x, y : x + y, 0, SubSeq(comp, i, Min(ends))), next |-> Min(ends) + 1]

(* Mutation of Copy: all at once, from what is there before it.            *)
CopyBlock(out, dist, n) ==
    out \o [i \in 1..n |-> out[Min({Len(out) - dist + i, Len(out)})]]

(* The byte-serial copy, which may read what it has written.               *)
Copy(out, dist, n) ==
    FoldLeft(LAMBDA o, i : Append(o, o[Len(o) + 1 - dist]), out, [i \in 1..n |-> i])

Refused == [ok |-> FALSE, out |-> <<>>]

(* A length of which the token has n, and that goes on at i when it is full. *)
LenAt(comp, n, full, i) ==
    LET Extended(e) == [len |-> n + e.sum, next |-> e.next]
    IN  IF full THEN Extended(ReadExt(comp, i)) ELSE [len |-> n, next |-> i]

RECURSIVE UndeltaFrom(_, _, _, _)
UndeltaFrom(comp, i, out, dsize) ==
    LET token == comp[i]
        m     == token % (MatchMax + 1)
        l     == (token \div (MatchMax + 1)) % (LitMax + 1)
        n     == IF token \div (MatchMax + 1) > LitMax THEN 2 ELSE 1
        Dist(at) == 1 + comp[at] + (IF n = 2 THEN comp[at + 1] * Near ELSE 0)
        Match(lits, at, len) ==
            IF \/ at + n - 1 > Len(comp) \/ len.next = 0
               \/ Dist(at) > Len(lits) \/ Len(lits) + len.len > dsize THEN Refused
            ELSE UndeltaFrom(comp, len.next, Copy(lits, Dist(at), len.len), dsize)
        Set(lits, at) ==
            IF m = 0 THEN UndeltaFrom(comp, at, lits, dsize)
            ELSE Match(lits, at, LenAt(comp, m + MinMatch - 1, m = MatchMax, at + n))
        Literals(len) ==
            IF len.next = 0 \/ len.next + len.len - 1 > Len(comp) \/ Len(out) + len.len > dsize THEN Refused
            ELSE Set(out \o SubSeq(comp, len.next, len.next + len.len - 1), len.next + len.len)
    IN  IF i <= Len(comp) THEN Literals(LenAt(comp, l, l = LitMax, i + 1))
        ELSE IF Len(out) = dsize THEN [ok |-> TRUE, out |-> out] ELSE Refused

Undelta(base, comp, dsize) ==
    LET Whole(r) == [r EXCEPT !.out = SubSeq(@, Len(base) + 1, Len(@))]
    IN  Whole(UndeltaFrom(comp, 1, base, Len(base) + dsize))
Decompress(comp, dsize) == Undelta(<<>>, comp, dsize)

-----------------------------------------------------------------------------
(* The match at pos is the one of the greatest gain, and the nearest of    *)
(* those: what the scan may pass over never matters.                       *)
BestIsBest(src, pos) ==
    LET b == Best(src, pos)
        all == {c \in Max({1, pos - Far})..(pos - 1) : MatchLen(src, c, pos) >= MinMatch}
        g(c) == Gain(MatchLen(src, c, pos), pos - c)
    IN  \A c \in all : g(c) <= b.gain /\ (g(c) = b.gain /\ b.gain > 0 => pos - c >= b.dist)
===============================================================================
