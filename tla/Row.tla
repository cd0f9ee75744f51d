---------------------------------- MODULE Row ----------------------------------
(***************************************************************************)
(* row: the binary codec of a row.  A byte is a number below 2 * Base; the *)
(* tags are the bytes above MaxShort, in the order of the code.  A value   *)
(* is [k |-> kind, ...]: a string or bytes has s, a number n, a decimal    *)
(* scale too, a float its bytes in s, a list its items in list.            *)
(* The code has Base = 128, MaxShort = 241, MaxVarint = 8.                 *)
(***************************************************************************)
EXTENDS Integers, Sequences, SequencesExt, FiniteSets, FiniteSetsExt

CONSTANTS Base, MaxShort, MaxVarint, MaxInt, MaxScale, DayMin, DayMax, DatetimeMin, DatetimeMax,
          MaxTime, FloatLen, MaxExpand,
          ValidUTF8(_),      \* the string is UTF-8
          BadFloat(_),       \* the float is a NaN, an infinity or -0
          Compress(_), Decompress(_, _)

Kinds == <<"compressed", "none", "false", "true", "int", "decimal", "float", "date", "datetime",
           "time", "duration", "bytes", "long", "list">>
Tag(name) == MaxShort + (CHOOSE i \in 1..Len(Kinds) : Kinds[i] = name)

Ranges(k) == CASE k \in {"int", "decimal", "duration"} -> (-MaxInt)..MaxInt
               [] k = "date" -> DayMin..DayMax
               [] k = "datetime" -> DatetimeMin..DatetimeMax
               [] k = "time" -> 0..MaxTime

-----------------------------------------------------------------------------
(* fromGo: the code of the rule a value breaks, "" for none.               *)
RECURSIVE RuleOf(_, _)
RuleOf(v, inList) ==
    CASE v.k = "string" -> IF ValidUTF8(v.s) THEN "" ELSE "R006"
      [] v.k = "decimal" -> IF v.scale \notin 0..MaxScale THEN "R004"
                            ELSE IF v.n \in Ranges("decimal") THEN "" ELSE "R003"
      [] v.k \in {"int", "date", "datetime", "time", "duration"} ->
           IF v.n \in Ranges(v.k) THEN "" ELSE "R003"
      [] v.k = "float" -> IF BadFloat(v.s) THEN "R005" ELSE ""
      [] v.k \in {"none", "false", "true", "bytes"} -> ""
      [] v.k = "list" ->
           IF inList THEN "R008"
           ELSE LET bad == {i \in 1..Len(v.list) : RuleOf(v.list[i], TRUE) # ""}
                IN  IF bad = {} THEN "" ELSE RuleOf(v.list[Min(bad)], TRUE)

-----------------------------------------------------------------------------
Uvarint[u \in Nat] == IF u < Base THEN <<u>> ELSE <<Base + (u % Base)>> \o Uvarint[u \div Base]

(* Mutation of Zigzag: every negative number is one out.                   *)
ZigzagShifted(n) == IF n >= 0 THEN 2 * n ELSE -2 * n + 1

Zigzag(n) == IF n >= 0 THEN 2 * n ELSE -2 * n - 1
Unzigzag(u) == IF u % 2 = 0 THEN u \div 2 ELSE -((u + 1) \div 2)

(* smaller: a compressed item is shorter than the long string.             *)
Smaller(c, n) == Len(Uvarint[c]) + c < n

(* A string: short, or compressed where that is smaller, or long.          *)
EncodedString(s, c) ==
    IF Len(s) <= MaxShort THEN <<Len(s)>> \o s
    ELSE IF Smaller(Len(c), Len(s)) THEN <<Tag("compressed")>> \o Uvarint[Len(s)] \o Uvarint[Len(c)] \o c
    ELSE <<Tag("long")>> \o Uvarint[Len(s)] \o s

(* val.append *)
RECURSIVE Encoded(_)
Encoded(v) ==
    CASE v.k = "string" -> EncodedString(v.s, Compress(v.s))
      [] v.k \in {"none", "false", "true"} -> <<Tag(v.k)>>
      [] v.k \in {"int", "date", "datetime", "duration"} -> <<Tag(v.k)>> \o Uvarint[Zigzag(v.n)]
      [] v.k = "decimal" -> <<Tag(v.k), v.scale>> \o Uvarint[Zigzag(v.n)]
      [] v.k = "time" -> <<Tag(v.k)>> \o Uvarint[v.n]
      [] v.k = "float" -> <<Tag(v.k)>> \o v.s
      [] v.k = "bytes" -> <<Tag(v.k)>> \o Uvarint[Len(v.s)] \o v.s
      [] v.k = "list" ->
           <<Tag(v.k)>> \o Uvarint[Len(v.list)]
           \o FlattenSeq([i \in 1..Len(v.list) |-> Encoded(v.list[i])])

Bytes(vals) == FlattenSeq([i \in 1..Len(vals) |-> Encoded(vals[i])])

(* A result is [err, val, pos]; err is "" or the code of a rule.           *)
Got(val, pos) == [err |-> "", val |-> val, pos |-> pos]
Err(code) == [err |-> code, val |-> 0, pos |-> 0]

Encode(vals) ==
    LET bad == {i \in 1..Len(vals) : RuleOf(vals[i], FALSE) # ""}
    IN  IF bad = {} THEN Got(Bytes(vals), 0) ELSE Err(RuleOf(vals[Min(bad)], FALSE))

-----------------------------------------------------------------------------
(* The decoder, which reads at pos.                                        *)

(* Mutation of ReadUvarint: a varint may end in a zero byte.               *)
ReadUvarintLoose(b, pos) ==
    LET ends == {j \in pos..Min({Len(b), pos + MaxVarint - 1}) : b[j] < Base}
        end  == Min(ends)
    IN  IF ends = {} THEN Err(IF Len(b) - pos + 1 >= MaxVarint THEN "R002" ELSE "R001")
        ELSE Got(FoldRight(LAMBDA d, u : (d % Base) + Base * u, SubSeq(b, pos, end), 0), end + 1)

ReadUvarint(b, pos) ==
    LET ends == {j \in pos..Min({Len(b), pos + MaxVarint - 1}) : b[j] < Base}
        end  == Min(ends)
    IN  IF ends = {} THEN Err(IF Len(b) - pos + 1 >= MaxVarint THEN "R002" ELSE "R001")
        ELSE IF end > pos /\ b[end] = 0 THEN Err("R002")
        ELSE Got(FoldRight(LAMBDA d, u : (d % Base) + Base * u, SubSeq(b, pos, end), 0), end + 1)

(* The decoder stops at its first error.                                   *)
Then(r, Rest(_)) == IF r.err # "" THEN r ELSE Rest(r)

Signed(b, pos) ==
    Then(ReadUvarint(b, pos),
         LAMBDA u : IF u.val > 2 * MaxInt THEN Err("R003") ELSE Got(Unzigzag(u.val), u.pos))

Length(b, pos) ==
    Then(ReadUvarint(b, pos),
         LAMBDA u : IF u.val > MaxInt THEN Err("R003")
                    ELSE IF u.val > Len(b) - u.pos + 1 THEN Err("R001") ELSE u)

Str(b, pos, n) ==
    LET s == SubSeq(b, pos, pos + n - 1)
    IN  IF ValidUTF8(s) THEN Got([k |-> "string", s |-> s], pos + n) ELSE Err("R006")

Number(k, r) ==
    Then(r, LAMBDA x : IF x.val \in Ranges(k) THEN Got([k |-> k, n |-> x.val], x.pos) ELSE Err("R003"))

(* Mutation of DecodeDecimal: the mantissa is read before the scale is     *)
(* checked.                                                                *)
DecodeDecimalLate(b, pos) ==
    IF pos > Len(b) THEN Err("R001")
    ELSE Then(Signed(b, pos + 1),
              LAMBDA r : IF b[pos] > MaxScale THEN Err("R004")
                         ELSE Got([k |-> "decimal", n |-> r.val, scale |-> b[pos]], r.pos))

DecodeDecimal(b, pos) ==
    IF pos > Len(b) THEN Err("R001") ELSE IF b[pos] > MaxScale THEN Err("R004")
    ELSE Then(Signed(b, pos + 1),
              LAMBDA r : Got([k |-> "decimal", n |-> r.val, scale |-> b[pos]], r.pos))

DecodeFloat(b, pos) ==
    LET s == SubSeq(b, pos, pos + FloatLen - 1)
    IN  IF pos + FloatLen - 1 > Len(b) THEN Err("R001")
        ELSE IF BadFloat(s) THEN Err("R005") ELSE Got([k |-> "float", s |-> s], pos + FloatLen)

DecodeLong(b, pos) ==
    Then(Length(b, pos),
         LAMBDA n : IF n.val <= MaxShort THEN Err("R007")
                    ELSE Then(Str(b, n.pos, n.val),
                              LAMBDA v : IF Smaller(Len(Compress(v.val.s)), n.val) THEN Err("R007") ELSE v))

(* The string of n bytes that a stream is said to hold.                    *)
Expanded(text, strm, n, next) ==
    IF n > MaxExpand * Len(strm) \/ ~text.ok THEN Err("R009")
    ELSE IF ~ValidUTF8(text.out) THEN Err("R006")
    ELSE IF Compress(text.out) # strm THEN Err("R009")
    ELSE IF ~Smaller(Len(strm), n) THEN Err("R007")
    ELSE Got([k |-> "string", s |-> text.out], next)

Stream(b, u, c) ==
    LET strm == SubSeq(b, c.pos, c.pos + c.val - 1)
    IN  IF u.val <= MaxShort THEN Err("R007")
        ELSE Expanded(Decompress(strm, u.val), strm, u.val, c.pos + c.val)

DecodeCompressed(b, pos) ==
    Then(ReadUvarint(b, pos),
         LAMBDA u : IF u.val > MaxInt THEN Err("R003")
                    ELSE Then(Length(b, u.pos), LAMBDA c : Stream(b, u, c)))

(* decoder.item *)
RECURSIVE Item(_, _, _), Items(_, _, _, _)
Item(b, pos, inList) ==
    LET tag  == b[pos]
        name == IF tag <= MaxShort THEN "short" ELSE Kinds[tag - MaxShort]
    IN  CASE name = "short" -> IF tag > Len(b) - pos THEN Err("R001") ELSE Str(b, pos + 1, tag)
          [] name \in {"none", "false", "true"} -> Got([k |-> name], pos + 1)
          [] name \in {"int", "date", "datetime", "duration"} -> Number(name, Signed(b, pos + 1))
          [] name = "time" -> Number(name, ReadUvarint(b, pos + 1))
          [] name = "decimal" -> DecodeDecimal(b, pos + 1)
          [] name = "float" -> DecodeFloat(b, pos + 1)
          [] name = "bytes" ->
               Then(Length(b, pos + 1),
                    LAMBDA n : Got([k |-> "bytes", s |-> SubSeq(b, n.pos, n.pos + n.val - 1)], n.pos + n.val))
          [] name = "long" -> DecodeLong(b, pos + 1)
          [] name = "compressed" -> DecodeCompressed(b, pos + 1)
          [] name = "list" ->
               IF inList THEN Err("R008")
               ELSE Then(Length(b, pos + 1),
                         LAMBDA n : Then(Items(b, n.pos, n.val, <<>>),
                                         LAMBDA got : Got([k |-> "list", list |-> got.val], got.pos)))

(* n items from pos; a row's items are those up to the end (n = -1).       *)
Items(b, pos, n, vals) ==
    CASE Len(vals) = n \/ (n < 0 /\ pos > Len(b)) -> Got(vals, pos)
      [] Len(vals) # n /\ n >= 0 /\ pos > Len(b) -> Err("R001")
      [] Len(vals) # n /\ pos <= Len(b) ->
           Then(Item(b, pos, n >= 0), LAMBDA r : Items(b, r.pos, n, Append(vals, r.val)))

Decode(b) == Items(b, 1, -1, <<>>)
================================================================================
