-------------------------------- MODULE RowText --------------------------------
(***************************************************************************)
(* row: the text of dates, times, durations and decimals, and the calendar *)
(* under it.  A text is the shape of a token with the runs of digits in    *)
(* it: [shape |-> "date", y, m, d], [shape |-> "time", h, mi, s, ms], a    *)
(* "datetime" of both, [shape |-> "duration", neg, h, m, s, frac] and      *)
(* [shape |-> "decimal", neg, whole, frac]; digits are sequences, <<>>     *)
(* where a part is absent.  The code has Digits = 3, MaxInt = 2^53 - 1.    *)
(***************************************************************************)
EXTENDS Integers, Sequences, SequencesExt

CONSTANTS Digits, MaxInt, MaxScale

Sec == 10 ^ Digits
Minute == 60 * Sec
Hour == 60 * Minute
DayLen == 24 * Hour

Abs(n) == IF n < 0 THEN -n ELSE n

(* The quotient of integers of the code: towards zero.                     *)
Quo(a, b) == IF a < 0 THEN -((-a) \div b) ELSE a \div b

-----------------------------------------------------------------------------
(* civil.go *)

DaysIn(y, m) == CASE m = 2 -> IF y % 4 = 0 /\ (y % 100 # 0 \/ y % 400 = 0) THEN 29 ELSE 28
                  [] m \in {4, 6, 9, 11} -> 30
                  [] OTHER -> 31

ValidCivil(y, m, d) == y \in 1..9999 /\ m \in 1..12 /\ d \in 1..DaysIn(y, m)

DaysFromCivil(y0, m, d) ==
    LET y   == IF m <= 2 THEN y0 - 1 ELSE y0
        era == Quo(IF y < 0 THEN y - 399 ELSE y, 400)
        yoe == y - era * 400
        mp  == IF m > 2 THEN m - 3 ELSE m + 9
        doy == (153 * mp + 2) \div 5 + d - 1
    IN  era * 146097 + yoe * 365 + yoe \div 4 - yoe \div 100 + doy - 719468

(* Mutation of YearOf: the last day of four centuries is of the next year. *)
YearOfEarly(doe) == (doe - doe \div 1460 + doe \div 36524) \div 365

(* The year of the era that its day doe is in.                             *)
YearOf(doe) == (doe - doe \div 1460 + doe \div 36524 - doe \div 146096) \div 365

CivilFromDays(z0) ==
    LET z   == z0 + 719468
        era == Quo(IF z < 0 THEN z - 146096 ELSE z, 146097)
        doe == z - era * 146097
        yoe == YearOf(doe)
        doy == doe - (365 * yoe + yoe \div 4 - yoe \div 100)
        mp  == (5 * doy + 2) \div 153
        m   == IF mp >= 10 THEN mp - 9 ELSE mp + 3
    IN  [y |-> yoe + era * 400 + (IF m <= 2 THEN 1 ELSE 0), m |-> m, d |-> doy - (153 * mp + 2) \div 5 + 1]

(* Mutation of FloorDiv: a negative remainder is kept.                     *)
FloorDivSigned(a, b) == [q |-> Quo(a, b), r |-> Abs(a - Quo(a, b) * b)]

FloorDiv(a, b) ==
    LET q == Quo(a, b)
        r == a - q * b
    IN  IF r < 0 THEN [q |-> q - 1, r |-> r + b] ELSE [q |-> q, r |-> r]

-----------------------------------------------------------------------------
DigitsOf[n \in Nat] == IF n < 10 THEN <<n>> ELSE Append(DigitsOf[n \div 10], n % 10)
NumOf(ds) == FoldLeft(LAMBDA n, d : 10 * n + d, 0, ds)
Zeros(n) == [i \in 1..n |-> 0]
PadTo(ds, w) == IF Len(ds) < w THEN Zeros(w - Len(ds)) \o ds ELSE ds

RECURSIVE TrimZeros(_)
TrimZeros(ds) == IF ds # <<>> /\ ds[Len(ds)] = 0 THEN TrimZeros(SubSeq(ds, 1, Len(ds) - 1)) ELSE ds

(* formatDecimal *)
FormatDecimal(v) ==
    LET ds == PadTo(DigitsOf[Abs(v.n)], v.scale + 1)
        k  == Len(ds) - v.scale
    IN  [shape |-> "decimal", neg |-> v.n < 0, whole |-> SubSeq(ds, 1, k), frac |-> SubSeq(ds, k + 1, Len(ds))]

FormatTime(ms) == [h |-> ms \div Hour, mi |-> (ms \div Minute) % 60, s |-> (ms \div Sec) % 60, ms |-> ms % Sec]

(* formatDuration: a part that is zero is left out, unless all are.        *)
FormatDuration(v) ==
    LET ms == Abs(v.n)
        h  == ms \div Hour
        m  == (ms % Hour) \div Minute
        s  == ms % Minute
    IN  [shape |-> "duration", neg |-> v.n < 0,
         h |-> IF h > 0 THEN DigitsOf[h] ELSE <<>>, m |-> IF m > 0 THEN DigitsOf[m] ELSE <<>>,
         s |-> IF s > 0 \/ (h = 0 /\ m = 0) THEN DigitsOf[s \div Sec] ELSE <<>>,
         frac |-> IF s % Sec > 0 THEN TrimZeros(PadTo(DigitsOf[s % Sec], Digits)) ELSE <<>>]

FormatText(v) ==
    LET at == FloorDiv(v.n, DayLen)
    IN  CASE v.k = "date" -> [shape |-> "date", date |-> CivilFromDays(v.n)]
          [] v.k = "datetime" -> [shape |-> "datetime", date |-> CivilFromDays(at.q), clock |-> FormatTime(at.r)]
          [] v.k = "time" -> [shape |-> "time", clock |-> FormatTime(v.n)]
          [] v.k = "duration" -> FormatDuration(v)
          [] v.k = "decimal" -> FormatDecimal(v)

-----------------------------------------------------------------------------
TextErr(code) == [err |-> code]
ValueOf(v) == [err |-> "", val |-> v]

ClockOf(c) == IF c.h > 23 \/ c.mi > 59 \/ c.s > 59 THEN -1 ELSE ((c.h * 60 + c.mi) * 60 + c.s) * Sec + c.ms
ValidDate(t) == ValidCivil(t.date.y, t.date.m, t.date.d)
DayOf(t) == DaysFromCivil(t.date.y, t.date.m, t.date.d)

(* Mutation of TooMany: the parts are checked, their sum is not.           *)
TooManyParts(total) == FALSE

(* The check of a duration's sum.                                          *)
TooMany(total) == total > MaxInt

(* duration: no part, and not their sum, is over MaxInt.                   *)
ReadDuration(t) ==
    LET parts == <<[n |-> NumOf(t.h), unit |-> Hour], [n |-> NumOf(t.m), unit |-> Minute],
                   [n |-> NumOf(t.s), unit |-> Sec]>>
        total == FoldSeq(LAMBDA p, sum : p.n * p.unit + sum, 0, parts)
                 + NumOf(SubSeq(t.frac \o Zeros(Digits), 1, Digits))
    IN  IF \E i \in 1..3 : parts[i].n > MaxInt \div parts[i].unit THEN TextErr("R003")
        ELSE IF TooMany(total) THEN TextErr("R003")
        ELSE ValueOf([k |-> "duration", n |-> IF t.neg THEN -total ELSE total])

(* bare: the value a token reads as, in any spelling.                      *)
Bare(t) ==
    LET n == NumOf(t.whole \o t.frac)
    IN  CASE t.shape = "date" ->
               IF ValidDate(t) THEN ValueOf([k |-> "date", n |-> DayOf(t)]) ELSE TextErr("R003")
          [] t.shape = "datetime" ->
               IF ValidDate(t) /\ ClockOf(t.clock) >= 0
               THEN ValueOf([k |-> "datetime", n |-> DayOf(t) * DayLen + ClockOf(t.clock)]) ELSE TextErr("R003")
          [] t.shape = "time" ->
               IF ClockOf(t.clock) >= 0 THEN ValueOf([k |-> "time", n |-> ClockOf(t.clock)]) ELSE TextErr("R003")
          [] t.shape = "duration" -> IF t.h \o t.m \o t.s = <<>> THEN TextErr("T001") ELSE ReadDuration(t)
          [] t.shape = "decimal" ->
               IF Len(t.frac) > MaxScale THEN TextErr("R004") ELSE IF n > MaxInt THEN TextErr("R003")
               ELSE ValueOf([k |-> "decimal", n |-> IF t.neg THEN -n ELSE n, scale |-> Len(t.frac)])

(* Parse: only the one spelling of a value.                                *)
ParseText(t) ==
    LET b == Bare(t)
    IN  IF b.err = "" /\ FormatText(b.val) # t THEN TextErr("T002") ELSE b

-----------------------------------------------------------------------------
(* The day after a date.                                                   *)
DayAfter(c) ==
    CASE c.d < DaysIn(c.y, c.m) -> [c EXCEPT !.d = @ + 1]
      [] c.d = DaysIn(c.y, c.m) /\ c.m < 12 -> [c EXCEPT !.d = 1, !.m = @ + 1]
      [] OTHER -> [y |-> c.y + 1, m |-> 1, d |-> 1]

(* A day is a date, the date that day, and the next day the date after it. *)
OneCalendar(day, c) ==
    /\ ValidCivil(c.y, c.m, c.d) /\ DaysFromCivil(c.y, c.m, c.d) = day
    /\ CivilFromDays(day + 1) = DayAfter(c)
================================================================================
