------------------------------- MODULE Values -------------------------------
(***************************************************************************)
(* The driver's conversions of single values: scaled numbers, DECFLOAT,    *)
(* dates and times, time zones, and the text a service puts out in pieces. *)
(*                                                                         *)
(* The definitions named Slip... are slips in what they precede.           *)
(***************************************************************************)
EXTENDS Integers, Sequences, FiniteSetsExt, SequencesExt

-----------------------------------------------------------------------------
(* decimalToScaled(): a numeral, as characters, times a power of ten. *)

Digit == [c \in {"0", "1", "2", "5", "9"} |->
            CASE c = "0" -> 0 [] c = "1" -> 1 [] c = "2" -> 2 [] c = "5" -> 5 [] c = "9" -> 9]
AllDigits(t) == \A i \in DOMAIN t : t[i] \in DOMAIN Digit
Number(t) == FoldLeft(LAMBDA n, c : 10 * n + Digit[c], 0, t)

Before(t, c) == LET n == Min({i \in DOMAIN t : t[i] = c} \cup {Len(t) + 1}) IN SubSeq(t, 1, n - 1)
After(t, c) == SubSeq(t, Len(Before(t, c)) + 2, Len(t))
Negative(t) == t # <<>> /\ t[1] = "-"
Unsigned(t) == IF Negative(t) THEN Tail(t) ELSE t

\* The parts the regular expression finds.
Whole(t) == Before(Before(Unsigned(t), "e"), ".")
Fraction(t) == After(Before(Unsigned(t), "e"), ".")
Exponent(t) == After(Unsigned(t), "e")
IsNumeral(t) ==
    /\ AllDigits(Whole(t)) /\ AllDigits(Fraction(t)) /\ Whole(t) \o Fraction(t) # <<>>
    /\ "e" \in Range(t) => AllDigits(Unsigned(Exponent(t))) /\ Unsigned(Exponent(t)) # <<>>
ExponentOf(t) == (IF Negative(Exponent(t)) THEN -1 ELSE 1) * Number(Unsigned(Exponent(t)))

SlipRoundsUp(digits, keep) == keep > 0 /\ Digit[digits[keep + 1]] >= 5
\* The first digit dropped decides; with none to drop it is a zero.
RoundsUp(digits, keep) == keep >= 0 /\ Digit[digits[keep + 1]] >= 5

\* The magnitude of the result; its sign is the numeral's.
Scaled(t, fracDigits) ==
    LET digits == Whole(t) \o Fraction(t)
        shift == Len(Whole(t)) + ExponentOf(t) - Len(digits) + fracDigits
        keep == Len(digits) + shift
    IN IF shift >= 0 THEN Number(digits) * 10^shift
       ELSE Number(SubSeq(digits, 1, keep)) + (IF RoundsUp(digits, keep) THEN 1 ELSE 0)

-----------------------------------------------------------------------------
(* DECFLOAT: sign, combination field, the rest of the exponent, and declets of  *)
(* three digits in ten bits. A format says how many declets, the bias of the    *)
(* exponent and how many of its bits are outside the combination field.         *)

Decimal(neg, digits, exp) == [neg |-> neg, digits |-> digits, exp |-> exp]
MaxDigits(fmt) == 3 * fmt.declets + 1

\* encodeDeclet(): by which of the three digits are 8 or 9.
Bits(d) == <<(d \div 8) % 2, (d \div 4) % 2, (d \div 2) % 2, d % 2>>
Declet(n) ==
    LET p == Bits(n \div 100)  q == Bits((n \div 10) % 10)  r == Bits(n % 10)
        large == <<p[1], q[1], r[1]>>
    IN
    CASE large = <<0, 0, 0>> -> <<p[2], p[3], p[4], q[2], q[3], q[4], 0, r[2], r[3], r[4]>>
      [] large = <<0, 0, 1>> -> <<p[2], p[3], p[4], q[2], q[3], q[4], 1, 0, 0, r[4]>>
      [] large = <<0, 1, 0>> -> <<p[2], p[3], p[4], r[2], r[3], q[4], 1, 0, 1, r[4]>>
      [] large = <<0, 1, 1>> -> <<p[2], p[3], p[4], 1, 0, q[4], 1, 1, 1, r[4]>>
      [] large = <<1, 0, 0>> -> <<r[2], r[3], p[4], q[2], q[3], q[4], 1, 1, 0, r[4]>>
      [] large = <<1, 0, 1>> -> <<q[2], q[3], p[4], 0, 1, q[4], 1, 1, 1, r[4]>>
      [] large = <<1, 1, 0>> -> <<r[2], r[3], p[4], 0, 0, q[4], 1, 1, 1, r[4]>>
      [] OTHER -> <<0, 0, p[4], 1, 1, q[4], 1, 1, 1, r[4]>>

\* buildDpdTable(): the inverse, a later number over an earlier, and zero for what none has.
Declets == [n \in 0 .. 999 |-> Declet(n)]
DpdToInt == [bits \in Range(Declets) |-> Max({n \in 0 .. 999 : Declets[n] = bits})]
OfDeclet(bits) == IF bits \in DOMAIN DpdToInt THEN DpdToInt[bits] ELSE 0

Value10(digits) == FoldLeft(LAMBDA n, d : 10 * n + d, 0, digits)
Digits10(n, width) == [k \in 1 .. width |-> (n \div 10^(width - k)) % 10]
Stripped10(digits) == LET S == {k \in DOMAIN digits : digits[k] # 0} \cup {Len(digits)} IN SubSeq(digits, Min(S), Len(digits))

SlipFitted(x, fmt) ==
    IF Len(x.digits) <= MaxDigits(fmt) THEN x
    ELSE Decimal(x.neg, SubSeq(x.digits, 1, MaxDigits(fmt)), x.exp + Len(x.digits) - MaxDigits(fmt))

\* A coefficient too long is rounded half up, which may carry into one digit more.
Fitted(x, fmt) ==
    LET most == MaxDigits(fmt)
        coeff == Value10(SubSeq(x.digits, 1, most)) + (IF x.digits[most + 1] >= 5 THEN 1 ELSE 0)
        dropped == Len(x.digits) - most
    IN IF dropped <= 0 THEN x
       ELSE IF coeff = 10^most THEN Decimal(x.neg, Digits10(coeff \div 10, most), x.exp + dropped + 1)
       ELSE Decimal(x.neg, Stripped10(Digits10(coeff, most)), x.exp + dropped)

OutOfRange == [combo |-> -1]
\* encodeDecFloat(), of digits without leading zeros.
EncodeDecFloat(x, fmt) ==
    LET fitted == Fitted(x, fmt)
        padded == Digits10(Value10(fitted.digits), MaxDigits(fmt))
        biased == fitted.exp + fmt.bias
        expMsb == biased \div 2^fmt.expContBits
        msd == padded[1]
    IN IF biased < 0 \/ expMsb > 3 THEN OutOfRange
       ELSE [neg |-> x.neg,
             combo |-> IF msd <= 7 THEN 8 * expMsb + msd ELSE 24 + 2 * expMsb + (msd - 8),
             expCont |-> biased % 2^fmt.expContBits,
             declets |-> [k \in 1 .. fmt.declets |-> Declets[Value10(SubSeq(padded, 3 * k - 1, 3 * k + 1))]]]

\* decodeDecFloat(), of what is neither an infinity nor not a number.
Special(e) == e.combo >= 30
DecodeDecFloat(e, fmt) ==
    LET large == e.combo \div 8 = 3
        expMsb == (IF large THEN e.combo \div 2 ELSE e.combo \div 8) % 4
        msd == IF large THEN 8 + (e.combo % 2) ELSE e.combo % 8
        digits == <<msd>> \o FlattenSeq([k \in DOMAIN e.declets |-> Digits10(OfDeclet(e.declets[k]), 3)])
    IN Decimal(e.neg, Stripped10(digits), expMsb * 2^fmt.expContBits + e.expCont - fmt.bias)

-----------------------------------------------------------------------------
(* Dates and times, in hours. A zone is an hour ahead of its standard offset from *)
(* the instant `from` to the instant `to`; local time is what a JS Date makes of  *)
(* it: the earlier of two instants, and of a skipped one what it was before.      *)

DayHours == 24
EpochDiffDays == 40587

OffsetAt(zone, instant) == zone.offset + (IF instant \in zone.from .. zone.to - 1 THEN 1 ELSE 0)
LocalOf(zone, instant) == instant + OffsetAt(zone, instant)
InstantOf(zone, local) ==
    LET those == {u \in {local - zone.offset, local - zone.offset - 1} : LocalOf(zone, u) = local}
    IN IF those = {} THEN local - zone.offset ELSE Min(those)

\* decodeTimestamp(): what has passed since local midnight.
DecodeTimestamp(zone, days, time) == InstantOf(zone, (days - EpochDiffDays) * DayHours) + time

SlipEncodeTimestamp(zone, instant) == <<instant \div DayHours + EpochDiffDays, LocalOf(zone, instant) % DayHours>>
\* encodeTimestamp(): the local wall clock.
EncodeTimestamp(zone, instant) ==
    LET local == LocalOf(zone, instant) IN <<local \div DayHours + EpochDiffDays, local % DayHours>>

\* encodeTimestampUtc(), and what makeColumnReader() makes of it again.
SlipEncodeUtc(instant) == IF instant < 0 THEN <<EpochDiffDays - ((-instant) \div DayHours), (-instant) % DayHours>>
                          ELSE <<instant \div DayHours + EpochDiffDays, instant % DayHours>>
EncodeUtc(instant) ==
    LET day == instant \div DayHours IN <<day + EpochDiffDays, instant - day * DayHours>>
DecodeUtc(wire) == (wire[1] - EpochDiffDays) * DayHours + wire[2]

-----------------------------------------------------------------------------
(* Time zones: an id is an offset in minutes, or a name of the table, or unknown. *)

OneDayMinutes == 1439
TzMaxId == 65535
Names == 637

SlipTzIdToZone(id) ==
    LET disp == id - OneDayMinutes
    IN IF id <= 2 * OneDayMinutes THEN <<IF disp < 0 THEN "-" ELSE "+", disp \div 60, disp % 60>>
       ELSE IF TzMaxId - id < Names THEN <<"name", TzMaxId - id>> ELSE <<"tz#", id>>
TzIdToZone(id) ==
    LET disp == id - OneDayMinutes
        abs == IF disp < 0 THEN -disp ELSE disp
    IN IF id <= 2 * OneDayMinutes THEN <<IF disp < 0 THEN "-" ELSE "+", abs \div 60, abs % 60>>
       ELSE IF TzMaxId - id < Names THEN <<"name", TzMaxId - id>> ELSE <<"tz#", id>>

UnknownZone == -1
ZoneToTzId(zone) ==
    LET disp == (IF zone[1] = "-" THEN -1 ELSE 1) * (60 * zone[2] + zone[3])
    IN CASE zone[1] = "tz#" -> zone[2]
         [] zone[1] = "name" -> TzMaxId - zone[2]
         [] disp \in -OneDayMinutes .. OneDayMinutes -> disp + OneDayMinutes
         [] OTHER -> UnknownZone

-----------------------------------------------------------------------------
(* The output of a service: an info reply is clusters of an item and, but for the *)
(* end and the mark of a reply cut short, a length in two bytes and the data.     *)

EndItem == 1
TruncatedItem == 2
ToEof == 63

Cluster(item, data) == <<item, Len(data) % 256, Len(data) \div 256>> \o data
LengthAt(reply, pos) == reply[pos] + 256 * reply[pos + 1]

SlipDone(chunk) == Len(chunk) < 3
\* A reply without text is the end of it.
Done(chunk) == chunk = <<>>

Misread == [text |-> <<>>, done |-> TRUE, failed |-> TRUE]
\* parseServiceInfo() with the visitor of collectOutput(). The visitor skips a length behind
\* the mark of a reply cut short as well, though it has none.
RECURSIVE ReadOutput(_, _, _)
ReadOutput(reply, pos, read) ==
    LET item == reply[pos]
        next == pos + 3 + LengthAt(reply, pos + 1)
        text == SubSeq(reply, pos + 3, next - 1)
    IN
    IF pos > Len(reply) \/ item = EndItem THEN read
    ELSE IF pos + 2 > Len(reply) THEN Misread
    ELSE IF item = ToEof
    THEN ReadOutput(reply, next, [read EXCEPT !.text = @ \o text, !.done = Done(read.text \o text)])
    ELSE ReadOutput(reply, next, IF item = TruncatedItem THEN [read EXCEPT !.done = FALSE] ELSE read)

OutputOf(reply) == ReadOutput(reply, 1, [text |-> <<>>, done |-> TRUE, failed |-> FALSE])

\* collectOutput(): the text, and how many replies it took.
CollectOutput(replies) ==
    LET reads == [k \in DOMAIN replies |-> OutputOf(replies[k])]
        asked == Min({k \in DOMAIN replies : reads[k].done} \cup {Len(replies)})
    IN [text |-> FlattenSeq([k \in 1 .. asked |-> reads[k].text]), asked |-> asked,
        failed |-> \E k \in 1 .. asked : reads[k].failed]
=============================================================================
