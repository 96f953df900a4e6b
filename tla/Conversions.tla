----------------------------- MODULE Conversions ----------------------------
(***************************************************************************)
(* The driver's pure functions over all small inputs. An input grows piece *)
(* by piece, so every sequence of pieces up to its bound is a state, and   *)
(* what a function promises is an invariant of the inputs.                 *)
(***************************************************************************)
EXTENDS SqlText, Codecs, Values

CONSTANTS
    Pieces,     \* by the kind of input: what it grows by, a set of sequences
    Most,       \* by the kind of input: of how many pieces it may be made
    Zones       \* time zones

VARIABLE input

Input(kind, value) == [kind |-> kind, value |-> value, pieces |-> 0]
Init == input \in {Input(kind, <<>>) : kind \in DOMAIN Pieces}
Grow ==
    /\ input.pieces < Most[input.kind]
    /\ \E piece \in Pieces[input.kind] : input' = [input EXCEPT !.value = @ \o piece, !.pieces = @ + 1]
Spec == Init /\ [][Grow]_input

Of(kind) == input.kind = kind

-----------------------------------------------------------------------------
\* A position is in a comment for the scanner exactly if it is for a lexer that goes
\* character by character.
CommentsRight ==
    Of("text") /\ WellFormed(input.value) =>
        DOMAIN input.value \ Covered(Regions(input.value)) = InCode(input.value)

\* A text without its comments has none: what stood around one does not become one.
StripStable ==
    Of("text") /\ WellFormed(input.value) =>
        /\ WellFormed(Stripped(input.value)) /\ Comments(Stripped(input.value)) = {}
        /\ InCode(input.value) \subseteq InCode(Stripped(input.value))

\* Without SET TERM the statements are what stands between the semicolons in code, from
\* its first solid character outside comments to its last solid character.
Between(t, i, j) ==
    LET solid == {k \in i + 1 .. j - 1 : t[k] \notin Space}
    IN <<FirstOf(solid \ Comments(t), 0), IF solid = {} THEN 0 ELSE Max(solid)>>
SplitRight ==
    Of("text") /\ WellFormed(input.value) /\ "s" \notin Range(input.value) =>
        LET t == input.value
            ends == SetToSortSeq({0, Len(t) + 1} \cup {k \in InCode(t) : t[k] = ";"}, <)
            spans == [k \in 1 .. Len(ends) - 1 |-> Between(t, ends[k], ends[k + 1])]
            stmts == Split(t, <<";">>)
        IN [k \in DOMAIN stmts |-> stmts[k].span] = SelectSeq(spans, LAMBDA span : span[1] # 0)

\* A statement is split no further: with its terminator behind it, it is itself.
SplitOnce ==
    Of("text") /\ Split(input.value, <<";">>) # Broken =>
        \A k \in DOMAIN Split(input.value, <<";">>) :
            LET stmt == Split(input.value, <<";">>)[k]
                text == Text(input.value, stmt) \o <<"\n">> \o stmt.term
            IN Split(text, stmt.term) = <<[span |-> <<1, stmt.span[2] - stmt.span[1] + 1>>, term |-> stmt.term]>>

\* A name is replaced by a question mark exactly where it stands in code. In a name that
\* runs into a quote the last q is taken for the name here, for a literal by the scanner.
NamesApart(t) == \A i \in DOMAIN t : t[i] = "q" /\ At(t, i + 1) = "'" => At(t, i - 1) \notin Letters \cup {"@"}
MarkersRight ==
    Of("text") /\ WellFormed(input.value) /\ NamesApart(input.value) =>
        Markers(input.value) = {k \in InCode(input.value) : input.value[k] = "@" /\ At(input.value, k + 1) \in Letters}

\* The wire guard: what would end or begin a transaction behind the executor's back never
\* goes to the server, whatever follows it; only ROLLBACK TO a savepoint does.
WireGuard ==
    Of("words") => LET ws == input.value IN
        (Word(ws, 1) = "commit" \/ (Word(ws, 1) = "rollback" /\ "to" \notin Range(ws)) \/ (Word(ws, 1) = "set" /\ Word(ws, 2) = "transaction"))
            => Kind(ws) = "client"

\* The scanner, the one that strips comments and the one that finds parameters agree on
\* what is code.
LexersRight == CommentsRight /\ StripStable /\ MarkersRight

\* A script is sent statement by statement, and none that is the executor's own affair.
ScriptsRight == SplitRight /\ SplitOnce /\ WireGuard

\* The list written out yields the columns the server described, less those filtered
\* from the stars.
Filters == {[only |-> {}, exclude |-> {}], [only |-> {}, exclude |-> {Column("any", "y")}], [only |-> {Column("any", "x"), Column("b", "z")}, exclude |-> {Column("b", "x")}]}
Wanted(items, f) ==
    LET of(item) == IF IsStar(item) THEN SelectSeq(Describe(<<item>>), LAMBDA c : Kept(c, f.only, f.exclude)) ELSE Describe(<<item>>)
    IN FlattenSeq([k \in DOMAIN items |-> of(items[k])])
ColumnsRight(items, f) ==
    LET list == Expand(items, f.only, f.exclude) IN list # Refused => Describe(list) = Wanted(items, f)

\* The star of a table followed by more of that table and then by more items.
Ambiguous(items) == \E k \in 1 .. Len(items) - 2 : items[k].kind = "tableStar" /\ items[k + 1].table = items[k].table

StarsRight ==
    Of("list") /\ ~Ambiguous(input.value) =>
        /\ \A f \in Filters : ColumnsRight(input.value, f)
        /\ ~Mixed(input.value) => Expand(input.value, {}, {}) # Refused

\* Columns filtered in the rewritten list and again when rows are decoded are those that
\* decoding alone would have kept.
FiltersAgree ==
    Of("list") /\ ~Ambiguous(input.value) => \A f \in Filters :
        LET list == Expand(input.value, f.only, f.exclude) IN
        list # Refused => Shaped(Describe(list), f.only, f.exclude) = Shaped(Describe(input.value), f.only, f.exclude)

\* A star is written out so that nobody sees the difference but for what was filtered.
RewritesRight == StarsRight /\ FiltersAgree

-----------------------------------------------------------------------------
\* However the network cuts the stream into chunks and whatever is asked for, reads
\* return its bytes once, in order.
RECURSIVE ReadAll(_, _, _)
ReadAll(q, left, n) ==
    IF n > left THEN <<>> ELSE LET r == Take(q, n) IN r.bytes \o ReadAll(r.queue, left - n, (n % 3) + 1)
Received(sizes) ==
    LET before(k) == FoldLeft(LAMBDA a, b : a + b, 0, SubSeq(sizes, 1, k - 1))
    IN [k \in DOMAIN sizes |-> [j \in 1 .. sizes[k] |-> before(k) + j]]
BytesInOrder ==
    Of("bytes") => \A n \in 1 .. 3 :
        LET chunks == Received(input.value)
            got == ReadAll(FoldLeft(Push, Queue(<<>>, 0), chunks), Len(FlattenSeq(chunks)), n)
        IN got = [k \in DOMAIN got |-> k] /\ Len(got) + 3 > Len(FlattenSeq(chunks))

\* A row the server sends in the format asked for is read value by value, whatever is
\* null: a reader that takes a byte too many puts the connection out of step.
Lengths(cells) == [i \in DOMAIN cells |-> cells[i].len]
RowsRead ==
    Of("row") /\ (\A i \in DOMAIN input.value : input.value[i].type \in Types) =>
        LET cells == input.value
            sent == ServerWidths([i \in DOMAIN cells |-> OutputBlr(cells[i])], Lengths(cells))
        IN Reads(Message(Fill(Bitmap(Nulls(cells)), 0), Nulls(cells), sent), Nulls(cells), [i \in DOMAIN cells |-> ReaderWidth(cells[i])])

\* The server reads a batch row by the format it was given, and the length declared is
\* that of the engine's own layout: at any other it refuses or misreads every row.
BatchRowsRead ==
    Of("row") /\ Fits(input.value) =>
        LET cells == input.value
            blrs == [i \in DOMAIN cells |-> BatchField(cells[i]).blr]
        IN /\ Reads(BatchRow(cells), Nulls(cells), ServerWidths(blrs, Lengths(cells)))
           /\ MsgLen(cells) = EngineLength(blrs)

\* Parameters that are not refused are read by the server as they were bound.
ParamsRead ==
    Of("params") =>
        LET values == [i \in DOMAIN input.value |-> Prepared(input.value[i][1], input.value[i][2])]
            encoded == EncodeParams(values)
        IN (\A i \in DOMAIN values : values[i] # Unbindable /\ ~TooLong(values[i])) =>
            Reads(encoded.bytes, [i \in DOMAIN values |-> values[i].kind = "null"],
                  ServerWidths(encoded.blrs, [i \in DOMAIN values |-> 0]))

-----------------------------------------------------------------------------
\* A numeral is scaled exactly, and rounded half away from zero where digits are lost.
ScaledRight ==
    Of("numeral") /\ IsNumeral(input.value) /\ Len(Unsigned(Exponent(input.value))) <= 1 =>
        \A fracDigits \in 0 .. 2 :
            LET n == Number(Whole(input.value) \o Fraction(input.value))
                e == ExponentOf(input.value) - Len(Fraction(input.value)) + fracDigits
            IN Scaled(input.value, fracDigits) = IF e >= 0 THEN n * 10^e ELSE (2 * n + 10^(-e)) \div (2 * 10^(-e))

\* A decimal is decoded as it was encoded, rounded half up to the digits of the format,
\* for every exponent the format has: a format of four digits and six exponents.
SmallFormat == [declets |-> 1, bias |-> 3, expContBits |-> 1]
DecFloatReturns ==
    Of("coefficient") /\ input.value # <<>> /\ (input.value[1] # 0 \/ Len(input.value) = 1) =>
        \A neg \in BOOLEAN, exp \in -5 .. 4 :
            LET x == Decimal(neg, input.value, exp)
                k == Max({0, Len(input.value) - MaxDigits(SmallFormat)})
                r == (2 * Value10(input.value) + 10^k) \div (2 * 10^k)
                e == EncodeDecFloat(x, SmallFormat)
                back == DecodeDecFloat(e, SmallFormat)
            IN Fitted(x, SmallFormat).exp + SmallFormat.bias \in 0 .. 3 * 2^SmallFormat.expContBits - 1 =>
                /\ e # OutOfRange /\ ~Special(e)
                /\ back.neg = neg /\ back.exp >= exp + k
                /\ Value10(back.digits) * 10^(back.exp - exp - k) = r

\* A day on which the local time of a zone is not changed.
Steady(zone, day) ==
    \A h \in -1 .. DayHours : OffsetAt(zone, InstantOf(zone, day * DayHours) + h) = OffsetAt(zone, InstantOf(zone, day * DayHours))

\* A timestamp read and bound again is the same, on days without a change of local time;
\* on the others what is later than the change is read an hour off.
TimestampsReturn ==
    Of("hour") => \A h \in Range(input.value), zone \in Zones :
        LET wire == EncodeUtc(h) IN
        Steady(zone, h \div DayHours) => EncodeTimestamp(zone, DecodeTimestamp(zone, wire[1], wire[2])) = wire

\* An instant bound with its zone is read as the same instant, those before the epoch too.
InstantsReturn ==
    Of("hour") => \A h \in Range(input.value) :
        DecodeUtc(EncodeUtc(h)) = h /\ EncodeUtc(h)[2] \in 0 .. DayHours - 1

\* Every zone id, known or not, is read as a zone that is bound as the same id.
ZonesReturn == Of("zone") => \A id \in Range(input.value) : ZoneToTzId(TzIdToZone(id)) = id

\* A service's output is collected whole and to its end, however many replies it takes.
OutputWhole ==
    Of("output") =>
        LET chunks == Append(Received(input.value), <<>>)
            replies == [k \in DOMAIN chunks |-> Append(Cluster(ToEof, chunks[k]), EndItem)]
            output == CollectOutput(replies)
        IN ~output.failed /\ output.text = FlattenSeq(chunks) /\ output.asked = Len(chunks)

\* What one side writes the other reads to the last byte, and no further.
MessagesRead == BytesInOrder /\ RowsRead /\ BatchRowsRead /\ ParamsRead /\ OutputWhole

\* A value bound is the value read.
ValuesReturn == ScaledRight /\ DecFloatReturns /\ TimestampsReturn /\ InstantsReturn /\ ZonesReturn
=============================================================================
