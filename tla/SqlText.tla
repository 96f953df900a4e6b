------------------------------- MODULE SqlText ------------------------------
(***************************************************************************)
(* What the driver does to SQL before it is sent: the scanner and splitter *)
(* of scripts, named parameters, client commands and the expansion of *.   *)
(* A text is a sequence of characters, of which only those the lexers tell *)
(* apart occur; a client command and a select list are sequences of words. *)
(* Each function stands beside what it should compute, stated another way. *)
(*                                                                         *)
(* The definitions named Slip... are slips in what they precede.           *)
(***************************************************************************)
EXTENDS Integers, Sequences, FiniteSetsExt, SequencesExt

EOT == "end"
Letters == {"a", "q", "s"}
EndsLine == {"\n", "\r"}
Space == {" "} \cup EndsLine

At(t, i) == IF i \in DOMAIN t THEN t[i] ELSE EOT
FirstOf(S, otherwise) == IF S = {} THEN otherwise ELSE Min(S)

-----------------------------------------------------------------------------
(* scanner.ts *)

Region(kind, start, end, terminated) == [kind |-> kind, start |-> start, end |-> end, terminated |-> terminated]
NoRegion == Region("code", 0, 0, TRUE)

\* The region that ends at the first of `closers`, each two characters long.
ClosedAt(kind, t, i, closers) == Region(kind, i, FirstOf({j + 2 : j \in closers}, Len(t) + 1), closers # {})

\* A doubled quote is a quote within.
QuoteEnd(t, i) ==
    LET from[j \in i + 1 .. Len(t) + 2] ==
            IF j > Len(t) THEN 0 ELSE IF t[j] # t[i] THEN from[j + 1] ELSE IF At(t, j + 1) = t[i] THEN from[j + 2] ELSE j + 1
    IN from[i + 1]

Closer(c) == IF c = "{" THEN "}" ELSE c

SlipClosers(t, i) == {j \in i + 1 .. Len(t) : t[j] = "*" /\ At(t, j + 1) = "/"}
BlockClosers(t, i) == {j \in i + 2 .. Len(t) : t[j] = "*" /\ At(t, j + 1) = "/"}
QClosers(t, i) == {j \in i + 3 .. Len(t) : t[j] = Closer(t[i + 2]) /\ At(t, j + 1) = "'"}

\* regionAt()
RegionAt(t, i) ==
    CASE t[i] = "-" /\ At(t, i + 1) = "-" ->
            Region("line", i, FirstOf({j \in i + 2 .. Len(t) : t[j] \in EndsLine}, Len(t) + 1), TRUE)
      [] t[i] = "/" /\ At(t, i + 1) = "*" -> ClosedAt("block", t, i, BlockClosers(t, i))
      [] t[i] = "q" /\ At(t, i + 1) = "'" ->
            IF i + 2 > Len(t) THEN Region("q", i, Len(t) + 1, FALSE) ELSE ClosedAt("q", t, i, QClosers(t, i))
      [] t[i] = "'" -> LET e == QuoteEnd(t, i) IN Region("string", i, IF e = 0 THEN Len(t) + 1 ELSE e, e # 0)
      [] OTHER -> NoRegion

IsComment(r) == r.kind \in {"line", "block"}

\* The regions of a text, left to right.
Regions(t) ==
    LET from[i \in 1 .. Len(t) + 1] ==
            IF i > Len(t) THEN <<>>
            ELSE LET r == RegionAt(t, i) IN IF r = NoRegion THEN from[i + 1] ELSE <<r>> \o from[r.end]
    IN from[1]

WellFormed(t) == \A k \in DOMAIN Regions(t) : Regions(t)[k].terminated

\* commentRanges(), of a text it does not reject, as the positions they cover.
Covered(rs) == UNION {rs[k].start .. rs[k].end - 1 : k \in DOMAIN rs}
Comments(t) == Covered(SelectSeq(Regions(t), IsComment))

SlipStripped(t) == LET kept == SetToSortSeq(DOMAIN t \ Comments(t), <) IN [k \in DOMAIN kept |-> t[kept[k]]]

\* stripComments(): as long as before, line ends kept.
Stripped(t) == [i \in DOMAIN t |-> IF i \in Comments(t) /\ t[i] \notin EndsLine THEN " " ELSE t[i]]

\* The same by an automaton that goes character by character: the mode before each.
ModeAfter(m, c, next) ==
    CASE m[1] = "code" /\ c = "-" /\ next = "-" -> <<"line">>
      [] m[1] = "code" /\ c = "/" /\ next = "*" -> <<"opened">>
      [] m[1] = "code" /\ c = "q" /\ next = "'" -> <<"q">>
      [] m[1] = "code" /\ c = "'" -> <<"string">>
      [] m[1] = "line" -> IF next \in EndsLine THEN <<"code">> ELSE m
      [] m[1] = "opened" -> <<"block">>
      [] m[1] = "block" /\ c = "*" /\ next = "/" -> <<"closing">>
      [] m[1] = "string" /\ c = "'" -> IF next = "'" THEN <<"doubled">> ELSE <<"code">>
      [] m[1] = "doubled" -> <<"string">>
      [] m[1] = "q" -> <<"delimiter">>
      [] m[1] = "delimiter" -> <<"literal", Closer(c)>>
      [] m[1] = "literal" /\ c = m[2] /\ next = "'" -> <<"closing">>
      [] m[1] = "closing" -> <<"code">>
      [] OTHER -> m

\* A sequence of modes, one more than characters.
Modes(t) ==
    LET after[i \in 0 .. Len(t)] == IF i = 0 THEN <<"code">> ELSE ModeAfter(after[i - 1], t[i], At(t, i + 1))
    IN [i \in 1 .. Len(t) + 1 |-> after[i - 1]]

\* Neither in a literal nor in a comment; the second character of an opener is in.
InCode(t) ==
    LET modes == Modes(t) IN
    {i \in DOMAIN t : modes[i][1] = "code" /\ ~(modes[i + 1][1] \in {"string", "line", "opened", "q"})}

-----------------------------------------------------------------------------
(* parseScript() *)

Starts(t, i, term) == \A k \in DOMAIN term : At(t, i + k - 1) = term[k]

SlipStepOver(t, i) == IF t[i] = "q" THEN i + 1 ELSE LET r == RegionAt(t, i) IN IF r = NoRegion THEN i + 1 ELSE r.end
StepOver(t, i) == LET r == RegionAt(t, i) IN IF r = NoRegion THEN i + 1 ELSE r.end

\* The first position from i on that is no white space and begins no comment; 0 when
\* one does not end.
Trivia(t, i) ==
    LET past[j \in 1 .. Len(t) + 2] ==
            IF j > Len(t) THEN j ELSE IF t[j] \in Space THEN past[j + 1]
            ELSE IF ~IsComment(RegionAt(t, j)) THEN j
            ELSE IF RegionAt(t, j).terminated THEN past[RegionAt(t, j).end] ELSE 0
    IN past[i]

\* Where the statement that begins at i ends: at the terminator, or with the text; 0
\* when a literal or comment does not end.
BodyEnd(t, i, term) ==
    LET past[j \in 1 .. Len(t) + 2] == IF j > Len(t) THEN j ELSE IF ~RegionAt(t, j).terminated THEN 0
            ELSE IF RegionAt(t, j) = NoRegion /\ Starts(t, j, term) THEN j ELSE past[StepOver(t, j)]
    IN past[i]

SlipTrim(t, i, j) == IF i > j THEN <<i, j>> ELSE <<i, j - 1>>

\* The span of t[i..j] without the white space around it.
Trim(t, i, j) ==
    LET solid == {k \in i .. j : t[k] \notin Space}
    IN IF solid = {} THEN <<i, i - 1>> ELSE <<Min(solid), Max(solid)>>

\* SET TERM: "s" stands for the two words; the new terminator is all that follows up to
\* the next of the old, quotes and comments not looked at.
IsSetTerm(t, i) == t[i] = "s" /\ At(t, i + 1) \notin Letters
TermEnd(t, i, term) == FirstOf({j \in i .. Len(t) : Starts(t, j, term)}, 0)
NewTerm(t, i, term) == LET span == Trim(t, i + 1, TermEnd(t, i, term) - 1) IN SubSeq(t, span[1], span[2])

Broken == <<[span |-> <<0, 0>>, term |-> <<>>]>>

\* The spans of the statements, in order, each with its terminator; or Broken when the
\* text is rejected.
RECURSIVE SplitFrom(_, _, _)
SplitFrom(t, start, term) ==
    LET i == Trivia(t, start)
        e == BodyEnd(t, i, term)
        span == Trim(t, i, e - 1)
    IN
    IF i = 0 THEN Broken
    ELSE IF i > Len(t) THEN <<>>
    ELSE IF IsSetTerm(t, i)
    THEN IF TermEnd(t, i, term) = 0 \/ NewTerm(t, i, term) = <<>> THEN Broken
         ELSE SplitFrom(t, TermEnd(t, i, term) + Len(term), NewTerm(t, i, term))
    ELSE IF e = 0 THEN Broken
    ELSE LET rest == SplitFrom(t, e + Len(term), term) IN
         IF rest = Broken THEN Broken
         ELSE IF span[1] > span[2] THEN rest ELSE <<[span |-> span, term |-> term]>> \o rest

Split(t, term) == SplitFrom(t, 1, term)
Text(t, stmt) == SubSeq(t, stmt.span[1], stmt.span[2])

-----------------------------------------------------------------------------
(* rewriteNamedParams() *)

\* skipQuoted()
SkipQuoted(t, i) ==
    LET past[j \in i + 1 .. Len(t) + 1] ==
            IF j > Len(t) THEN j ELSE IF t[j] # t[i] THEN past[j + 1] ELSE IF At(t, j + 1) = t[i] THEN past[j + 2] ELSE j + 1
    IN past[i + 1]

\* Past the first a with b behind it; past the text when there is none.
Past(t, i, a, b) == FirstOf({j \in i .. Len(t) : t[j] = a /\ At(t, j + 1) = b}, Len(t) + 1) + 2

SlipSkipQLiteral(t, i) == IF i + 2 > Len(t) THEN i + 2 ELSE Past(t, i + 3, t[i + 2], "'")
\* skipQLiteral()
SkipQLiteral(t, i) == IF i + 2 > Len(t) THEN i + 2 ELSE Past(t, i + 3, Closer(t[i + 2]), "'")

\* Literals and comments are left as they are; one that does not end takes the rest.
NamedStep(t, i) ==
    CASE t[i] = "-" /\ At(t, i + 1) = "-" -> FirstOf({j \in i + 2 .. Len(t) : t[j] \in EndsLine}, Len(t) + 1)
      [] t[i] = "/" /\ At(t, i + 1) = "*" -> Past(t, i + 2, "*", "/")
      [] t[i] = "'" -> SkipQuoted(t, i)
      [] t[i] = "q" /\ At(t, i + 1) = "'" -> SkipQLiteral(t, i)
      [] OTHER -> i + 1

\* The positions of the @ that become a question mark; the whole name goes with it.
NameEnd(t, i) == FirstOf({j \in i .. Len(t) : t[j] \notin Letters}, Len(t) + 1)
Markers(t) ==
    LET from[i \in 1 .. Len(t) + 3] ==
            IF i > Len(t) THEN {}
            ELSE IF t[i] = "@" /\ At(t, i + 1) \in Letters THEN {i} \cup from[NameEnd(t, i + 1)]
            ELSE from[NamedStep(t, i)]
    IN from[1]

-----------------------------------------------------------------------------
(* classifyClientCommand(): words *)

Word(ws, i) == IF i \in DOMAIN ws THEN ws[i] ELSE EOT
Server == [op |-> "server"]
Unsupported == [op |-> "unsupported"]
NoOptions == [readOnly |-> "unset", isolation |-> "unset", wait |-> "unset", autoCommit |-> FALSE]

\* The clauses of SET TRANSACTION, one after the other, a later one over an earlier.
RECURSIVE Clauses(_, _, _)
Clauses(ws, i, opts) ==
    LET w == Word(ws, i)
        next == Word(ws, i + 1)
        go(n, o) == Clauses(ws, i + n, o)
    IN
    CASE w = EOT -> [op |-> "setTransaction", options |-> opts]
      [] w = "read" /\ next \in {"write", "only"} -> go(2, [opts EXCEPT !.readOnly = next])
      [] w = "read" /\ next \in {"committed", "uncommitted"} -> go(2, [opts EXCEPT !.isolation = "noRecVersion"])
      [] w = "wait" -> go(1, [opts EXCEPT !.wait = "wait"])
      [] w = "no" /\ next = "wait" -> go(2, [opts EXCEPT !.wait = "no"])
      [] w = "no" /\ next \in {"version", "record_version"} -> go(2, [opts EXCEPT !.isolation = "noRecVersion"])
      [] w \in {"version", "record_version"} -> go(1, [opts EXCEPT !.isolation = "readCommitted"])
      [] w = "isolation" -> go(IF next = "level" THEN 2 ELSE 1, opts)
      [] w = "snapshot" /\ next = "table" ->
            go(IF Word(ws, i + 2) = "stability" THEN 3 ELSE 2, [opts EXCEPT !.isolation = "serializable"])
      [] w = "snapshot" /\ next # "at" /\ next # "table" -> go(1, [opts EXCEPT !.isolation = "snapshot"])
      [] w = "lock" /\ next = "timeout" /\ Word(ws, i + 2) = "5" -> go(3, [opts EXCEPT !.wait = "5"])
      [] w = "auto" /\ next = "commit" -> go(2, [opts EXCEPT !.autoCommit = TRUE])
      [] OTHER -> Unsupported

SlipLeftOver(ws, i) == Server
\* Words nobody expects after COMMIT or ROLLBACK.
LeftOver(ws, i) == Unsupported

Finishing(ws) ==
    LET i == IF Word(ws, 2) = "work" THEN 3 ELSE 2
        retain == Word(ws, i) = "retain"
        last == IF ~retain THEN i ELSE IF Word(ws, i + 1) = "snapshot" THEN i + 2 ELSE i + 1
    IN
    IF ws[1] = "rollback" /\ Word(ws, i) = "to" THEN Server
    ELSE IF last <= Len(ws) THEN LeftOver(ws, last)
    ELSE [op |-> ws[1], retain |-> retain]

\* The command a statement is, or Server when it is for the server.
ClientCommand(ws) ==
    CASE Word(ws, 1) = "reconnect" /\ Len(ws) = 1 -> [op |-> "reconnect"]
      [] Word(ws, 1) \in {"commit", "rollback"} -> Finishing(ws)
      [] Word(ws, 1) = "set" /\ Word(ws, 2) = "transaction" -> Clauses(ws, 3, NoOptions)
      [] Word(ws, 1) = "set" /\ Word(ws, 2) \in {"autoddl", "auto"} ->
            IF Len(ws) = 3 /\ ws[3] \in {"on", "off"} THEN [op |-> "setAutoDdl", on |-> ws[3] = "on"] ELSE Unsupported
      [] OTHER -> Server

\* classifyServerStatement()
Kind(ws) ==
    IF ClientCommand(ws) # Server THEN "client"
    ELSE IF Word(ws, 1) \in {"create", "alter", "drop", "recreate", "comment", "grant", "revoke", "declare"}
            \/ (Word(ws, 1) = "set" /\ Word(ws, 2) = "generator") THEN "ddl"
    ELSE IF Word(ws, 1) \in {"insert", "update", "delete", "merge"}
            \/ (Word(ws, 1) = "execute" /\ Word(ws, 2) = "procedure") THEN "dml"
    ELSE "other"

-----------------------------------------------------------------------------
(* expandStarSql(). A select item is a star, the star of a table, one of its      *)
(* columns, or an expression; an output is a table (or none) and a field.         *)

Tables == {"a", "b"}
Fields(table) == IF table = "a" THEN <<"x", "y">> ELSE <<"x", "z">>
Column(table, field) == [table |-> table, field |-> field]
ColumnsOf(table) == [k \in DOMAIN Fields(table) |-> Column(table, Fields(table)[k])]
AllColumns == ColumnsOf("a") \o ColumnsOf("b")

Item(kind, table, field) == [kind |-> kind, table |-> table, field |-> field]
IsStar(item) == item.kind \in {"star", "tableStar"}

\* What the server describes for a select list.
Describe(items) ==
    LET of(item) == CASE item.kind = "star" -> AllColumns
                      [] item.kind = "tableStar" -> ColumnsOf(item.table)
                      [] OTHER -> <<Column(item.table, item.field)>>
    IN FlattenSeq([k \in DOMAIN items |-> of(items[k])])

SlipBareRun(outputs, items) == Len(outputs) - Len(items)
\* How many outputs a bare star stands for: all the other items leave.
BareRun(outputs, items) == Len(outputs) - (Len(items) - 1)

\* How many outputs the star of a table takes: the run of its columns, but leaving
\* one for each item to come.
TableRun(outputs, items, idx, cursor) ==
    LET end == FirstOf({k \in cursor .. Len(outputs) : outputs[k].table # items[idx].table}, Len(outputs) + 1)
        remaining == Len(items) - idx
    IN (IF Len(outputs) - (end - 1) < remaining THEN Len(outputs) - remaining + 1 ELSE end) - cursor

\* The outputs each item consumes, in order; Failed when they do not fit.
Failed == << << Column("failed", "failed") >> >>
RECURSIVE Runs(_, _, _, _)
Runs(outputs, items, idx, cursor) ==
    LET item == items[idx]
        run == CASE item.kind = "star" -> BareRun(outputs, items)
                 [] item.kind = "tableStar" -> IF cursor > Len(outputs) \/ outputs[cursor].table # item.table THEN 0
                                               ELSE TableRun(outputs, items, idx, cursor)
                 [] OTHER -> 1
    IN
    IF idx > Len(items) THEN IF cursor = Len(outputs) + 1 THEN <<>> ELSE Failed
    ELSE IF run < 1 THEN Failed
    ELSE LET rest == Runs(outputs, items, idx + 1, cursor + run) IN
         IF rest = Failed THEN Failed ELSE <<SubSeq(outputs, cursor, cursor + run - 1)>> \o rest

\* `only` first, then `exclude`, each a column of a table or of any.
NamedIn(set, column) == {Column("any", column.field), column} \cap set # {}
Kept(column, only, exclude) == (only = {} \/ NamedIn(only, column)) /\ ~NamedIn(exclude, column)

SlipRowKept(column, only, exclude) ==
    LET listed(set) == Column("any", column.field) \in set
    IN (only = {} \/ listed(only)) /\ ~listed(exclude)
\* The same filter when rows are decoded (RowMapper), by the names of the outputs.
RowKept(column, only, exclude) ==
    LET listed(set) == Column("any", column.field) \in set \/ (column.table # "" /\ column \in set)
    IN (only = {} \/ listed(only)) /\ ~listed(exclude)
Shaped(columns, only, exclude) == SelectSeq(columns, LAMBDA c : RowKept(c, only, exclude))

\* Stars that may not be mixed: a bare one with any other.
Mixed(items) == Cardinality({k \in DOMAIN items : IsStar(items[k])}) > 1 /\ \E k \in DOMAIN items : items[k].kind = "star"

\* The list with its stars written out, or Refused.
Refused == <<Item("refused", "", "")>>
Expand(items, only, exclude) ==
    LET runs == Runs(Describe(items), items, 1, 1)
        kept(k) == SelectSeq(runs[k], LAMBDA c : Kept(c, only, exclude))
        written(k) == IF ~IsStar(items[k]) THEN <<items[k]>>
                      ELSE [j \in DOMAIN kept(k) |->
                            Item("column", IF items[k].kind = "star" THEN kept(k)[j].table ELSE items[k].table, kept(k)[j].field)]
    IN
    IF Mixed(items) \/ runs = Failed \/ \E k \in DOMAIN items : IsStar(items[k]) /\ kept(k) = <<>> THEN Refused
    ELSE FlattenSeq([k \in DOMAIN items |-> written(k)])
=============================================================================
