------------------------------- MODULE Codecs -------------------------------
(***************************************************************************)
(* What the driver does to rows and bytes: the queue of received bytes,   *)
(* and the row messages and their BLR in the three forms the driver uses,  *)
(* columns read, parameters written and batches. A value is known by its   *)
(* type and its size; of its bytes only that they are its own.             *)
(*                                                                         *)
(* The definitions named Slip... are slips in what they precede.           *)
(***************************************************************************)
EXTENDS Integers, Sequences, FiniteSetsExt, SequencesExt

-----------------------------------------------------------------------------
(* ByteQueue: the chunks received and how much of the first is taken. *)

Queue(chunks, head) == [chunks |-> chunks, head |-> head]
Push(q, chunk) == IF chunk = <<>> THEN q ELSE Queue(Append(q.chunks, chunk), q.head)

SlipFromFirst(q, n) ==
    LET first == Head(q.chunks)
        to == Min({Len(first), q.head + n})
    IN [bytes |-> SubSeq(first, q.head + 1, to),
        queue |-> IF to = Len(first) THEN Queue(Tail(q.chunks), 0) ELSE Queue(q.chunks, n)]

\* At most n bytes of the first chunk, and the queue without them.
FromFirst(q, n) ==
    LET first == Head(q.chunks)
        to == Min({Len(first), q.head + n})
    IN [bytes |-> SubSeq(first, q.head + 1, to),
        queue |-> IF to = Len(first) THEN Queue(Tail(q.chunks), 0) ELSE Queue(q.chunks, to)]

RECURSIVE Take(_, _)
Take(q, n) ==
    LET part == FromFirst(q, n) IN
    IF Len(part.bytes) = n THEN part
    ELSE LET rest == Take(part.queue, n - Len(part.bytes)) IN [rest EXCEPT !.bytes = part.bytes \o @]

-----------------------------------------------------------------------------
(* Row messages: a bitmap of the nulls, then the values that are not null. *)

\* opaqueFixed(): n bytes and what fills them up to a multiple of four.
Opaque(n) == ((n + 3) \div 4) * 4

Bit(byte, k) == (byte \div 2^k) % 2

\* A bit for each null, eight to a byte, the first the lowest.
Bitmap(nulls) ==
    [b \in 1 .. (Len(nulls) + 7) \div 8 |->
        FoldSet(LAMBDA i, sum : sum + 2^((i - 1) % 8), 0,
                {i \in DOMAIN nulls : (i - 1) \div 8 = b - 1 /\ nulls[i]})]

Fill(bytes, with) == bytes \o [k \in 1 .. Opaque(Len(bytes)) - Len(bytes) |-> with]

\* The i-th value's own n bytes.
Bytes(i, n) == [k \in 1 .. n |-> -i]
Message(bitmap, nulls, widths) ==
    bitmap \o FlattenSeq([i \in DOMAIN widths |-> IF nulls[i] THEN <<>> ELSE Bytes(i, widths[i])])

\* readRow(): the bytes taken for each value, none for a null, and how many in all.
ReadRow(bytes, widths) ==
    LET isNull(i) == Bit(bytes[(i - 1) \div 8 + 1], (i - 1) % 8) = 1
        start[i \in 1 .. Len(widths) + 1] ==
            IF i = 1 THEN Opaque((Len(widths) + 7) \div 8) + 1
            ELSE start[i - 1] + (IF isNull(i - 1) THEN 0 ELSE widths[i - 1])
    IN [cells |-> [i \in DOMAIN widths |-> SubSeq(bytes, start[i], start[i + 1] - 1)],
        taken |-> start[Len(widths) + 1] - 1]

\* A reader of `widths` takes from the message what its writer of `nulls` meant, all of it.
Reads(bytes, nulls, widths) ==
    LET row == ReadRow(bytes, widths) IN
    /\ row.taken = Len(bytes)
    /\ \A i \in DOMAIN widths : row.cells[i] = IF nulls[i] THEN <<>> ELSE Bytes(i, widths[i])

\* A column as described, and the length of its value.
Cell(type, length, len, null) == [type |-> type, length |-> length, len |-> len, null |-> null]
Nulls(cells) == [i \in DOMAIN cells |-> cells[i].null]
BlrOf(blr, length) == [op |-> blr, length |-> length]

Zoned == {"TIMESTAMP_TZ", "TIMESTAMP_TZ_EX", "TIME_TZ", "TIME_TZ_EX"}
BlobTypes == {"BLOB", "QUAD", "ARRAY"}
\* Each type with a BLR of its own; the others are transferred as another type is.
Types == {"TEXT", "VARYING", "SHORT", "LONG", "INT64", "INT128", "FLOAT", "DOUBLE", "D_FLOAT", "DATE", "TIME",
          "TIMESTAMP", "DEC16", "DEC34", "BOOLEAN"} \cup Zoned \cup BlobTypes

\* buildOutputBlr()
OutputBlr(c) ==
    CASE c.type \in {"TEXT", "VARYING"} -> BlrOf(c.type, c.length)
      [] c.type = "D_FLOAT" -> BlrOf("DOUBLE", 0)
      [] c.type \in BlobTypes -> BlrOf("QUAD", 0)
      [] OTHER -> BlrOf(c.type, 0)

SlipReaderWidth(c) ==
    CASE c.type = "TEXT" -> Opaque(c.length)
      [] c.type = "VARYING" -> 4 + Opaque(c.len)
      [] c.type \in {"SHORT", "LONG", "FLOAT", "BOOLEAN", "DATE", "TIME"} -> 4
      [] c.type \in {"INT64", "DOUBLE", "D_FLOAT", "TIMESTAMP", "TIME_TZ", "TIME_TZ_EX", "DEC16"} \cup BlobTypes -> 8
      [] c.type \in {"TIMESTAMP_TZ", "TIMESTAMP_TZ_EX"} -> 12
      [] c.type \in {"INT128", "DEC34"} -> 16

\* makeColumnReader(): how many bytes the reader of a column takes.
ReaderWidth(c) ==
    CASE c.type = "TEXT" -> Opaque(c.length)
      [] c.type = "VARYING" -> 4 + Opaque(c.len)
      [] c.type \in {"SHORT", "LONG", "FLOAT", "BOOLEAN", "DATE", "TIME"} -> 4
      [] c.type \in {"INT64", "DOUBLE", "D_FLOAT", "TIMESTAMP", "TIME_TZ", "DEC16"} \cup BlobTypes -> 8
      [] c.type \in {"TIMESTAMP_TZ", "TIME_TZ_EX"} -> 12
      [] c.type \in {"INT128", "DEC34", "TIMESTAMP_TZ_EX"} -> 16

\* What the server transfers for a field of this BLR: XDR of its own representation.
Transferred(blr, len) ==
    CASE blr.op = "TEXT" -> ((blr.length + 3) \div 4) * 4
      [] blr.op = "VARYING" -> 4 + ((len + 3) \div 4) * 4
      [] blr.op \in {"SHORT", "LONG", "FLOAT", "BOOLEAN", "DATE", "TIME"} -> 4
      [] blr.op \in {"INT64", "DOUBLE", "TIMESTAMP", "QUAD", "BLOB2", "DEC16"} -> 8
      [] blr.op \in {"INT128", "DEC34"} -> 16
      [] blr.op = "TIME_TZ" -> 4 + 4
      [] blr.op = "TIMESTAMP_TZ" -> 8 + 4
      [] blr.op = "TIME_TZ_EX" -> 4 + 4 + 4
      [] blr.op = "TIMESTAMP_TZ_EX" -> 8 + 4 + 4

ServerWidths(blrs, lens) == [i \in DOMAIN blrs |-> Transferred(blrs[i], lens[i])]

-----------------------------------------------------------------------------
(* Parameters: a value is prepared for its column, then encoded by what it is. *)

Value(kind, len) == [kind |-> kind, len |-> len]
Numbers == {"int", "safe", "double", "bigint", "huge"}
Strings == {"string", "digits"}
Unbindable == Value("refused", 0)

\* prepareParams()
Prepared(v, type) ==
    CASE v.kind = "null" -> v
      [] type = "BLOB" /\ v.kind \in Strings \cup {"buffer", "stream"} -> Value("blobRef", 0)
      [] v.kind = "lazyBlob" \/ (v.kind = "stream" /\ type # "BLOB") -> Unbindable
      [] type \in {"DEC16", "DEC34"} /\ v.kind \in Strings \cup Numbers -> Value(type, 0)
      [] type = "INT128" /\ v.kind = "digits" -> Value(IF v.len > 18 THEN "huge" ELSE "bigint", 0)
      [] OTHER -> v

MaxParam == 65535
SlipTooLong(v) == v.kind \in Strings \cup {"buffer"} /\ v.len > MaxParam + 1
TooLong(v) == v.kind \in Strings \cup {"buffer"} /\ v.len > MaxParam
WordOf(n) == n % 65536

\* encodeParams(): the field of the BLR, and the bytes in the message.
Field(v) ==
    CASE v.kind \in Strings \cup {"buffer"} -> [blr |-> BlrOf("TEXT", WordOf(v.len)), width |-> Opaque(v.len)]
      [] v.kind = "null" -> [blr |-> BlrOf("TEXT", 1), width |-> 0]
      [] v.kind = "boolean" -> [blr |-> BlrOf("TEXT", v.len), width |-> Opaque(v.len)]
      [] v.kind = "int" -> [blr |-> BlrOf("LONG", 0), width |-> 4]
      [] v.kind \in {"safe", "bigint"} -> [blr |-> BlrOf("INT64", 0), width |-> 8]
      [] v.kind = "double" -> [blr |-> BlrOf("DOUBLE", 0), width |-> 8]
      [] v.kind = "huge" -> [blr |-> BlrOf("INT128", 0), width |-> 16]
      [] v.kind = "zoned" -> [blr |-> BlrOf("TIMESTAMP_TZ", 0), width |-> 12]
      [] v.kind = "date" -> [blr |-> BlrOf("TIMESTAMP", 0), width |-> 8]
      [] v.kind = "blobRef" -> [blr |-> BlrOf("QUAD", 0), width |-> 8]
      [] v.kind = "DEC16" -> [blr |-> BlrOf("DEC16", 0), width |-> 8]
      [] v.kind = "DEC34" -> [blr |-> BlrOf("DEC34", 0), width |-> 16]

EncodeParams(values) ==
    LET nulls == [i \in DOMAIN values |-> values[i].kind = "null"]
        fields == [i \in DOMAIN values |-> Field(values[i])]
    IN [blrs |-> [i \in DOMAIN values |-> fields[i].blr],
        bytes |-> Message(Fill(Bitmap(nulls), 255), nulls, [i \in DOMAIN values |-> fields[i].width])]

-----------------------------------------------------------------------------
(* Batches: one message format for all rows, built from the described parameters. *)

SlipAligned(n, alignment) == n
\* fbAlign()
Aligned(n, alignment) == ((n + alignment - 1) \div alignment) * alignment

\* The BLR of a described parameter, what it adds to the engine's layout, and its width in a row.
BatchField(c) ==
    LET as(op, length, size, alignment, width) ==
            [blr |-> BlrOf(op, length), size |-> size, alignment |-> alignment, width |-> width]
    IN
    CASE c.type \in {"TEXT", "VARYING", "NULL"} ->
            LET cap == IF c.type = "NULL" THEN 0 ELSE c.length IN as("VARYING", cap, cap + 2, 2, 4 + Opaque(c.len))
      [] c.type \in {"SHORT", "LONG"} -> as("LONG", 0, 4, 4, 4)
      [] c.type = "INT64" -> as("INT64", 0, 8, 8, 8)
      [] c.type = "INT128" -> as("INT128", 0, 16, 8, 16)
      [] c.type = "FLOAT" -> as("FLOAT", 0, 4, 4, 4)
      [] c.type \in {"DOUBLE", "D_FLOAT"} -> as("DOUBLE", 0, 8, 8, 8)
      [] c.type \in {"DATE", "TIME", "TIMESTAMP"} -> as("TIMESTAMP", 0, 8, 4, 8)
      [] c.type \in {"TIMESTAMP_TZ", "TIMESTAMP_TZ_EX"} -> as("TIMESTAMP_TZ", 0, 12, 4, 12)
      [] c.type \in {"TIME_TZ", "TIME_TZ_EX"} -> as("TIME_TZ", 0, 8, 4, 8)
      [] c.type = "BLOB" -> as("BLOB2", 0, 8, 4, 8)
      [] c.type \in {"QUAD", "ARRAY"} -> as("QUAD", 0, 8, 4, 8)
      [] c.type = "DEC16" -> as("DEC16", 0, 8, 8, 8)
      [] c.type = "DEC34" -> as("DEC34", 0, 16, 8, 16)
      [] c.type = "BOOLEAN" -> as("BOOLEAN", 0, 1, 1, Opaque(1))

\* addField(), one field after the other, each with its null indicator behind it.
MsgLen(cells) ==
    LET added(len, f) == Aligned(Aligned(len, f.alignment) + f.size, 2) + 2
    IN FoldLeft(added, 0, [i \in DOMAIN cells |-> BatchField(cells[i])])

\* A text must fit its column, the others are transferred at their size.
Fits(cells) == \A i \in DOMAIN cells : cells[i].null \/ cells[i].len <= BatchField(cells[i]).blr.length
                                           \/ BatchField(cells[i]).blr.op # "VARYING"

\* encodeBatchRow()
BatchRow(cells) ==
    Message(Fill(Bitmap(Nulls(cells)), 0), Nulls(cells), [i \in DOMAIN cells |-> BatchField(cells[i]).width])

\* The engine's layout of a message: its fields and null indicators, each a field at its own alignment.
EngineField(blr) ==
    CASE blr.op = "VARYING" -> <<blr.length + 2, 2>>
      [] blr.op = "SHORT" -> <<2, 2>>
      [] blr.op \in {"LONG", "FLOAT"} -> <<4, 4>>
      [] blr.op \in {"INT64", "DOUBLE", "DEC16"} -> <<8, 8>>
      [] blr.op \in {"INT128", "DEC34"} -> <<16, 8>>
      [] blr.op \in {"TIMESTAMP", "QUAD", "BLOB2", "TIME_TZ"} -> <<8, 4>>
      [] blr.op = "TIMESTAMP_TZ" -> <<12, 4>>
      [] blr.op = "BOOLEAN" -> <<1, 1>>
EngineLength(blrs) ==
    LET placed(len, f) == Min({at \in len .. len + 7 : at % f[2] = 0}) + f[1]
    IN FoldLeft(LAMBDA len, blr : placed(placed(len, EngineField(blr)), <<2, 2>>), 0, blrs)
=============================================================================
