---------------------------- MODULE SqlBuilders ----------------------------
(***************************************************************************)
(* The statement builders (utils/SqlBuilderSupport.h, SqlQuery.h,          *)
(* SqlUpdate.h, SqlInsert.h, SqlDelete.h).  A builder collects conditions  *)
(* with ? holes in one list and the values for them in another, in         *)
(* whatever order the caller makes the calls; a statement is the text with *)
(* its holes and the values bound to them by position.  A batch splits     *)
(* many rows into several statements.                                      *)
(*                                                                         *)
(* Values are numbered in the order they are given.  Of a text only what   *)
(* decides where its holes are is kept.  A call that throws leaves the     *)
(* builder as it was.  Names are valid identifiers.                        *)
(***************************************************************************)
EXTENDS Integers, Sequences, FiniteSets, SequencesExt

CONSTANTS
    Columns, RowKeys,
    Conditions,     \* texts: sequences of "?", "'", "\\", "/*", "*/" and others
    RowShapes,      \* the columns a row of a batch gives, in order, with repetitions
    BatchSizes,
    MaxCalls,       \* bound: calls on a builder
    MaxRows         \* bound: rows of a batch

VARIABLES
    kind,           \* "query", "update", "insert", "delete", "updates", "inserts", "deletes"
    builder,        \* a single statement
    calls, given,   \* calls made and values given so far
    statement,      \* <<>>, or the statement that was executed last
    job,            \* a batch: its rows as given, the rest of them, its columns and size
    table,          \* what the updates of a batch have made of the rows with these keys
    inserted,       \* the rows a batch has inserted
    deleted         \* the keys a batch has deleted

sqlVars == <<kind, builder, calls, given, statement, job, table, inserted, deleted>>

Single == {"query", "update", "insert", "delete"}
Batches == {"updates", "inserts", "deletes"}
NewBuilder == [where |-> <<>>, whereValues |-> <<>>, having |-> <<>>, havingValues |-> <<>>,
               sets |-> <<>>, allowAll |-> FALSE]
NoJob == [rows |-> <<>>, rest |-> <<>>, columns |-> <<>>, size |-> 0]
SqlNull == 0

SqlInit ==
    /\ kind \in Single \cup Batches
    /\ builder = NewBuilder /\ calls = 0 /\ given = 0 /\ statement = <<>>
    /\ job = NoJob
    /\ table = [k \in RowKeys |-> [f \in Columns |-> SqlNull]]
    /\ inserted = <<>> /\ deleted = {}

-----------------------------------------------------------------------------
(* The holes of a text: a ? within quotes or a comment is none *)

ScanState(state, c) ==
    IF state = "escaped" THEN "quote"
    ELSE IF state = "quote" /\ c = "\\" THEN "escaped"
    ELSE IF state = "quote" /\ c = "'" THEN "normal"
    ELSE IF state = "comment" /\ c = "*/" THEN "normal"
    ELSE IF state = "normal" /\ c = "'" THEN "quote"
    ELSE IF state = "normal" /\ c = "/*" THEN "comment"
    ELSE state

ScanStep(scan, c) ==
    [state |-> ScanState(scan.state, c),
     count |-> IF scan.state = "normal" /\ c = "?" THEN scan.count + 1 ELSE scan.count]

\* The scan of a text, character by character.
Scanned(text) ==
    LET scan[n \in 0 .. Len(text)] ==
            IF n = 0 THEN [state |-> "normal", count |-> 0]
            ELSE ScanStep(scan[n - 1], text[n])
    IN  scan[Len(text)]

PlaceholderCount(text) == Scanned(text).count

\* What a caller writes ends outside of quotes and comments, and is not the condition
\* that a builder writes itself for every row.
ASSUME SqlAssumption ==
    /\ \A text \in Conditions : /\ text \in Seq(ToSet(text)) /\ text # <<"1 = 1">>
                                /\ Scanned(text).state = "normal"
    /\ RowShapes \subseteq Seq(Columns) /\ BatchSizes \subseteq Nat \ {0}
    /\ MaxCalls \in Nat /\ MaxRows \in Nat

-----------------------------------------------------------------------------
(* One statement: the calls on a builder *)

FreshValues(n) == [i \in 1 .. n |-> given + i]
Clause(text, values) == [text |-> text, values |-> values]
HolesText(n) == [i \in 1 .. n |-> "?"]
EveryRow == Clause(<<"1 = 1">>, <<>>)

SqlCall(kinds, n) ==
    /\ kind \in kinds /\ calls < MaxCalls
    /\ calls' = calls + 1 /\ given' = given + n
    /\ UNCHANGED <<kind, job, table, inserted, deleted>>

AddWhere(clause) ==
    /\ builder' = [builder EXCEPT !.where = Append(@, clause),
                                  !.whereValues = @ \o clause.values]
    /\ UNCHANGED statement

\* where, orWhere and what is made of them; refused unless a value comes for each hole.
WhereText(text) ==
    LET n == PlaceholderCount(text)
    IN  SqlCall({"query", "update", "delete"}, n) /\ AddWhere(Clause(text, FreshValues(n)))

\* whereIn, orWhereIn, whereNotIn of n values.
WhereIn(n) ==
    /\ SqlCall({"query", "update", "delete"}, n)
    /\ AddWhere(IF n = 0 THEN Clause(<<"1 = 0">>, <<>>) ELSE Clause(HolesText(n), FreshValues(n)))

\* whereNotIn of no values is every row; only a query may say so.
WhereNotInNothing == SqlCall({"query"}, 0) /\ AddWhere(EveryRow)

HavingAmongWhere(text) ==       \* mutant: one list of values for both
    LET n == PlaceholderCount(text)
    IN  /\ SqlCall({"query"}, n)
        /\ builder' = [builder EXCEPT !.having = Append(@, Clause(text, FreshValues(n))),
                                      !.whereValues = @ \o FreshValues(n)]
        /\ UNCHANGED statement

Having(text) ==
    LET n == PlaceholderCount(text)
    IN  /\ SqlCall({"query"}, n)
        /\ builder' = [builder EXCEPT !.having = Append(@, Clause(text, FreshValues(n))),
                                      !.havingValues = @ \o FreshValues(n)]
        /\ UNCHANGED statement

\* The place of a column among records with a field of that name, 0 if it has none.
PlaceOf(pairs, f) == SelectInSeq(pairs, LAMBDA p : p.field = f)

\* A column that is set again keeps its place.
SetField(pairs, new) ==
    LET n == PlaceOf(pairs, new.field)
    IN  IF n = 0 THEN Append(pairs, new) ELSE [pairs EXCEPT ![n] = new]

\* set, increment and decrement of an update; value of an insert.
SetColumn(f) ==
    /\ SqlCall({"update", "insert"}, 1)
    /\ builder' = [builder EXCEPT !.sets =
            SetField(@, [field |-> f, text |-> HolesText(1), values |-> FreshValues(1)])]
    /\ UNCHANGED statement

AllowFullTableDelete ==
    /\ SqlCall({"delete"}, 0)
    /\ builder' = [builder EXCEPT !.allowAll = TRUE]
    /\ UNCHANGED statement

-----------------------------------------------------------------------------
(* One statement: toSql and exec *)

TextOf(clauses) == FlattenSeq([i \in DOMAIN clauses |-> clauses[i].text])
ValuesOf(clauses) == FlattenSeq([i \in DOMAIN clauses |-> clauses[i].values])

Executes(clauses, bound) ==
    /\ statement' = <<[clauses |-> clauses, bound |-> bound,
                       where |-> builder.where, allowed |-> builder.allowAll]>>
    /\ UNCHANGED builder

\* The text, the values.
QueryClauses == builder.where \o builder.having
QueryValues == builder.whereValues \o builder.havingValues

\* list, first, pluck, value, exists and count: the same conditions.
ExecQuery == SqlCall({"query"}, 0) /\ Executes(QueryClauses, QueryValues)

ExecUpdate ==
    /\ builder.sets # <<>> /\ builder.where # <<>>
    /\ SqlCall({"update"}, 0)
    /\ Executes(builder.sets \o builder.where, ValuesOf(builder.sets) \o builder.whereValues)

ExecInsert ==
    /\ builder.sets # <<>>
    /\ SqlCall({"insert"}, 0)
    /\ Executes(<<Clause(HolesText(Len(builder.sets)), ValuesOf(builder.sets))>>,
                ValuesOf(builder.sets))

MayDelete == builder.where # <<>> \/ builder.allowAll
ExecDelete ==
    /\ MayDelete
    /\ SqlCall({"delete"}, 0)
    /\ Executes(builder.where, builder.whereValues)

SoftDelete ==
    /\ MayDelete
    /\ SqlCall({"delete"}, 1)
    /\ Executes(<<Clause(HolesText(1), FreshValues(1))>> \o builder.where,
                FreshValues(1) \o builder.whereValues)

-----------------------------------------------------------------------------
(* Batches *)

SetFields(pairs, news) ==
    LET done[n \in 0 .. Len(news)] ==
            IF n = 0 THEN pairs ELSE SetField(done[n - 1], news[n])
    IN  done[Len(news)]

\* A row without repeated columns; rows that say nothing are dropped.
NormalRow(row) == [row EXCEPT !.values = SetFields(<<>>, @)]
KeepRow(kept, row) == IF row.values = <<>> THEN kept ELSE Append(kept, row)
NormalizeRows(rows) ==
    LET kept[n \in 0 .. Len(rows)] ==
            IF n = 0 THEN <<>> ELSE KeepRow(kept[n - 1], NormalRow(rows[n]))
    IN  kept[Len(rows)]

\* A key given again is merged into its first row, later values winning.
MergeRow(done, row) ==
    LET n == SelectInSeq(done, LAMBDA r : r.key = row.key)
    IN  IF n = 0 THEN Append(done, row)
        ELSE [done EXCEPT ![n].values = SetFields(@, row.values)]
MergeRows(rows) ==
    LET unique[n \in 0 .. Len(rows)] ==
            IF n = 0 THEN <<>> ELSE MergeRow(unique[n - 1], rows[n])
    IN  unique[Len(rows)]
NormalizeEachRow(rows) == NormalizeRows(rows)           \* mutant: keys may repeat
NormalizeBatchRows(rows) == MergeRows(NormalizeRows(rows))

\* All columns, in the order they are first met.
FieldsOf(row) == [j \in DOMAIN row.values |-> row.values[j].field]
MeetField(met, f) == IF Contains(met, f) THEN met ELSE Append(met, f)
Distinct(names) ==
    LET met[n \in 0 .. Len(names)] == IF n = 0 THEN <<>> ELSE MeetField(met[n - 1], names[n])
    IN  met[Len(names)]
CollectFields(rows) == Distinct(FlattenSeq([i \in DOMAIN rows |-> FieldsOf(rows[i])]))

BatchRows(rows) == IF kind = "updates" THEN NormalizeBatchRows(rows)
                   ELSE IF kind = "inserts" THEN NormalizeRows(rows) ELSE rows

\* A batch without a row that says anything is refused, or has nothing to delete.
BatchBegins(rows, size) ==
    LET normal == BatchRows(rows)
    IN  /\ normal # <<>>
        /\ job' = [rows |-> rows, rest |-> normal, columns |-> CollectFields(normal),
                   size |-> size]
        /\ UNCHANGED <<kind, builder, calls, given, statement, table, inserted, deleted>>

Chunk == SubSeq(job.rest, 1, IF job.size < Len(job.rest) THEN job.size ELSE Len(job.rest))
ChunkGoes(batch) ==
    /\ kind = batch /\ Chunk # <<>>
    /\ job' = [job EXCEPT !.rest = SubSeq(@, Len(Chunk) + 1, Len(@))]
    /\ UNCHANGED <<kind, builder, calls, given, statement>>

\* set f = case key when .. then .. else f end, .. where key in (..): the first case counts.
UpdateChunk ==
    LET Case(k, f) == SelectInSeq(Chunk, LAMBDA r : r.key = k /\ PlaceOf(r.values, f) # 0)
        Then(row, f) == row.values[PlaceOf(row.values, f)].value
    IN  /\ ChunkGoes("updates")
        /\ table' = [k \in RowKeys |-> [f \in Columns |->
                        IF Case(k, f) = 0 THEN table[k][f] ELSE Then(Chunk[Case(k, f)], f)]]
        /\ UNCHANGED <<inserted, deleted>>

\* (columns) values (?, ..), ..: the parameters row by row, NULL for what a row lacks.
InsertChunk ==
    LET width == Len(job.columns)
        Parameter(row, f) == IF PlaceOf(row.values, f) = 0 THEN SqlNull
                             ELSE row.values[PlaceOf(row.values, f)].value
        parameters == FlattenSeq([i \in DOMAIN Chunk |->
                            [j \in 1 .. width |-> Parameter(Chunk[i], job.columns[j])]])
    IN  /\ ChunkGoes("inserts")
        /\ inserted' = inserted \o [i \in DOMAIN Chunk |-> [f \in Columns |->
                LET j == SelectInSeq(job.columns, LAMBDA c : c = f)
                IN  IF j = 0 THEN SqlNull ELSE parameters[(i - 1) * width + j]]]
        /\ UNCHANGED <<table, deleted>>

DeleteChunk ==
    /\ ChunkGoes("deletes")
    /\ deleted' = deleted \cup {row.key : row \in ToSet(Chunk)}
    /\ UNCHANGED <<table, inserted>>

\* A statement fails: the exception leaves the rest of the batch undone.
ChunkFails ==
    /\ Chunk # <<>>
    /\ job' = [job EXCEPT !.size = 0]
    /\ UNCHANGED <<kind, builder, calls, given, statement, table, inserted, deleted>>

\* The j-th value of the i-th row is 10 * i + j.
GivenRow(r, i) == [key |-> r.key,
    values |-> [j \in DOMAIN r.shape |-> [field |-> r.shape[j], value |-> 10 * i + j]]]

Batch ==
    /\ kind \in Batches /\ job = NoJob
    /\ \E rows \in BoundedSeq([key : RowKeys, shape : RowShapes], MaxRows), size \in BatchSizes :
        /\ kind = "deletes" => \A i \in DOMAIN rows : rows[i].shape = <<>>
        /\ BatchBegins([i \in DOMAIN rows |-> GivenRow(rows[i], i)], size)

SqlNext ==
    \/ \E text \in Conditions : WhereText(text) \/ Having(text)
    \/ \E n \in 0 .. 2 : WhereIn(n)
    \/ WhereNotInNothing \/ AllowFullTableDelete
    \/ \E f \in Columns : SetColumn(f)
    \/ ExecQuery \/ ExecUpdate \/ ExecInsert \/ ExecDelete \/ SoftDelete
    \/ Batch \/ UpdateChunk \/ InsertChunk \/ DeleteChunk \/ ChunkFails

SqlSpec == SqlInit /\ [][SqlNext]_sqlVars

-----------------------------------------------------------------------------
(* Properties *)

\* A type invariant: values have been given, a job's rest is made of normal rows.
SqlTypeOK ==
    /\ kind \in Single \cup Batches /\ calls \in 0 .. MaxCalls /\ given \in Nat
    /\ \A list \in {builder.whereValues, builder.havingValues} : ToSet(list) \subseteq 1 .. given
    /\ ToSet(job.columns) \subseteq Columns /\ job.size \in BatchSizes \cup {0}
    /\ table \in [RowKeys -> [Columns -> Nat]] /\ inserted \in Seq([Columns -> Nat])
    /\ deleted \subseteq RowKeys

\* Whatever the order of the calls, an executed statement has as many holes as values
\* are bound, and each hole gets the value that was given with its condition
\* (SqlQuery binds where values before having values, SqlUpdate set before where).
EveryValueInItsPlace ==
    \A s \in ToSet(statement) :
        /\ PlaceholderCount(TextOf(s.clauses)) = Len(s.bound)
        /\ ValuesOf(s.clauses) = s.bound

\* An update or delete that reached the database spares some rows by a condition, or
\* was allowed to take the whole table (rejectEmptyNotIn, validateExecutable).
WholeTableOnlyOnPurpose ==
    kind \in {"update", "delete"} => \A s \in ToSet(statement) :
        s.allowed \/ (s.where # <<>> /\ EveryRow \notin ToSet(s.where))

BuilderSound == EveryValueInItsPlace /\ WholeTableOnlyOnPurpose

\* What the given rows, one update or one insert each, make of a row.
LastGiven(row, f) == SelectLastInSeq(row.values, LAMBDA v : v.field = f)
UpdatedBy(row, k, before) == [f \in Columns |->
    IF row.key = k /\ LastGiven(row, f) # 0 THEN row.values[LastGiven(row, f)].value ELSE before[f]]
OneByOne(rows, k) ==
    LET after[n \in 0 .. Len(rows)] ==
            IF n = 0 THEN [f \in Columns |-> SqlNull] ELSE UpdatedBy(rows[n], k, after[n - 1])
    IN  after[Len(rows)]
InsertedAs(row) == [f \in Columns |-> IF LastGiven(row, f) = 0 THEN SqlNull
                                      ELSE row.values[LastGiven(row, f)].value]
Saying(rows) ==
    LET kept[n \in 0 .. Len(rows)] == IF n = 0 THEN <<>> ELSE KeepRow(kept[n - 1], rows[n])
    IN  kept[Len(rows)]

\* A batch does what its rows would do one after the other, however they repeat keys
\* and columns and wherever it is cut into statements; when a statement fails, each
\* key has been treated completely or not at all.
BatchAsOneByOne ==
    LET saying == Saying(job.rows)
        left == {row.key : row \in ToSet(job.rest)}
    IN  /\ kind = "updates" => \A k \in RowKeys :
            table[k] = IF k \in left THEN [f \in Columns |-> SqlNull] ELSE OneByOne(job.rows, k)
        /\ kind = "inserts" =>
            inserted = [i \in 1 .. Len(saying) - Len(job.rest) |-> InsertedAs(saying[i])]
        /\ kind = "deletes" =>
            LET asked == {row.key : row \in ToSet(job.rows)}
            IN  asked \ left \subseteq deleted /\ deleted \subseteq asked
=============================================================================
