------------------------------ MODULE BunkerImport ------------------------------
(***************************************************************************)
(* POST /imports/bunker (routes/imports.ts, services/bunkerImport.ts): a   *)
(* fleet manager uploads a CSV file; its good rows are inserted in one     *)
(* statement.  The eight columns are abstracted to two: the vessel's IMO   *)
(* number, and one that stands for the figures that are validated.         *)
(***************************************************************************)
EXTENDS Csv, FiniteSets

CONSTANTS
    Sheets,       \* the grids of cells a manager's spreadsheet may hold
    Styles,       \* how a spreadsheet writes a file
    FleetOfImo,   \* function: the fleet of the vessel with an IMO number
    Fleet,        \* the fleet of the manager's token
    NoFleet,
    Figure,       \* a cell that passes the schema
    MaxUploads    \* bound: uploads of the same file

BunkerAssumption ==
    /\ MaxUploads \in Nat
    /\ \A grid \in Sheets : grid \in Seq(Seq(Seq(STRING)) \ {<<>>})
    /\ \A grid \in Sheets : grid # <<>> /\ grid[1][1] # <<>> => grid[1][1][1] # BOM
    /\ Styles \subseteq [eol : {<<LF>>, <<CR, LF>>}, quotes : BOOLEAN, bom : BOOLEAN, last : BOOLEAN]

ImoColumn == <<"imonumber">>
FigureColumn == <<"quantitymt">>

VARIABLES
    sheet, style,   \* what is uploaded
    uploads,        \* attempts made
    stage,          \* "idle", "finding", "inserting", "auditing" or "answered"
    parsed,         \* rows and errors of the request under way
    summary,        \* imported, skipped, total of the last answer; status
    records,        \* BunkerRecord: IMO number, upload and line that a record was made of
    trail           \* the audit: uploads and their counts of imported rows

vars == <<sheet, style, uploads, stage, parsed, summary, records, trail>>

NoSummary == [status |-> 0, imported |-> 0, skipped |-> 0, total |-> 0, errors |-> <<>>]

Nothing == [rows |-> {}, errors |-> <<>>, total |-> 0]

TypeOK ==
    /\ uploads \in 0..MaxUploads
    /\ stage \in {"idle", "finding", "inserting", "auditing"}
    /\ summary.status \in {0, 200, 201, 400, 500}
    /\ \A r \in records \cup trail : r.upload \in 1..uploads

-----------------------------------------------------------------------------
(* parseBunkerCsv *)

Trimmed(cell) ==
    LET kept == {i \in DOMAIN cell : cell[i] \notin Whitespace}
    IN  IF kept = {} THEN <<>> ELSE SubSeq(cell, Min(kept), Max(kept))

Header(grid) == [i \in DOMAIN grid[1] |-> Trimmed(grid[1][i])]

Fatal(grid) == grid = <<>> \/ ~({ImoColumn, FigureColumn} \subseteq ToSet(Header(grid)))

At(header, cells, column) ==
    LET i == SelectInSeq(header, LAMBDA name : name = column)
    IN  IF i \in DOMAIN cells THEN cells[i] ELSE <<>>

AllBlank(cells) == \A i \in DOMAIN cells : IsBlank(cells[i])

\* BunkerRowSchema.
Valid(row) == row.imo # <<>> /\ row.figure = Figure

Lines(rows) == {r.row : r \in rows}

\* A row carries its line, counted in the grid: after the parser dropped blank ones.
parseBunkerCsv(grid) ==
    LET data == {[row    |-> i,
                  imo    |-> Trimmed(At(Header(grid), grid[i], ImoColumn)),
                  figure |-> Trimmed(At(Header(grid), grid[i], FigureColumn))]
                 : i \in {j \in 2..Len(grid) : ~AllBlank(grid[j])}}
    IN  [rows   |-> {r \in data : Valid(r)},
         errors |-> SetToSeq(Lines({r \in data : ~Valid(r)})),
         total  |-> Cardinality(data)]

-----------------------------------------------------------------------------

Init ==
    /\ sheet \in Sheets /\ style \in Styles
    /\ uploads = 0 /\ stage = "idle" /\ parsed = Nothing /\ summary = NoSummary
    /\ records = {} /\ trail = {}

Answer(result) == summary' = result /\ stage' = "idle" /\ parsed' = Nothing

\* A file that cannot be used at all is refused before any query.  The file is
\* uploaded again when its answer was lost, or for no reason.
Upload ==
    LET grid == parseCsv(Write(sheet, style))
    IN  /\ stage = "idle" /\ uploads < MaxUploads
        /\ uploads' = uploads + 1
        /\ IF Fatal(grid) THEN Answer([NoSummary EXCEPT !.status = 400])
           ELSE stage' = "finding" /\ parsed' = parseBunkerCsv(grid) /\ UNCHANGED summary
        /\ UNCHANGED <<sheet, style, records, trail>>

\* Any vessel with the number, whoever owns it.
Mine_AnyFleet(row) == row.imo \in DOMAIN FleetOfImo

\* The vessels of the caller's fleet; none for a caller without one.
Mine(row) == Fleet # NoFleet /\ row.imo \in DOMAIN FleetOfImo /\ FleetOfImo[row.imo] = Fleet

Strangers == {r \in parsed.rows : ~Mine(r)}

\* One query for all the vessels; the rows of others become errors.
Find ==
    /\ stage = "finding"
    /\ parsed' = [parsed EXCEPT !.rows = @ \ Strangers, !.errors = @ \o SetToSeq(Lines(Strangers))]
    /\ stage' = "inserting"
    /\ UNCHANGED <<sheet, style, uploads, summary, records, trail>>

Imported == Cardinality(parsed.rows)

Summary ==
    [status |-> IF Imported > 0 THEN 201 ELSE 200, imported |-> Imported, total |-> parsed.total,
     skipped |-> parsed.total - Imported, errors |-> parsed.errors]

Failure == Answer([NoSummary EXCEPT !.status = 500])

\* createMany: all rows or none, and no query when there are none.  There is no
\* unique key.  When the reply to the COMMIT is lost it throws with the rows in
\* the table.
Insert ==
    /\ stage = "inserting"
    /\ records' = records \cup {[imo |-> r.imo, upload |-> uploads, row |-> r.row] : r \in parsed.rows}
    /\ \/ Imported > 0 /\ stage' = "auditing" /\ UNCHANGED <<parsed, summary>>
       \/ Imported > 0 /\ Failure
       \/ Imported = 0 /\ Answer(Summary)
    /\ UNCHANGED <<sheet, style, uploads, trail>>

\* recordAudit never throws: its row may be missing.
Audit ==
    /\ stage = "auditing"
    /\ trail' \in {trail, trail \cup {[upload |-> uploads, imported |-> Imported]}}
    /\ Answer(Summary)
    /\ UNCHANGED <<sheet, style, uploads, records>>

\* Either query throws, with nothing committed.
Fails ==
    /\ \/ stage = "finding" /\ Fleet # NoFleet
       \/ stage = "inserting" /\ Imported > 0
    /\ Failure
    /\ UNCHANGED <<sheet, style, uploads, records, trail>>

\* The connection or the replica is gone: whatever was done stays done, and the
\* manager sees no answer.
CutOff ==
    /\ stage # "idle"
    /\ Answer(NoSummary)
    /\ UNCHANGED <<sheet, style, uploads, records, trail>>

Next == Upload \/ Find \/ Insert \/ Audit \/ Fails \/ CutOff

Spec == Init /\ [][Next]_vars

-----------------------------------------------------------------------------

\* Quoted fields, doubled quotes, and commas and line breaks inside quotes, with
\* or without a BOM, CRLF and a last line end (csv.ts:1-9): reading back what a
\* spreadsheet wrote gives the cells it holds, but for blank lines.
RoundTrip == parseCsv(Write(sheet, style)) = Visible(sheet)

\* The records an upload made.
Made(upload) == {r \in records : r.upload = upload}

\* The records that the upload of the sheet is meant to make.
Importable(upload) ==
    {[imo |-> r.imo, upload |-> upload, row |-> r.row] : r \in {w \in parseBunkerCsv(Visible(sheet)).rows : Mine(w)}}

\* What an import reports is what it did: of an answer that is not a failure the
\* counts are those of the table, every data row was either imported or is named
\* by exactly one error, and a refused file left nothing; the trail counts of an
\* upload what the table holds of it; and however an upload ended, also without
\* an answer, the table holds all the rows of the caller's fleet or none of them.
\* A 500 'Import failed' (imports.ts:55) is either: the insert may be committed
\* with its reply lost, and the file sent again is then in the table twice.
ReportIsTrue ==
    /\ stage = "idle" /\ summary.status \in {200, 201, 400} => Cardinality(Made(uploads)) = summary.imported
    /\ summary.imported + Len(summary.errors) = summary.total
    /\ IsInjective(summary.errors)
    /\ stage = "idle" => ToSet(summary.errors) \cap Lines(Made(uploads)) = {}
    /\ \A t \in trail : t.imported = Cardinality(Made(t.upload))
    /\ \A r \in records : FleetOfImo[r.imo] = Fleet
    /\ \A u \in 1..uploads : Made(u) \in {{}, Importable(u)}
=============================================================================
