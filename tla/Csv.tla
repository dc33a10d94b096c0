---------------------------------- MODULE Csv ----------------------------------
(***************************************************************************)
(* lib/csv.ts: the parser as its state after each character of the text,   *)
(* and an RFC-4180 writer to hold it against.                              *)
(***************************************************************************)
EXTENDS Integers, SequencesExt

Quote == "quote"
Comma == "comma"
CR == "cr"
LF == "lf"
BOM == "bom"
Space == "space"

Whitespace == {Space, CR, LF, BOM}

Start == [rows |-> <<>>, row |-> <<>>, field |-> <<>>, inQuotes |-> FALSE, skip |-> FALSE]

AddChar(s, c) == [s EXCEPT !.field = Append(@, c)]

EndField(s) == [s EXCEPT !.row = Append(@, s.field), !.field = <<>>]

EndRow(s) == LET t == EndField(s) IN [t EXCEPT !.rows = Append(@, t.row), !.row = <<>>]

\* A doubled quote ends the quoted part.
Quoted_NoEscape(s, c, next) == IF c # Quote THEN AddChar(s, c) ELSE [s EXCEPT !.inQuotes = FALSE]

\* Inside quotes only a quote is special, and a doubled one stands for itself.
Quoted(s, c, next) ==
    IF c # Quote THEN AddChar(s, c)
    ELSE IF next = Quote THEN [AddChar(s, Quote) EXCEPT !.skip = TRUE]
    ELSE [s EXCEPT !.inQuotes = FALSE]

Unquoted(s, c) ==
    IF c = Quote THEN [s EXCEPT !.inQuotes = TRUE]
    ELSE IF c = Comma THEN EndField(s)
    ELSE IF c = CR THEN s
    ELSE IF c = LF THEN EndRow(s)
    ELSE AddChar(s, c)

Step(text, s, i) ==
    IF s.skip THEN [s EXCEPT !.skip = FALSE]
    ELSE IF s.inQuotes THEN Quoted(s, text[i], IF i < Len(text) THEN text[i + 1] ELSE LF)
    ELSE Unquoted(s, text[i])

IsBlank(cell) == ToSet(cell) \subseteq Whitespace

BlankLine(row) == Len(row) = 1 /\ IsBlank(row[1])

\* The lines but the blank ones.
Visible(rows) == FlattenSeq([i \in DOMAIN rows |-> IF BlankLine(rows[i]) THEN <<>> ELSE <<rows[i]>>])

parseCsv(text) ==
    LET body == IF text # <<>> /\ text[1] = BOM THEN Tail(text) ELSE text
        state[i \in 0..Len(body)] == IF i = 0 THEN Start ELSE Step(body, state[i - 1], i)
        end  == state[Len(body)]
        all  == IF end.field # <<>> \/ end.row # <<>> THEN EndRow(end) ELSE end
    IN  Visible(all.rows)

-----------------------------------------------------------------------------
(* The writer: a cell is quoted when it has to be, or always *)

Escape(cell) == FlattenSeq([i \in DOMAIN cell |-> IF cell[i] = Quote THEN <<Quote, Quote>> ELSE <<cell[i]>>])

Cell(cell, always) ==
    IF always \/ ToSet(cell) \cap {Quote, Comma, CR, LF} # {}
    THEN <<Quote>> \o Escape(cell) \o <<Quote>> ELSE cell

Line(row, always) ==
    FlattenSeq([i \in DOMAIN row |-> Cell(row[i], always) \o IF i < Len(row) THEN <<Comma>> ELSE <<>>])

\* style: the line ends, quotes everywhere, a BOM, a line end after the last line.
Write(sheet, style) ==
    LET lines == [i \in DOMAIN sheet |->
                    Line(sheet[i], style.quotes)
                        \o IF i < Len(sheet) \/ style.last THEN style.eol ELSE <<>>]
    IN  (IF style.bom THEN <<BOM>> ELSE <<>>) \o FlattenSeq(lines)
=============================================================================
