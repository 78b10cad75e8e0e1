-------------------------------- MODULE Csv --------------------------------
(***************************************************************************)
(* The CSV a batch is read from (packages/domain/src/batches/csv.ts), and  *)
(* the rendering of JSON rows into it (createBatchFromRows).               *)
(*                                                                         *)
(* A character is one of the classes the parser and trim tell apart:       *)
(* QUOTE, COMMA, NEWLINE (line feed), CR (carriage return), SPACE, BOM     *)
(* (byte-order mark), and ordinary ones.  A row has two cells: `instr`,    *)
(* which stands for the columns that must validate (VALID or not), and     *)
(* `ref`, the customer's free text.  A header row comes first.             *)
(***************************************************************************)
EXTENDS Integers, Sequences, FiniteSets

QUOTE == "quote"
COMMA == "comma"
NEWLINE == "newline"
CR == "cr"
SPACE == "space"
BOM == "bom"
VALID == "v"
HEADER == "h"

(***************************************************************************)
(* String.prototype.trim.                                                  *)
(***************************************************************************)
Whitespace == {SPACE, NEWLINE, CR, BOM}

trim(s) ==
  LET kept == {i \in 1..Len(s) : s[i] \notin Whitespace}
  IN  IF kept = {} THEN << >>
      ELSE SubSeq(s, CHOOSE i \in kept : \A j \in kept : i <= j,
                     CHOOSE i \in kept : \A j \in kept : j <= i)

(***************************************************************************)
(* parseCsvGrid, one character at a time.  A quote inside a quoted field   *)
(* ends it unless another quote follows: `quoted` is "closing" in between. *)
(* Outside quotes a row ends at a line feed, at a carriage return, and     *)
(* once at the two together: `quoted` is "cr" in between.                  *)
(***************************************************************************)
endField(st) == [st EXCEPT !.row = Append(@, st.field), !.field = << >>, !.quoted = "no"]

endRow(st) ==
  LET ended == endField(st)
  IN  [ended EXCEPT !.grid = Append(@, ended.row), !.row = << >>]

take(st, ch) ==
  CASE st.quoted = "yes" /\ ch = QUOTE     -> [st EXCEPT !.quoted = "closing"]
    [] st.quoted = "yes" /\ ch # QUOTE     -> [st EXCEPT !.field = Append(@, ch)]
    [] st.quoted = "closing" /\ ch = QUOTE -> [st EXCEPT !.quoted = "yes", !.field = Append(@, ch)]
    [] st.quoted \in {"no", "cr"} /\ ch = QUOTE ->
         IF st.field = << >> THEN [st EXCEPT !.quoted = "yes"] ELSE [st EXCEPT !.field = Append(@, ch)]
    [] st.quoted # "yes" /\ ch = COMMA     -> endField(st)
    [] st.quoted # "yes" /\ ch = CR        -> [endRow(st) EXCEPT !.quoted = "cr"]
    [] st.quoted = "cr" /\ ch = NEWLINE    -> [st EXCEPT !.quoted = "no"]
    [] st.quoted \in {"no", "closing"} /\ ch = NEWLINE -> endRow(st)
    [] OTHER                               -> [st EXCEPT !.quoted = "no", !.field = Append(@, ch)]

start == [grid |-> << >>, row |-> << >>, field |-> << >>, quoted |-> "no"]

reading(first, text) ==                 \* the state after each character
  LET read[i \in 0..Len(text)] ==
        IF i = 0 THEN first ELSE take(read[i - 1], text[i])
  IN  read

Blank(row) == Len(row) = 1 /\ trim(row[1]) = << >>

withoutBlank(grid) ==
  LET kept[i \in 0..Len(grid)] ==
        IF i = 0 THEN << >> ELSE IF Blank(grid[i]) THEN kept[i - 1] ELSE Append(kept[i - 1], grid[i])
  IN  kept[Len(grid)]

withoutMark(text) == IF Len(text) > 0 /\ text[1] = BOM THEN Tail(text) ELSE text

parseCsvGrid(text) ==
  LET input == withoutMark(text)
      last  == reading(start, input)[Len(input)]
  IN  withoutBlank(IF last.field # << >> \/ last.row # << >> THEN endRow(last).grid ELSE last.grid)

(***************************************************************************)
(* parseBatchCsv below its header: every row gets a verdict of its own and *)
(* the text of its cells, trimmed.                                         *)
(***************************************************************************)
parseRow(cells) ==
  LET cell(n) == IF n <= Len(cells) THEN trim(cells[n]) ELSE << >>
  IN  [ok |-> cell(1) = <<VALID>>, ref |-> cell(2)]

parseBatchCsv(text) ==
  LET grid == parseCsvGrid(text)
  IN  [line \in 1..(Len(grid) - 1) |-> parseRow(grid[line + 1])]

(***************************************************************************)
(* createBatchFromRows: `escape`, and the header and the rows joined.      *)
(***************************************************************************)
doubled(value) ==
  LET out[i \in 0..Len(value)] ==
        IF i = 0 THEN << >>
        ELSE IF value[i] = QUOTE THEN out[i - 1] \o <<QUOTE, QUOTE>> ELSE Append(out[i - 1], value[i])
  IN  out[Len(value)]

SpecialButCR(value) ==                            \* mutant: a carriage return goes unquoted
  \E i \in 1..Len(value) : value[i] \in {QUOTE, COMMA, NEWLINE}

Special(value) == \E i \in 1..Len(value) : value[i] \in {QUOTE, COMMA, NEWLINE, CR}

escape(value) ==
  IF Special(value) THEN <<QUOTE>> \o doubled(value) \o <<QUOTE>> ELSE value

joined(sheet) ==
  LET line(n) == escape(<<sheet[n].instr>>) \o <<COMMA>> \o escape(sheet[n].ref)
      text[n \in 0..Len(sheet)] ==
        IF n = 0 THEN << >>
        ELSE IF n = 1 THEN line(1) ELSE Append(text[n - 1], NEWLINE) \o line(n)
  IN  text[Len(sheet)]

Heading == [instr |-> HEADER, ref |-> <<HEADER>>]

render(rows) == joined(<<Heading>> \o rows)
=============================================================================
