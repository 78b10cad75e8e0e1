----------------------------- MODULE MCBatches -----------------------------
(***************************************************************************)
(* Batches with a file of a valid and an unreadable row and a file of one  *)
(* row, and free text of up to three characters of every class.            *)
(***************************************************************************)
EXTENDS Batches

CONSTANTS i1, i2, c1, c2, k1

Row(instr, ref) == [instr |-> instr, ref |-> ref]

TwoRows == <<Row(VALID, <<"x", COMMA>>), Row("i", << >>)>>
OneRow == <<Row(VALID, <<QUOTE>>)>>

MCFiles == {TwoRows, OneRow}

(***************************************************************************)
(* The second request sends the file of the first again, without a key, or *)
(* reuses its key for another file.                                        *)
(***************************************************************************)
MCAsks == [i \in Imports |-> IF i = i1 THEN {<<TwoRows, k1>>}
                             ELSE {<<TwoRows, NONE>>, <<OneRow, k1>>}]

MCCharacters == {QUOTE, COMMA, NEWLINE, CR, SPACE, BOM, VALID, "i", "x"}

MCReferences == UNION {[1..n -> {QUOTE, COMMA, NEWLINE, CR, SPACE, BOM, "x"}] : n \in 0..3}
=============================================================================
