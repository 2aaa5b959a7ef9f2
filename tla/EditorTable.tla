---------------------------- MODULE EditorTable ----------------------------
(***************************************************************************)
(* The commands of the editor's tables (src/WebRoot/kindEditor/            *)
(* kindeditor.js:4175-4232, 4439-4447).  A table is the sequence of its    *)
(* rows, a row that of its cells; a command is given where in which row    *)
(* the selection is.                                                       *)
(***************************************************************************)
EXTENDS Integers, Sequences, SequencesExt

\* '&nbsp;': nothing that was written.
NewCell == <<>>

\* What exec writes for a number of rows and columns.
newTable(rows, cols) == [r \in 1 .. rows |-> [c \in 1 .. cols |-> NewCell]]

tablecolinsert(table, row, cell, offset) ==
    [r \in DOMAIN table |-> InsertAt(table[r], cell + offset, NewCell)]

tablerowinsert(table, row, cell, offset) ==
    InsertAt(table, row + offset, [c \in DOMAIN table[row] |-> NewCell])

\* The index is asked for again for each row.  A cell that is not in a row any more has
\* none: its index is -1, and to delete the cell with that index deletes the last.
tablecoldelete(table, row, cell) ==
    [r \in DOMAIN table |-> IF r <= row THEN RemoveAt(table[r], cell) ELSE Front(table[r])]

tablerowdelete(table, row, cell) == RemoveAt(table, row)
=============================================================================
