-------------------------------- MODULE Screen --------------------------------
(***************************************************************************)
(* What the console promises: a screen of Lines rows of Columns cells, a   *)
(* cursor, which may stand behind the last column of its row, and a        *)
(* scrolling region.  One character does one of the operations below to    *)
(* it, or nothing.  Where the video memory keeps the screen is no part of  *)
(* the promise.                                                            *)
(***************************************************************************)
EXTENDS Integers

CONSTANTS Columns, Lines, Stops,  \* Stops: the distance of the tab stops
          Values, Empty

VARIABLE scr  \* cell: the cells, row after row; x, y: the cursor; top: the first
              \* row of the region, bottom: the row below it

Size == Lines * Columns
Rows == 0 .. Lines - 1

Init ==
    \E i \in 0 .. Columns, j \in Rows :
        scr = [cell |-> [k \in 0 .. Size - 1 |-> Empty], x |-> i, y |-> j,
               top |-> 0, bottom |-> Lines]

-----------------------------------------------------------------------------
\* The cells from a up to b, n places to the left or to the right, what
\* leaves the span lost and empty cells at the other end.
Left(cell, a, b, n) ==
    [k \in 0 .. Size - 1 |-> IF k < a \/ k >= b THEN cell[k]
                             ELSE IF k + n < b THEN cell[k + n] ELSE Empty]
Right(cell, a, b, n) ==
    [k \in 0 .. Size - 1 |-> IF k < a \/ k >= b THEN cell[k]
                             ELSE IF k - n >= a THEN cell[k - n] ELSE Empty]
Cleared(cell, a, b) == Left(cell, a, b, b - a)

Place(s) == s.y * Columns + s.x       \* the cursor's cell
RowStart(s) == s.y * Columns
RowEnd(s) == (s.y + 1) * Columns

\* The cursor goes down one row; from the last row of the region, or from
\* below it, it stays and the region moves up.
Fed(s) ==
    IF s.y + 1 < s.bottom THEN [s EXCEPT !.y = @ + 1]
    ELSE [s EXCEPT !.cell = Left(@, s.top * Columns, s.bottom * Columns, Columns)]

\* Behind the last column the text goes on in the next row.
Wrapped(s) == Fed([s EXCEPT !.x = @ - Columns])

-----------------------------------------------------------------------------
\* What a character may make of screen s: screen t.
Type(s, t) ==
    LET w == IF s.x >= Columns THEN Wrapped(s) ELSE s
    IN  \E v \in Values : t = [w EXCEPT !.cell[Place(w)] = v, !.x = @ + 1]

Tab(s, t) ==
    LET w == [s EXCEPT !.x = @ + Stops - (@ % Stops)]
    IN  t = IF w.x > Columns THEN Wrapped(w) ELSE w

Feed(s, t) == t = Fed(s)

FeedBack(s, t) ==
    t = IF s.y > s.top THEN [s EXCEPT !.y = @ - 1]
        ELSE [s EXCEPT !.cell = Right(@, s.top * Columns, s.bottom * Columns, Columns)]

Rubout(s, t) == s.x > 0 /\ t = [s EXCEPT !.x = @ - 1, !.cell[Place(s) - 1] = Empty]

Move(s, t) == /\ t.x \in 0 .. Columns /\ t.y \in Rows
              /\ t = [s EXCEPT !.x = t.x, !.y = t.y]

Region(s, t) == /\ t.top \in 0 .. t.bottom - 1 /\ t.bottom \in 1 .. Lines
                /\ t = [s EXCEPT !.top = t.top, !.bottom = t.bottom]

\* From the cursor on, up to it, or all; of the screen or of the row.
Erase(s, t) ==
    t.cell \in {Cleared(s.cell, Place(s), Size), Cleared(s.cell, 0, Place(s)),
                Cleared(s.cell, 0, Size),
                Cleared(s.cell, Place(s), RowEnd(s)), Cleared(s.cell, RowStart(s), Place(s)),
                Cleared(s.cell, RowStart(s), RowEnd(s))}

\* n rows are put in above the cursor's row, or n rows from it are taken out.
MoveLines(s, t) ==
    \E n \in 1 .. Lines : t.cell \in {Right(s.cell, RowStart(s), Size, n * Columns),
                                      Left(s.cell, RowStart(s), Size, n * Columns)}

\* The same with the cells of the row from the cursor on.
MoveChars(s, t) ==
    \E n \in 1 .. Columns : t.cell \in {Right(s.cell, Place(s), RowEnd(s), n),
                                        Left(s.cell, Place(s), RowEnd(s), n)}

Edit(s, t) ==
    /\ t = [s EXCEPT !.cell = t.cell]
    /\ Erase(s, t) \/ MoveLines(s, t) \/ MoveChars(s, t)

Step(s, t) ==
    \/ s = t \/ Move(s, t) \/ Region(s, t) \/ Edit(s, t)
    \/ Type(s, t) \/ Tab(s, t) \/ Feed(s, t) \/ FeedBack(s, t) \/ Rubout(s, t)

Next == Step(scr, scr')

Spec == Init /\ [][Next]_scr
=============================================================================
