----------------------------- MODULE Selection -----------------------------
(***************************************************************************)
(* Which text a drag of the mouse copies: Renderer turns two points of the *)
(* window into a rectangle snapped to character cells (calcBoxSize), that  *)
(* rectangle into columns and rows (pullSelectionBuffer), and ScreenBuffer *)
(* copies those positions (bufferToClipboard).                             *)
(*                                                                         *)
(* A cell is size / n pixels wide or high, a double in the code and a      *)
(* fraction here; an SDL_Rect holds integers, so every assignment to one   *)
(* cuts the fraction off (\div).  Points are not left of or above the      *)
(* window: SDL reports them relative to it.                                *)
(***************************************************************************)
EXTENDS Naturals, Sequences

CONSTANTS
    TermWidth,      \* m_term_width: columns of the screen
    TermHeight      \* m_term_height: rows of the screen

ASSUME TermAssumption == TermWidth \in Nat \ {0} /\ TermHeight \in Nat \ {0}

Smaller(a, b) == IF a < b THEN a ELSE b
Larger(a, b)  == IF a < b THEN b ELSE a

\* The column (row) under pixel v of a window of size pixels and n columns.
CellAt(v, size, n) == (v * n) \div size

\* rect.x and rect.w, or rect.y and rect.h, for a drag from source to v.
BoxEdge(source, v, size, n) ==
    (CellAt(Smaller(source, v), size, n) * size) \div n

\* Faulty: the far edge is where the last cell begins.
OpenBoxExtent(source, v, size, n) ==
    (CellAt(Larger(source, v), size, n) * size) \div n - BoxEdge(source, v, size, n)

\* Faulty: the far edge is taken for the width.
WholeBoxExtent(source, v, size, n) ==
    ((CellAt(Larger(source, v), size, n) + 1) * size) \div n

BoxSpan(source, v, size, n) ==
    ((CellAt(Larger(source, v), size, n) + 1) * size) \div n - BoxEdge(source, v, size, n)

\* round(char_width): a half is rounded up.
RoundedCell(size, n) == (2 * size + n) \div (2 * n)

\* An empty box, in a window with less than a pixel for a cell, becomes one cell.
BoxExtent(source, v, size, n) ==
    IF BoxSpan(source, v, size, n) = 0
    THEN RoundedCell(size, n)
    ELSE BoxSpan(source, v, size, n)

\* Back from pixels to cells.
BoxStart(source, v, size, n)  == (BoxEdge(source, v, size, n) * n) \div size
BoxLength(source, v, size, n) == (BoxExtent(source, v, size, n) * n) \div size

\* The columns and rows that pullSelectionBuffer asks for, source and point
\* being <<x, y>> and window <<width, height>>.
SelectedCells(source, point, window) ==
    [column |-> BoxStart(source[1], point[1], window[1], TermWidth),
     row    |-> BoxStart(source[2], point[2], window[2], TermHeight),
     length |-> BoxLength(source[1], point[1], window[1], TermWidth),
     rows   |-> BoxLength(source[2], point[2], window[2], TermHeight)]

\* The positions of m_screen_buffer that end up in the clipboard, row by row.
bufferToClipboard(cells) ==
    [i \in 1 .. cells.rows |->
        [j \in 1 .. cells.length |->
            (cells.row + i - 1) * TermWidth + cells.column + j - 1]]

-----------------------------------------------------------------------------
(* What the user means: the cells under the two points and all between.    *)

Meant(source, point, window) ==
    LET left   == CellAt(Smaller(source[1], point[1]), window[1], TermWidth)
        right  == CellAt(Larger(source[1], point[1]), window[1], TermWidth)
        top    == CellAt(Smaller(source[2], point[2]), window[2], TermHeight)
        bottom == CellAt(Larger(source[2], point[2]), window[2], TermHeight)
    IN  [i \in 1 .. bottom - top + 1 |->
            [j \in 1 .. right - left + 1 |-> (top + i - 1) * TermWidth + left + j - 1]]

\* The window shows whole pixels for every cell.
WholeCells(window) ==
    window[1] % TermWidth = 0 /\ window[2] % TermHeight = 0
=============================================================================
