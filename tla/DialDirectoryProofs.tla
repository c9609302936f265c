------------------------ MODULE DialDirectoryProofs ------------------------
(***************************************************************************)
(* The window of the directory and of a connection (InputHandler):         *)
(* SelectionOnScreen and CopiedIsMeant, for a screen and windows of every  *)
(* size and every sequence of events.  Both are facts about the arithmetic *)
(* of Selection once the drag that is kept as history is known to lie in   *)
(* its window: DragInv says that.                                          *)
(*                                                                         *)
(* The list (DialDirectory): TypeOK, PageHoldsSelection,                   *)
(* PictureShowsSelection and DialsWhatIsShown, for directories, themes and *)
(* menus of every size, as long as all themes have a box of the same size  *)
(* (SameBoxes).  What is about the menu needs two more facts about the     *)
(* menus: SameBars and NoMenuCommands.                                     *)
(*                                                                         *)
(* Each handler moves page and position by a rule of its own and then      *)
(* draws; ListInv ties the page, the row of the bar and the drawn rows to  *)
(* the position, and Redraw shows that updateDialDirectory restores it     *)
(* whenever the handler has found the right page.                          *)
(*                                                                         *)
(* The menu is redrawn by the same handlers: MenuInv keeps its choice one  *)
(* of its light bars, and BarInv ties the bar that is lit to the choice.   *)
(***************************************************************************)
EXTENDS DialDirectory, DataInduction, TLAPS

-----------------------------------------------------------------------------
(* Division of naturals.                                                   *)

(* The quotient is the number k with k * s <= m < (k + 1) * s.             *)
LEMMA Quotient ==
    ASSUME NEW m \in Nat, NEW s \in Nat \ {0}
    PROVE  /\ m \div s \in Nat
           /\ (m \div s) * s <= m
           /\ m < (m \div s + 1) * s
OBVIOUS

(* A number of whole parts that fit is at most the quotient.               *)
LEMMA FitsQuotient ==
    ASSUME NEW m \in Nat, NEW s \in Nat \ {0}, NEW k \in Nat, k * s <= m
    PROVE  k <= m \div s
<1> DEFINE q == m \div s
<1>1. q \in Nat /\ m < (q + 1) * s
  BY Quotient
<1>2. k * s < (q + 1) * s
  BY <1>1
<1> HIDE DEF q
<1>3. k < q + 1
  BY <1>1, <1>2
<1> QED
  BY <1>3, <1>1 DEF q

LEMMA QuotientMonotone ==
    ASSUME NEW m \in Nat, NEW l \in Nat, m <= l, NEW s \in Nat \ {0}
    PROVE  m \div s <= l \div s
<1>1. m \div s \in Nat /\ (m \div s) * s <= l
  BY Quotient
<1> QED
  BY <1>1, FitsQuotient

(* Cutting two fractions off loses no less than cutting off that of a sum. *)
LEMMA QuotientOfSum ==
    ASSUME NEW a \in Nat, NEW b \in Nat, NEW s \in Nat \ {0}
    PROVE  a \div s + b \div s <= (a + b) \div s
<1> DEFINE p == a \div s
           q == b \div s
<1>1. p \in Nat /\ q \in Nat /\ p * s <= a /\ q * s <= b
  BY Quotient
<1> HIDE DEF p, q
<1>2. (p + q) * s <= a + b
  BY <1>1
<1>3. p + q <= (a + b) \div s
  BY <1>1, <1>2, FitsQuotient
<1> QED
  BY <1>3 DEF p, q

LEMMA ExactQuotient ==
    ASSUME NEW k \in Nat, NEW s \in Nat \ {0}
    PROVE  (k * s) \div s = k
<1> DEFINE q == (k * s) \div s
<1>1. q \in Nat /\ q * s <= k * s /\ k * s < (q + 1) * s
  BY Quotient
<1> HIDE DEF q
<1>2. q <= k /\ k < q + 1
  BY <1>1
<1> QED
  BY <1>1, <1>2 DEF q


LEMMA Multiple ==
    ASSUME NEW m \in Nat, NEW s \in Nat \ {0}, m % s = 0
    PROVE  \E k \in Nat : m = k * s
OBVIOUS

-----------------------------------------------------------------------------
(* One axis of the selection: n cells in size pixels.                      *)

LEMMA CellInRange ==
    ASSUME NEW n \in Nat \ {0}, NEW size \in Nat \ {0}, NEW v \in Nat, v < size
    PROVE  CellAt(v, size, n) \in 0 .. n - 1
<1> DEFINE q == (v * n) \div size
<1>1. v * n \in Nat /\ v * n < n * size
  OBVIOUS
<1>2. q \in Nat /\ q * size <= v * n
  BY <1>1, Quotient
<1> HIDE DEF q
<1>3. q * size < n * size
  BY <1>1, <1>2
<1>4. q < n
  BY <1>2, <1>3
<1> QED
  BY <1>2, <1>4 DEF CellAt, q

LEMMA CellMonotone ==
    ASSUME NEW n \in Nat \ {0}, NEW size \in Nat \ {0}, NEW v \in Nat, NEW w \in Nat, v <= w
    PROVE  CellAt(v, size, n) <= CellAt(w, size, n)
<1>1. v * n \in Nat /\ w * n \in Nat /\ v * n <= w * n
  OBVIOUS
<1> QED
  BY <1>1, QuotientMonotone DEF CellAt

(* The two ends of a drag and the cells under them.                        *)
LEMMA EndsOfDrag ==
    ASSUME NEW n \in Nat \ {0}, NEW size \in Nat \ {0},
           NEW source \in Nat, NEW v \in Nat, source < size, v < size
    PROVE  /\ CellAt(Smaller(source, v), size, n) \in 0 .. n - 1
           /\ CellAt(Larger(source, v), size, n) \in 0 .. n - 1
           /\ CellAt(Smaller(source, v), size, n) <= CellAt(Larger(source, v), size, n)
<1>1. /\ Smaller(source, v) \in Nat /\ Smaller(source, v) < size
      /\ Larger(source, v) \in Nat /\ Larger(source, v) < size
      /\ Smaller(source, v) <= Larger(source, v)
  BY DEF Smaller, Larger
<1> QED
  BY <1>1, CellInRange, CellMonotone

(* Cells of less than a pixel are rounded to one pixel or none.            *)
LEMMA SmallCell ==
    ASSUME NEW n \in Nat \ {0}, NEW size \in Nat \ {0}
    PROVE  /\ RoundedCell(size, n) \in Nat
           /\ size < n => RoundedCell(size, n) <= 1
<1> DEFINE q == (2 * size + n) \div (2 * n)
<1>1. 2 * size + n \in Nat /\ 2 * n \in Nat \ {0}
  OBVIOUS
<1>2. q \in Nat /\ q * (2 * n) <= 2 * size + n
  BY <1>1, Quotient
<1> HIDE DEF q
<1>3. ASSUME size < n PROVE q <= 1
  <2>1. q * (2 * n) < 3 * n
    BY <1>2, <1>3
  <2>2. q >= 2 => q * (2 * n) >= 4 * n
    BY <1>2
  <2> QED
    BY <1>2, <2>1, <2>2
<1> QED
  BY <1>2, <1>3 DEF RoundedCell, q

(* The box of the cells from c up to d, in pixels, lies in the window, the *)
(* box of one cell that stands for an empty one too.                       *)
LEMMA BoxInWindow ==
    ASSUME NEW n \in Nat \ {0}, NEW size \in Nat \ {0},
           NEW c \in Nat, NEW d \in Nat, c < d, d <= n,
           NEW near \in Nat, near = (c * size) \div n,
           NEW far \in Nat, far = (d * size) \div n,
           NEW width, width = IF far - near = 0 THEN RoundedCell(size, n) ELSE far - near
    PROVE  width \in Nat /\ near + width <= size
<1>1. c * size \in Nat /\ d * size \in Nat /\ c * size + size <= d * size
      /\ d * size <= size * n
  BY DEF Nat
<1>2. near <= far
  BY <1>1, QuotientMonotone
<1>3. far <= size
  <2>1. size * n \in Nat
    OBVIOUS
  <2>2. far <= (size * n) \div n
    BY <1>1, <2>1, QuotientMonotone
  <2> QED
    BY <2>2, ExactQuotient
<1>4. CASE far # near
  BY <1>2, <1>3, <1>4
<1>5. CASE far = near
  <2>1. near * n <= c * size
    BY <1>1, Quotient
  <2>2. near < size
    <3>1. near * n < size * n
      BY <1>1, <2>1
    <3> QED
      BY <3>1
  <2>3. size < n
    <3> SUFFICES ASSUME n <= size PROVE FALSE
      OBVIOUS
    <3>1. (near + 1) * n = near * n + n /\ near * n \in Nat
      OBVIOUS
    <3>2. (near + 1) * n <= d * size
      BY <1>1, <2>1, <3>1
    <3>3. near + 1 <= far
      BY <1>1, <3>2, FitsQuotient
    <3> QED
      BY <1>5, <3>3
  <2> QED
    BY <1>5, <2>2, <2>3, SmallCell
<1> QED
  BY <1>4, <1>5

(* The cells that a box is turned back into lie on the axis.               *)
LEMMA BoxFits ==
    ASSUME NEW n \in Nat \ {0}, NEW size \in Nat \ {0},
           NEW source \in Nat, NEW v \in Nat, source < size, v < size
    PROVE  /\ BoxStart(source, v, size, n) \in Nat
           /\ BoxLength(source, v, size, n) \in Nat
           /\ BoxStart(source, v, size, n) + BoxLength(source, v, size, n) <= n
<1> DEFINE c == CellAt(Smaller(source, v), size, n)
           last == CellAt(Larger(source, v), size, n)
           d == last + 1
           near == (c * size) \div n
           far  == (d * size) \div n
           width == IF far - near = 0 THEN RoundedCell(size, n) ELSE far - near
<1>1. c \in Nat /\ d \in Nat /\ c < d /\ d <= n
  <2>1. c \in 0 .. n - 1 /\ last \in 0 .. n - 1 /\ c <= last
    BY EndsOfDrag
  <2> HIDE DEF c, last
  <2> QED
    BY <2>1
<1>2. /\ BoxStart(source, v, size, n) = (near * n) \div size
      /\ BoxLength(source, v, size, n) = (width * n) \div size
  BY DEF BoxStart, BoxLength, BoxEdge, BoxExtent, BoxSpan, c, d, last
<1> HIDE DEF c, last, d
<1>3. c * size \in Nat /\ d * size \in Nat
  BY <1>1
<1>4. near \in Nat /\ far \in Nat
  BY <1>3, Quotient
<1> HIDE DEF near, far
<1>5. width \in Nat /\ near + width <= size
  BY <1>1, <1>4, BoxInWindow DEF near, far
<1> HIDE DEF width
<1>6. /\ near * n \in Nat /\ width * n \in Nat /\ n * size \in Nat
      /\ near * n + width * n = (near + width) * n
      /\ (near + width) * n <= n * size
  BY <1>4, <1>5
<1>7. (near * n) \div size + (width * n) \div size <= (near * n + width * n) \div size
  BY <1>6, QuotientOfSum
<1>8. (near * n + width * n) \div size <= n
  <2>1. (near * n + width * n) \div size <= (n * size) \div size
    BY <1>6, QuotientMonotone
  <2> QED
    BY <2>1, ExactQuotient
<1>9. /\ (near * n) \div size \in Nat /\ (width * n) \div size \in Nat
      /\ (near * n + width * n) \div size \in Nat
  <2>1. near * n + width * n \in Nat
    BY <1>6
  <2> QED
    BY <1>6, <2>1, Quotient
<1> QED
  BY ONLY <1>2, <1>7, <1>8, <1>9, n \in Nat

(* With whole pixels for every cell they are the cells under the points.   *)
LEMMA BoxExact ==
    ASSUME NEW n \in Nat \ {0}, NEW size \in Nat \ {0}, size % n = 0,
           NEW source \in Nat, NEW v \in Nat, source < size, v < size
    PROVE  /\ BoxStart(source, v, size, n) = CellAt(Smaller(source, v), size, n)
           /\ BoxLength(source, v, size, n) =
                CellAt(Larger(source, v), size, n) - CellAt(Smaller(source, v), size, n) + 1
<1> DEFINE c == CellAt(Smaller(source, v), size, n)
           last == CellAt(Larger(source, v), size, n)
           d == last + 1
           near == (c * size) \div n
           far  == (d * size) \div n
<1>1. PICK pixels \in Nat : size = pixels * n
  BY Multiple
<1>2. c \in Nat /\ d \in Nat /\ c < d
  <2>1. c \in 0 .. n - 1 /\ last \in 0 .. n - 1 /\ c <= last
    BY EndsOfDrag
  <2> HIDE DEF c, last
  <2> QED
    BY <2>1
<1> HIDE DEF c, last, d
<1>3. near = c * pixels /\ far = d * pixels
  <2>1. \A k \in Nat : (k * size) \div n = k * pixels
    <3> TAKE k \in Nat
    <3>1. k * size = (k * pixels) * n /\ k * pixels \in Nat
      BY <1>1
    <3> QED
      BY <3>1, ExactQuotient
  <2> QED
    BY <2>1, <1>2
<1>4. /\ BoxStart(source, v, size, n) = (near * n) \div size
      /\ BoxLength(source, v, size, n) = ((far - near) * n) \div size
  <2>1. far - near # 0
    <3>1. pixels # 0 /\ c * pixels < d * pixels
      BY <1>1, <1>2
    <3> QED
      BY ONLY <1>3, <3>1, <1>1, <1>2
  <2> QED
    BY <2>1 DEF BoxStart, BoxLength, BoxEdge, BoxExtent, BoxSpan, c, d, last
<1> HIDE DEF near, far
<1>5. near * n = c * size /\ (far - near) * n = (d - c) * size
  <2>1. /\ c * size = (c * pixels) * n
        /\ (d - c) * size = (d * pixels - c * pixels) * n
    BY ONLY <1>1, <1>2, n \in Nat
  <2> QED
    BY ONLY <1>3, <2>1
<1>6. (near * n) \div size = c /\ ((far - near) * n) \div size = d - c
  <2>1. \A k \in Nat : (k * size) \div size = k
    BY ExactQuotient
  <2>2. c \in Nat /\ d - c \in Nat
    BY ONLY <1>2
  <2> QED
    BY ONLY <1>5, <2>1, <2>2, Zenon
<1> QED
  BY <1>2, <1>4, <1>6, EndsOfDrag DEF c, d, last


-----------------------------------------------------------------------------
(* The drag that is kept lies in its window.                               *)

Sizes == (Nat \ {0}) \X (Nat \ {0})

Within(point, size) == point[1] < size[1] /\ point[2] < size[2]

(* A press and the window it was made in.                                  *)
Pressed(source, size) ==
    source \in Nat \X Nat /\ size \in Sizes /\ Within(source, size)

(* While the button is held the press is remembered; a copy was made with  *)
(* both points in their windows, from the cells that Selection computes.   *)
DragInv ==
    /\ window \in Sizes
    /\ m_isMouseSelected =>
          Pressed(m_mouseSource, drag.pressedIn) /\ "releasedIn" \notin DOMAIN drag
    /\ Copied =>
          /\ Pressed(drag.source, drag.pressedIn)
          /\ Pressed(drag.point, drag.releasedIn)
          /\ clipboard = bufferToClipboard(SelectedCells(drag.source, drag.point, drag.releasedIn))

LEMMA SizeTypes ==
    /\ WindowSizes \subseteq Sizes /\ DesktopSize \in Sizes
    /\ <<1280, 800>> \in Sizes /\ <<640, 400>> \in Sizes
BY InputAssumption DEF Sizes

LEMMA DragInit == InputInit => DragInv
BY SizeTypes DEF InputInit, DragInv, Copied, None

(* An event that has nothing to do with the mouse.                         *)
LEMMA OtherEvent ==
    ASSUME DragInv, UNCHANGED mouseVars, window' \in Sizes
    PROVE  DragInv'
BY DEF DragInv, mouseVars, Copied

LEMMA MouseDownStep == DragInv /\ MouseDown => DragInv'
<1> SUFFICES ASSUME DragInv, MouseDown PROVE DragInv'
  OBVIOUS
<1>1. PICK point \in Points :
        /\ InWindow(point)
        /\ m_isMouseSelected' = TRUE
        /\ m_mouseSource' = point
        /\ drag' = [source |-> point, pressedIn |-> window]
        /\ UNCHANGED window
  BY DEF MouseDown
<1>2. Pressed(point, window)
  BY <1>1, InputAssumption DEF InWindow, Pressed, Within, DragInv
<1> QED
  BY <1>1, <1>2 DEF DragInv, Copied

LEMMA MouseUpStep == DragInv /\ MouseUp => DragInv'
<1> SUFFICES ASSUME DragInv, MouseUp PROVE DragInv'
  OBVIOUS
<1> DEFINE Moved(point) == point[1] # m_mouseSource[1] /\ point[2] # m_mouseSource[2]
<1>1. PICK point \in Points :
        /\ m_isMouseSelected
        /\ InWindow(point)
        /\ m_isMouseSelected' = FALSE
        /\ clipboard' = IF Moved(point)
                        THEN bufferToClipboard(SelectedCells(m_mouseSource, point, window))
                        ELSE clipboard
        /\ drag' = IF Moved(point)
                   THEN [source |-> m_mouseSource, point |-> point,
                         pressedIn |-> drag.pressedIn, releasedIn |-> window]
                   ELSE None
        /\ UNCHANGED <<m_mouseSource, window>>
  BY DEF MouseUp
<1>2. Pressed(point, window)
  BY <1>1, InputAssumption DEF InWindow, Pressed, Within, DragInv
<1>3. Pressed(m_mouseSource, drag.pressedIn)
  BY <1>1 DEF DragInv
<1> HIDE DEF Moved
<1>4. CASE Moved(point)
  BY <1>1, <1>2, <1>3, <1>4 DEF DragInv, Copied
<1>5. CASE ~Moved(point)
  BY <1>1, <1>5 DEF DragInv, Copied, None
<1> QED
  BY <1>4, <1>5

LEMMA DragStep == DragInv /\ [InputNext]_inputVars => DragInv'
<1> SUFFICES ASSUME DragInv, [InputNext]_inputVars PROVE DragInv'
  OBVIOUS
<1>0. window \in Sizes
  BY DEF DragInv
<1>1. CASE KeyDown
  BY <1>0, <1>1, OtherEvent DEF KeyDown
<1>2. CASE TextInput
  BY <1>0, <1>2, OtherEvent DEF TextInput
<1>3. CASE AltH
  BY <1>0, <1>3, OtherEvent DEF AltH
<1>4. CASE AltReturn
  <2>1. window' \in Sizes
    BY <1>4, SizeTypes DEF AltReturn
  <2> QED
    BY <1>4, <2>1, OtherEvent DEF AltReturn
<1>5. CASE Close
  BY <1>0, <1>5, OtherEvent DEF Close
<1>6. CASE Focus
  BY <1>0, <1>6, OtherEvent DEF Focus
<1>7. CASE Resize
  BY <1>7, SizeTypes, OtherEvent DEF Resize
<1>8. CASE MouseDown
  BY <1>8, MouseDownStep
<1>9. CASE MouseUp
  BY <1>9, MouseUpStep
<1>10. CASE Paste
  BY <1>0, <1>10, OtherEvent DEF Paste
<1>11. CASE DeliverInput
  BY <1>0, <1>11, OtherEvent DEF DeliverInput
<1>12. CASE UNCHANGED inputVars
  BY <1>0, <1>12, OtherEvent DEF inputVars, mouseVars
<1> QED
  BY <1>1, <1>2, <1>3, <1>4, <1>5, <1>6, <1>7, <1>8, <1>9, <1>10, <1>11, <1>12
  DEF InputNext, InputEvent

(* DragInv holds throughout: the history of the mouse can be trusted.      *)
THEOREM DragKept == InputSpec => []DragInv
BY DragInit, DragStep, PTL DEF InputSpec


-----------------------------------------------------------------------------
(* What the drag that is kept says of the copy.                            *)

LEMMA PressedTypes ==
    ASSUME NEW p, NEW s, Pressed(p, s)
    PROVE  /\ p[1] \in Nat /\ p[2] \in Nat /\ p[1] < s[1] /\ p[2] < s[2]
           /\ s[1] \in Nat \ {0} /\ s[2] \in Nat \ {0}
BY DEF Pressed, Within, Sizes

LEMMA PositionOnScreen ==
    ASSUME NEW w \in Nat \ {0}, NEW h \in Nat \ {0}, NEW column \in Nat, NEW row \in Nat,
           NEW length \in Nat, NEW rows \in Nat, column + length <= w, row + rows <= h,
           NEW i \in 1 .. rows, NEW j \in 1 .. length
    PROVE  (row + i - 1) * w + column + j - 1 < w * h
<1> DEFINE r == row + i - 1
           c == column + j - 1
<1>1. r \in Nat /\ c \in Nat /\ r <= h - 1 /\ c < w
  OBVIOUS
<1>2. (row + i - 1) * w + column + j - 1 = r * w + c
  BY <1>1
<1> HIDE DEF r, c
<1>3. r * w <= (h - 1) * w
  BY <1>1
<1>4. (h - 1) * w + w = w * h
  OBVIOUS
<1> QED
  BY <1>1, <1>2, <1>3, <1>4

LEMMA OnScreen == DragInv => SelectionOnScreen
<1> SUFFICES ASSUME DragInv, Copied, InOneSize
             PROVE  LET cells == SelectedCells(drag.source, drag.point, drag.releasedIn)
                    IN  /\ cells.column + cells.length <= TermWidth
                        /\ cells.row + cells.rows <= TermHeight
                        /\ \A i \in DOMAIN clipboard : \A j \in DOMAIN clipboard[i] :
                              clipboard[i][j] < TermWidth * TermHeight
  BY DEF SelectionOnScreen
<1> DEFINE cells == SelectedCells(drag.source, drag.point, drag.releasedIn)
<1>1. /\ Pressed(drag.source, drag.releasedIn) /\ Pressed(drag.point, drag.releasedIn)
      /\ clipboard = bufferToClipboard(cells)
  BY DEF DragInv, InOneSize
<1>2. /\ cells.column \in Nat /\ cells.length \in Nat
      /\ cells.column + cells.length <= TermWidth
  BY <1>1, PressedTypes, BoxFits, TermAssumption DEF SelectedCells
<1>3. /\ cells.row \in Nat /\ cells.rows \in Nat
      /\ cells.row + cells.rows <= TermHeight
  BY <1>1, PressedTypes, BoxFits, TermAssumption DEF SelectedCells
<1> HIDE DEF cells
<1>4. ASSUME NEW i \in DOMAIN clipboard, NEW j \in DOMAIN clipboard[i]
      PROVE  clipboard[i][j] < TermWidth * TermHeight
  <2>1. /\ i \in 1 .. cells.rows /\ j \in 1 .. cells.length
        /\ clipboard[i][j] = (cells.row + i - 1) * TermWidth + cells.column + j - 1
    BY <1>1 DEF bufferToClipboard
  <2> QED
    BY <2>1, <1>2, <1>3, PositionOnScreen, TermAssumption
<1> QED
  BY <1>2, <1>3, <1>4 DEF cells

LEMMA IsMeant == DragInv => CopiedIsMeant
<1> SUFFICES ASSUME DragInv, Copied, InOneSize, WholeCells(drag.releasedIn)
             PROVE  clipboard = Meant(drag.source, drag.point, drag.releasedIn)
  BY DEF CopiedIsMeant
<1> DEFINE cells == SelectedCells(drag.source, drag.point, drag.releasedIn)
           left == CellAt(Smaller(drag.source[1], drag.point[1]), drag.releasedIn[1], TermWidth)
           right == CellAt(Larger(drag.source[1], drag.point[1]), drag.releasedIn[1], TermWidth)
           top == CellAt(Smaller(drag.source[2], drag.point[2]), drag.releasedIn[2], TermHeight)
           bottom == CellAt(Larger(drag.source[2], drag.point[2]), drag.releasedIn[2], TermHeight)
<1>1. /\ Pressed(drag.source, drag.releasedIn) /\ Pressed(drag.point, drag.releasedIn)
      /\ clipboard = bufferToClipboard(cells)
  BY DEF DragInv, InOneSize
<1>2. drag.releasedIn[1] % TermWidth = 0 /\ drag.releasedIn[2] % TermHeight = 0
  BY DEF WholeCells
<1>3. cells.column = left /\ cells.length = right - left + 1
  BY <1>1, <1>2, PressedTypes, BoxExact, TermAssumption DEF SelectedCells
<1>4. cells.row = top /\ cells.rows = bottom - top + 1
  BY <1>1, <1>2, PressedTypes, BoxExact, TermAssumption DEF SelectedCells
<1>5. Meant(drag.source, drag.point, drag.releasedIn) =
        [i \in 1 .. bottom - top + 1 |->
            [j \in 1 .. right - left + 1 |-> (top + i - 1) * TermWidth + left + j - 1]]
  BY DEF Meant
<1> HIDE DEF cells, left, right, top, bottom
<1> QED
  BY <1>1, <1>3, <1>4, <1>5 DEF bufferToClipboard

-----------------------------------------------------------------------------
(* SelectionOnScreen: a selection made in a window that keeps its size is  *)
(* copied from positions of the screen, whatever the size of the window    *)
(* and wherever the drag begins and ends.                                  *)
THEOREM SelectionCorrect == InputSpec => []SelectionOnScreen
BY DragKept, OnScreen, PTL

(* CopiedIsMeant: where every cell has whole pixels, calcBoxSize and       *)
(* pullSelectionBuffer lead back to the cells under the two points.        *)
THEOREM CopyCorrect == InputSpec => []CopiedIsMeant
BY DragKept, IsMeant, PTL

-----------------------------------------------------------------------------
(* The list of the directory.                                              *)

Box == BoxSize(0)

\* The row of the selected system.
BarRow(page, position, index) == Theme(index).top + position - Box * page

\* One row of the list is lit: this one, for this system.
OneLit(rows, row, system) ==
    /\ rows \in [1 .. ScreenRows -> Cells]
    /\ rows[row] = [system |-> system, lit |-> TRUE]
    /\ \A q \in 1 .. ScreenRows \ {row} : ~rows[q].lit

ListInv ==
    /\ SameBoxes
    /\ systems \in Nat
    /\ m_current_theme_index \in 0 .. Len(Themes) - 1
    /\ systems = 0 => menu = NewMenu
    /\ systems > 0 =>
          /\ m_lightbar_position \in Nat /\ m_lightbar_position < systems
          /\ m_box_size = Box
          /\ m_current_page = m_lightbar_position \div Box
          /\ m_total_pages = Pages(Box)
          /\ m_current_selection =
                BarRow(m_current_page, m_lightbar_position, m_current_theme_index)
          /\ drawn = [rows |-> drawn.rows, bar |-> drawn.bar]
          /\ OneLit(drawn.rows, m_current_selection, m_lightbar_position)

-----------------------------------------------------------------------------
(* Boxes and pages.                                                        *)

LEMMA ThemeBoxes ==
    ASSUME SameBoxes, NEW index \in 0 .. Len(Themes) - 1
    PROVE  /\ Box \in Nat \ {0} /\ BoxSize(index) = Box
           /\ Theme(index).top \in 1 .. ScreenRows
           /\ Theme(index).top + Box <= ScreenRows
<1>1. /\ index + 1 \in DOMAIN Themes /\ 0 + 1 \in DOMAIN Themes
      /\ ScreenRows \in Nat
  BY ThemesAssumption
<1>2. ASSUME NEW i \in DOMAIN Themes
      PROVE  /\ Themes[i].top \in 1 .. ScreenRows /\ Themes[i].bottom \in 1 .. ScreenRows
             /\ Themes[i].top < Themes[i].bottom
  <2> DEFINE T == [top : 1 .. ScreenRows, bottom : 1 .. ScreenRows, prompt : STRING]
  <2>1. Themes \in Seq(T)
    BY ThemesAssumption
  <2>2. Themes[i] \in T
    <3> HIDE DEF T
    <3> QED
      BY <2>1
  <2> QED
    BY <2>2, ThemesAssumption
<1> QED
  BY <1>1, <1>2 DEF SameBoxes, Box, BoxSize, Theme

(* The page of a position is the one whose bounds hold it.                 *)
LEMMA PageOfPosition ==
    ASSUME NEW box \in Nat \ {0}, NEW position \in Nat, NEW page \in Nat
    PROVE  page = position \div box <=> box * page <= position /\ position < box * (page + 1)
<1> DEFINE q == position \div box
<1>1. q \in Nat /\ q * box <= position /\ position < (q + 1) * box
  BY Quotient
<1> HIDE DEF q
<1>2. ASSUME page = q PROVE box * page <= position /\ position < box * (page + 1)
  BY <1>1, <1>2
<1>3. ASSUME box * page <= position, position < box * (page + 1) PROVE page = q
  <2>1. box * page < box * (q + 1) /\ box * q < box * (page + 1)
    BY <1>1, <1>3
  <2>2. page < q + 1 /\ q < page + 1
    BY <2>1, <1>1
  <2> QED
    BY <2>2, <1>1
<1> QED
  BY <1>2, <1>3 DEF q

(* The pages hold all systems, and the last page holds one at least.       *)
LEMMA PagesBound ==
    ASSUME NEW box \in Nat \ {0}, systems \in Nat \ {0}
    PROVE  /\ Pages(box) \in Nat \ {0}
           /\ box * (Pages(box) - 1) < systems /\ systems <= box * Pages(box)
           /\ Pages(box) = 1 <=> systems <= box
<1> DEFINE q == systems \div box
<1>1. q \in Nat /\ q * box <= systems /\ systems < (q + 1) * box
  BY Quotient
<1>2. systems % box \in 0 .. box - 1
  OBVIOUS
<1>3. ASSUME systems % box = 0 PROVE systems = q * box
  <2>1. PICK k \in Nat : systems = k * box
    BY <1>3, Multiple
  <2> QED
    BY <2>1, ExactQuotient
<1>4. ASSUME systems % box > 0 PROVE q * box < systems
  <2> SUFFICES ASSUME systems = q * box PROVE FALSE
    BY <1>1
  <2>1. (q * box) % box = 0
    <3> HIDE DEF q
    <3> QED
      BY <1>1
  <2> QED
    BY <2>1, <1>4
<1>5. Pages(box) = IF systems <= box THEN 1 ELSE q + (IF systems % box > 0 THEN 1 ELSE 0)
  BY DEF Pages
<1> HIDE DEF q
<1>6. CASE systems <= box
  BY <1>5, <1>6
<1>7. CASE systems > box
  <2>1. q >= 1
    BY <1>1, <1>7
  <2>2. CASE systems % box > 0
    <3>1. Pages(box) = q + 1
      BY <1>5, <1>7, <2>2
    <3> QED
      BY <3>1, <1>1, <1>4, <2>1, <2>2, <1>7
  <2>3. CASE systems % box = 0
    <3>1. Pages(box) = q /\ systems = q * box
      BY <1>5, <1>7, <2>3, <1>1, <1>3
    <3>2. q # 1
      <4> SUFFICES ASSUME q = 1 PROVE FALSE
        OBVIOUS
      <4>1. systems = box
        BY <3>1
      <4> QED
        BY <4>1, <1>7
    <3> QED
      BY <3>1, <3>2, <2>1, <1>1, <1>7
  <2> QED
    BY <2>2, <2>3, <1>2
<1> QED
  BY <1>6, <1>7


-----------------------------------------------------------------------------
(* Drawing the list.                                                       *)

\* Rows that drawVectorList draws over, so that what was lit there is not.
Overdrawn(q, page, index) ==
    /\ q - Theme(index).top \in 0 .. Box - 1
    /\ Pages(Box) > 1 \/ Box * page + (q - Theme(index).top) < systems

\* What is lit in the picture a handler leaves is drawn over.
PictureFits(rows, page, index) ==
    /\ rows \in [1 .. ScreenRows -> Cells]
    /\ \A q \in 1 .. ScreenRows : rows[q].lit => Overdrawn(q, page, index)

(* The row of the bar lies in the box.                                     *)
LEMMA BarInBox ==
    ASSUME SameBoxes, NEW index \in 0 .. Len(Themes) - 1, NEW position \in Nat,
           NEW page \in Nat, page = position \div Box
    PROVE  /\ BarRow(page, position, index) - Theme(index).top \in 0 .. Box - 1
           /\ BarRow(page, position, index) \in 1 .. ScreenRows
           /\ Box * page + (BarRow(page, position, index) - Theme(index).top) = position
<1>1. /\ Box \in Nat \ {0} /\ Theme(index).top \in 1 .. ScreenRows
      /\ Theme(index).top + Box <= ScreenRows
  BY ThemeBoxes
<1>2. Box * page <= position /\ position < Box * (page + 1)
  BY <1>1, PageOfPosition
<1> DEFINE first == Box * page
           top == Theme(index).top
<1>3. first \in Nat /\ Box * (page + 1) = first + Box
  BY <1>1
<1>4. ScreenRows \in Nat
  BY ThemesAssumption
<1> HIDE DEF first
<1>5. top + position - first \in Int
  BY <1>1, <1>3
<1>6. first <= position /\ position < first + Box
  BY <1>2, <1>3 DEF first
<1>7. BarRow(page, position, index) = top + position - first
  BY DEF BarRow, first
<1>8. first + (BarRow(page, position, index) - top) = position
  BY <1>1, <1>3, <1>7
<1> HIDE DEF top
<1>9. BarRow(page, position, index) - top \in 0 .. Box - 1
      /\ BarRow(page, position, index) \in 1 .. ScreenRows
  BY <1>1, <1>3, <1>4, <1>6, <1>7 DEF top
<1> QED
  BY <1>8, <1>9 DEF first, top

LEMMA BarOffset ==
    ASSUME SameBoxes, NEW index \in 0 .. Len(Themes) - 1, NEW position \in Nat,
           NEW page \in Nat
    PROVE  /\ BarRow(page, position, index) - Theme(index).top = position - Box * page
           /\ BarRow(page, position, index) = Theme(index).top + (position - Box * page)
<1> DEFINE first == Box * page
           top == Theme(index).top
<1>1. first \in Nat /\ top \in Nat
  BY ThemeBoxes, ThemesAssumption
<1>2. BarRow(page, position, index) = top + position - first
  BY DEF BarRow
<1> HIDE DEF first, top
<1>3. /\ BarRow(page, position, index) - top = position - first
      /\ BarRow(page, position, index) = top + (position - first)
  BY <1>1, <1>2
<1> QED
  BY <1>3 DEF first, top

LEMMA DrawnRows ==
    ASSUME SameBoxes, systems \in Nat \ {0}, NEW index \in 0 .. Len(Themes) - 1,
           NEW position \in Nat, position < systems,
           NEW page \in Nat, page = position \div Box,
           NEW rows, PictureFits(rows, page, index)
    PROVE  OneLit(DrawVectorList(rows, page, position, index),
                  BarRow(page, position, index), position)
<1> DEFINE top == Theme(index).top
           row == BarRow(page, position, index)
           drawnRows == DrawVectorList(rows, page, position, index)
<1>1. /\ Box \in Nat \ {0} /\ BoxSize(index) = Box /\ top \in 1 .. ScreenRows
      /\ ScreenRows \in Nat
  BY ThemeBoxes, ThemesAssumption
<1>2. /\ row - top \in 0 .. Box - 1 /\ row \in 1 .. ScreenRows
      /\ Box * page + (row - top) = position
  BY BarInBox
<1>3. Box * page \in Nat
  BY <1>1
<1>4. \A q \in 1 .. ScreenRows :
        /\ q - top \in 0 .. Box - 1 => SystemAt(q, page, index) = Box * page + (q - top)
        /\ q - top \notin 0 .. Box - 1 => SystemAt(q, page, index) = systems
        /\ SystemAt(q, page, index) \in Nat
  BY <1>1, <1>3 DEF SystemAt
<1>5. drawnRows =
        [r \in 1 .. ScreenRows |->
            IF SystemAt(r, page, index) < systems
            THEN [system |-> SystemAt(r, page, index),
                  lit |-> SystemAt(r, page, index) = position]
            ELSE IF Pages(Box) > 1 /\ r - top \in 0 .. Box - 1
                 THEN Empty
                 ELSE rows[r]]
  BY <1>1 DEF DrawVectorList
<1>6. /\ rows \in [1 .. ScreenRows -> Cells]
      /\ \A q \in 1 .. ScreenRows : rows[q].lit => Overdrawn(q, page, index)
  BY DEF PictureFits
<1> HIDE DEF row, drawnRows, top
<1>7. drawnRows \in [1 .. ScreenRows -> Cells]
  <2>1. ASSUME NEW q \in 1 .. ScreenRows PROVE drawnRows[q] \in Cells
    BY <2>1, <1>4, <1>5, <1>6 DEF Cells, Empty
  <2> QED
    BY <2>1, <1>5
<1>8. drawnRows[row] = [system |-> position, lit |-> TRUE]
  BY <1>2, <1>4, <1>5
<1>9. ASSUME NEW q \in 1 .. ScreenRows \ {row} PROVE ~drawnRows[q].lit
  <2>1. CASE SystemAt(q, page, index) < systems
    <3>1. SystemAt(q, page, index) # position
      <4> DEFINE first == Box * page
      <4>1. SystemAt(q, page, index) = first + (q - top) /\ first + (row - top) = position
        BY <2>1, <1>2, <1>4
      <4> HIDE DEF first
      <4> QED
        BY <4>1, <1>1, <1>2, <1>3 DEF first
    <3> QED
      BY <2>1, <3>1, <1>5
  <2>2. CASE SystemAt(q, page, index) >= systems
    <3>1. CASE Pages(Box) > 1 /\ q - top \in 0 .. Box - 1
      BY <3>1, <2>2, <1>4, <1>5 DEF Empty
    <3>2. CASE ~(Pages(Box) > 1 /\ q - top \in 0 .. Box - 1)
      <4>1. drawnRows[q] = rows[q]
        BY <3>2, <2>2, <1>4, <1>5
      <4>2. ~Overdrawn(q, page, index)
        BY <3>2, <2>2, <1>4 DEF Overdrawn, top
      <4> QED
        BY <4>1, <4>2, <1>6
    <3> QED
      BY <3>1, <3>2
  <2> QED
    BY <2>1, <2>2, <1>4
<1> QED
  BY <1>7, <1>8, <1>9 DEF OneLit, row, drawnRows


-----------------------------------------------------------------------------
(* updateDialDirectory restores ListInv when the page is the right one.    *)
LEMMA Redraw ==
    ASSUME ListInv, systems > 0, UNCHANGED systems,
           NEW index \in 0 .. Len(Themes) - 1,
           NEW position \in Nat, position < systems,
           NEW page \in Nat, page = position \div Box,
           NEW m, NEW picture, PictureFits(picture.rows, page, index),
           updateDialDirectory(page, position, index, m, picture)
    PROVE  ListInv'
<1>1. SameBoxes /\ systems \in Nat \ {0} /\ m_box_size = Box
  BY DEF ListInv
<1>2. BoxSize(index) = Box
  BY <1>1, ThemeBoxes
<1>3. OneLit(DrawVectorList(picture.rows, page, position, index),
             BarRow(page, position, index), position)
  BY <1>1, DrawnRows
<1>4. SelectionRow(page, position, index) = BarRow(page, position, index)
  <2>1. BarRow(page, position, index) - Theme(index).top \in 0 .. Box - 1
    BY <1>1, BarInBox
  <2>2. /\ BarRow(page, position, index) - Theme(index).top = position - Box * page
        /\ BarRow(page, position, index) = Theme(index).top + (position - Box * page)
    BY <1>1, BarOffset
  <2> QED
    BY <1>2, <2>1, <2>2 DEF SelectionRow
<1>5. /\ m_current_page' = page /\ m_lightbar_position' = position
      /\ m_current_theme_index' = index /\ m_total_pages' = Pages(BoxSize(index))
      /\ m_current_selection' = SelectionRow(page, position, index)
      /\ \E bar : drawn' = [rows |-> DrawVectorList(picture.rows, page, position, index),
                            bar |-> bar]
      /\ m_box_size' = m_box_size
  BY DEF updateDialDirectory
<1>6. Pages(Box)' = Pages(Box)
  BY DEF Pages
<1>7. drawn'.rows = DrawVectorList(picture.rows, page, position, index)
      /\ drawn' = [rows |-> drawn'.rows, bar |-> drawn'.bar]
  BY <1>5
<1>8. /\ m_box_size' = Box /\ m_total_pages' = Pages(Box)'
      /\ m_current_selection' = BarRow(page, position, index)
      /\ OneLit(drawn'.rows, m_current_selection', position)
  BY <1>1, <1>2, <1>3, <1>4, <1>5, <1>6, <1>7
<1> HIDE DEF Box, BarRow, Pages, OneLit
<1> QED
  BY <1>1, <1>5, <1>7, <1>8 DEF ListInv

(* The pictures the handlers leave.                                        *)

LEMMA SamePictureFits ==
    ASSUME ListInv, systems > 0, NEW page, page = m_current_page \/ Pages(Box) > 1
    PROVE  PictureFits(drawn.rows, page, m_current_theme_index)
<1> DEFINE row == BarRow(m_current_page, m_lightbar_position, m_current_theme_index)
<1>1. /\ SameBoxes /\ m_lightbar_position \in Nat /\ m_lightbar_position < systems
      /\ m_current_page = m_lightbar_position \div Box
      /\ OneLit(drawn.rows, row, m_lightbar_position)
      /\ m_current_theme_index \in 0 .. Len(Themes) - 1
  BY DEF ListInv
<1>2. m_current_page \in Nat
  BY <1>1, ThemeBoxes, Quotient
<1>3. /\ row - Theme(m_current_theme_index).top \in 0 .. Box - 1
      /\ Box * m_current_page + (row - Theme(m_current_theme_index).top) = m_lightbar_position
  BY <1>1, <1>2, BarInBox
<1> HIDE DEF row
<1>4. Overdrawn(row, page, m_current_theme_index)
  BY <1>1, <1>3 DEF Overdrawn
<1> QED
  BY <1>1, <1>4 DEF PictureFits, OneLit

LEMMA BlankFits == \A page, index : PictureFits(Blank.rows, page, index)
BY DEF PictureFits, Blank, Empty, Cells


-----------------------------------------------------------------------------
(* The handlers, one by one.  rows are those of the picture after          *)
(* menuProcess, which changes none.                                        *)

LEMMA Facts ==
    ASSUME ListInv, systems > 0
    PROVE  /\ SameBoxes /\ systems \in Nat \ {0}
           /\ m_current_theme_index \in 0 .. Len(Themes) - 1
           /\ Box \in Nat \ {0} /\ m_box_size = Box
           /\ m_lightbar_position \in Nat /\ m_lightbar_position < systems
           /\ m_current_page \in Nat /\ m_current_page = m_lightbar_position \div Box
           /\ Box * m_current_page <= m_lightbar_position
           /\ m_lightbar_position < Box * (m_current_page + 1)
           /\ m_total_pages = Pages(Box) /\ Pages(Box) \in Nat \ {0}
           /\ Box * (Pages(Box) - 1) < systems /\ systems <= Box * Pages(Box)
           /\ Pages(Box) = 1 <=> systems <= Box
<1>1. /\ SameBoxes /\ systems \in Nat \ {0}
      /\ m_current_theme_index \in 0 .. Len(Themes) - 1
      /\ m_box_size = Box
      /\ m_lightbar_position \in Nat /\ m_lightbar_position < systems
      /\ m_current_page = m_lightbar_position \div Box
      /\ m_total_pages = Pages(Box)
  BY DEF ListInv
<1>2. Box \in Nat \ {0}
  BY <1>1, ThemeBoxes
<1>3. m_current_page \in Nat
  BY <1>1, <1>2, Quotient
<1>4. /\ Box * m_current_page <= m_lightbar_position
      /\ m_lightbar_position < Box * (m_current_page + 1)
  BY <1>1, <1>2, <1>3, PageOfPosition
<1>5. /\ Pages(Box) \in Nat \ {0}
      /\ Box * (Pages(Box) - 1) < systems /\ systems <= Box * Pages(Box)
      /\ Pages(Box) = 1 <=> systems <= Box
  BY <1>1, <1>2, PagesBound
<1> QED
  BY <1>1, <1>2, <1>3, <1>4, <1>5

(* Nothing moves: NoAction, and the other handlers at their ends.          *)
LEMMA StayStep ==
    ASSUME ListInv, systems > 0, UNCHANGED systems, NEW m, NEW picture,
           PictureFits(picture.rows, m_current_page, m_current_theme_index),
           updateDialDirectory(m_current_page, m_lightbar_position, m_current_theme_index,
                               m, picture)
    PROVE  ListInv'
BY Facts, Redraw

(* The bar goes to the first system of a page that has one.                *)
LEMMA FirstOfPage ==
    ASSUME ListInv, systems > 0, UNCHANGED systems, NEW m, NEW picture,
           picture.rows = drawn.rows, NEW page \in Nat, page < Pages(Box),
           page = m_current_page \/ Pages(Box) > 1,
           updateDialDirectory(page, page * Box, m_current_theme_index, m, picture)
    PROVE  ListInv'
<1>1. PictureFits(picture.rows, page, m_current_theme_index)
  BY SamePictureFits
<1>2. Box \in Nat \ {0} /\ Pages(Box) \in Nat /\ Box * (Pages(Box) - 1) < systems
      /\ systems \in Nat /\ m_current_theme_index \in 0 .. Len(Themes) - 1
  BY Facts
<1>3. page * Box \in Nat /\ (page * Box) \div Box = page
  BY <1>2, ExactQuotient
<1>4. page * Box < systems
  <2> DEFINE last == Pages(Box) - 1
  <2>1. page <= last /\ last \in Nat
    BY <1>2
  <2> HIDE DEF last
  <2>2. page * Box <= Box * last
    BY <2>1, <1>2
  <2> QED
    BY <1>2, <1>3, <2>1, <2>2 DEF last
<1> QED
  BY <1>1, <1>2, <1>3, <1>4, Redraw

(* A page that begins before the last system is one of the pages.          *)
LEMMA PageExists ==
    ASSUME ListInv, systems > 0, NEW page \in Nat, Box * page < systems
    PROVE  page < Pages(Box)
<1>1. systems <= Box * Pages(Box) /\ Box \in Nat \ {0} /\ Pages(Box) \in Nat /\ systems \in Nat
  BY Facts
<1>2. Box * page < Box * Pages(Box)
  BY <1>1
<1> DEFINE pages == Pages(Box)
<1> HIDE DEF Box, pages
<1> QED
  BY <1>1, <1>2 DEF pages

LEMMA PageUpStep ==
    ASSUME ListInv, systems > 0, UNCHANGED systems, NEW m, NEW picture,
           picture.rows = drawn.rows, PageUp(m, picture)
    PROVE  ListInv'
<1>1. CASE m_current_page = 0
  BY <1>1, StayStep, SamePictureFits DEF PageUp
<1>2. CASE m_current_page # 0
  <2> DEFINE page == m_current_page - 1
  <2>1. page \in Nat /\ page < Pages(Box) /\ Pages(Box) > 1
    <3>1. m_current_page \in Nat \ {0} /\ Pages(Box) \in Nat /\ m_current_page < Pages(Box)
      <4>1. m_current_page \in Nat \ {0} /\ Box * m_current_page < systems /\ Pages(Box) \in Nat
        BY <1>2, Facts
      <4> QED
        BY <4>1, PageExists
    <3> QED
      BY <3>1
  <2>2. updateDialDirectory(page, page * Box, m_current_theme_index, m, picture)
    BY <1>2, Facts DEF PageUp
  <2> QED
    BY <2>1, <2>2, FirstOfPage
<1> QED
  BY <1>1, <1>2

LEMMA PageDownStep ==
    ASSUME ListInv, systems > 0, UNCHANGED systems, NEW m, NEW picture,
           picture.rows = drawn.rows, PageDown(m, picture)
    PROVE  ListInv'
<1>1. CASE m_current_page + 1 = m_total_pages
  BY <1>1, StayStep, SamePictureFits DEF PageDown
<1>2. CASE m_current_page + 1 # m_total_pages
  <2> DEFINE page == m_current_page + 1
  <2>1. page \in Nat /\ page < Pages(Box) /\ Pages(Box) > 1
    <3>1. m_current_page \in Nat /\ Pages(Box) \in Nat /\ m_current_page < Pages(Box)
          /\ m_current_page + 1 # Pages(Box)
      <4>1. m_current_page \in Nat /\ Box * m_current_page < systems /\ Pages(Box) \in Nat
            /\ m_current_page + 1 # Pages(Box)
        BY <1>2, Facts
      <4> QED
        BY <4>1, PageExists
    <3> QED
      BY <3>1
  <2>2. updateDialDirectory(page, page * Box, m_current_theme_index, m, picture)
    BY <1>2, Facts DEF PageDown
  <2> QED
    BY <2>1, <2>2, FirstOfPage
<1> QED
  BY <1>1, <1>2



\* The picture after menuProcess.
AfterMenu(picture, bar) == picture = [rows |-> drawn.rows, bar |-> bar]

LEMMA MovedFits ==
    ASSUME ListInv, systems > 0, NEW picture, NEW bar, AfterMenu(picture, bar),
           NEW from \in Nat, NEW to \in Nat, to < systems, m_current_page = to \div Box
    PROVE  PictureFits(MoveBar(picture, from, m_current_selection, to,
                               BarRow(m_current_page, to, m_current_theme_index)).rows,
                       m_current_page, m_current_theme_index)
<1> DEFINE toRow == BarRow(m_current_page, to, m_current_theme_index)
           moved == MoveBar(picture, from, m_current_selection, to, toRow).rows
<1>1. Overdrawn(toRow, m_current_page, m_current_theme_index)
  <2>1. /\ toRow - Theme(m_current_theme_index).top \in 0 .. Box - 1
        /\ Box * m_current_page + (toRow - Theme(m_current_theme_index).top) = to
    BY Facts, BarInBox
  <2> QED
    BY <2>1 DEF Overdrawn
<1>2. OneLit(drawn.rows, m_current_selection, m_lightbar_position)
  BY DEF ListInv
<1>3. moved = [r \in 1 .. ScreenRows |->
                CASE r = toRow               -> [system |-> to, lit |-> TRUE]
                  [] r = m_current_selection -> [system |-> from, lit |-> FALSE]
                  [] OTHER                   -> drawn.rows[r]]
  BY DEF MoveBar, AfterMenu
<1> HIDE DEF toRow, moved
<1>4. ASSUME NEW r \in 1 .. ScreenRows
      PROVE  moved[r] \in Cells /\ (r # toRow => ~moved[r].lit)
  <2>1. CASE r = toRow
    BY <2>1, <1>3 DEF Cells
  <2>2. CASE r # toRow /\ r = m_current_selection
    BY <2>2, <1>3 DEF Cells
  <2>3. CASE r # toRow /\ r # m_current_selection
    BY <2>3, <1>2, <1>3 DEF OneLit
  <2> QED
    BY <2>1, <2>2, <2>3
<1>5. moved \in [1 .. ScreenRows -> Cells]
  BY <1>3, <1>4
<1> QED
  BY <1>1, <1>4, <1>5 DEF PictureFits, moved, toRow

LEMMA BarMoves ==
    ASSUME ListInv, systems > 0, NEW to \in Nat
    PROVE  /\ to = m_lightbar_position + 1 =>
                m_current_selection + 1 = BarRow(m_current_page, to, m_current_theme_index)
           /\ to = m_lightbar_position - 1 =>
                m_current_selection - 1 = BarRow(m_current_page, to, m_current_theme_index)
<1> DEFINE first == Box * m_current_page
           top == Theme(m_current_theme_index).top
<1>1. /\ SameBoxes /\ m_current_theme_index \in 0 .. Len(Themes) - 1
      /\ m_lightbar_position \in Nat /\ m_current_page \in Nat /\ Box \in Nat
  BY Facts
<1>2. first \in Nat /\ top \in Nat
  BY <1>1, ThemeBoxes, ThemesAssumption
<1>3. m_current_selection = top + m_lightbar_position - first
  BY DEF ListInv, BarRow
<1>4. BarRow(m_current_page, to, m_current_theme_index) = top + to - first
  BY DEF BarRow
<1> HIDE DEF first, top
<1> QED
  BY <1>1, <1>2, <1>3, <1>4

LEMMA NextSystemStep ==
    ASSUME ListInv, systems > 0, UNCHANGED systems, NEW m, NEW picture, NEW bar,
           AfterMenu(picture, bar), NextSystem(m, picture)
    PROVE  ListInv'
<1> DEFINE to == m_lightbar_position + 1
<1>0. picture.rows = drawn.rows /\ to \in Nat /\ to - 1 = m_lightbar_position
  BY Facts DEF AfterMenu
<1>1. CASE to >= systems
  BY <1>0, <1>1, StayStep, SamePictureFits DEF NextSystem
<1>2. CASE to < systems /\ to < m_box_size * (m_current_page + 1)
  <2>1. to + 1 < m_box_size * (m_current_page + 1) + 1 /\ ~(to >= systems)
    BY <1>0, <1>2, Facts
  <2>2. m_current_page = to \div Box
    <3>1. /\ to \in Nat /\ m_current_page \in Nat /\ Box \in Nat \ {0}
          /\ Box * m_current_page <= to /\ to < Box * (m_current_page + 1)
      <4> DEFINE first == Box * m_current_page
      <4>1. /\ first \in Nat /\ first <= m_lightbar_position /\ m_lightbar_position \in Nat
            /\ m_current_page \in Nat /\ Box \in Nat \ {0} /\ m_box_size = Box
        BY Facts
      <4> HIDE DEF first
      <4>2. first <= to
        BY <4>1
      <4> QED
        BY <1>0, <1>2, <4>1, <4>2 DEF first
    <3> QED
      BY <3>1, PageOfPosition
  <2>3. updateDialDirectory(m_current_page, to, m_current_theme_index, m,
            MoveBar(picture, m_lightbar_position, m_current_selection, to,
                    BarRow(m_current_page, to, m_current_theme_index)))
    BY <1>0, <2>1, BarMoves DEF NextSystem
  <2> HIDE DEF to
  <2> QED
    BY <1>0, <1>2, <2>2, <2>3, MovedFits, Redraw, Facts
<1>3. CASE to < systems /\ ~(to < m_box_size * (m_current_page + 1))
  <2> DEFINE page == m_current_page + 1
  <2>1. to = page * Box /\ page \in Nat
    <3>1. /\ m_current_page \in Nat /\ Box \in Nat \ {0} /\ m_box_size = Box
          /\ m_lightbar_position \in Nat /\ m_lightbar_position < Box * page
      BY Facts
    <3> DEFINE next == Box * page
    <3>2. next \in Nat /\ next = page * Box /\ page \in Nat
      BY <3>1
    <3>3. m_lightbar_position < next /\ ~(to < next)
      BY <1>3, <3>1
    <3> HIDE DEF next
    <3>4. to = next
      BY <3>1, <3>2, <3>3
    <3> QED
      BY <3>2, <3>4
  <2>2. ~(to + 1 < m_box_size * (m_current_page + 1) + 1) /\ ~(to >= systems)
    BY <1>0, <1>3, Facts
  <2>3. updateDialDirectory(page, to, m_current_theme_index, m, picture)
    BY <2>2 DEF NextSystem
  <2>4. page < Pages(Box) /\ Pages(Box) > 1
    <3>1. page < Pages(Box)
      BY <1>3, <2>1, PageExists, Facts
    <3> QED
      BY <3>1, Facts
  <2> HIDE DEF to, page
  <2> QED
    BY <1>0, <2>1, <2>3, <2>4, FirstOfPage
<1> QED
  BY <1>0, <1>1, <1>2, <1>3, Facts

LEMMA PreviousSystemStep ==
    ASSUME ListInv, systems > 0, UNCHANGED systems, NEW m, NEW picture, NEW bar,
           AfterMenu(picture, bar), PreviousSystem(m, picture)
    PROVE  ListInv'
<1> DEFINE to == m_lightbar_position - 1
<1>0. picture.rows = drawn.rows
  BY DEF AfterMenu
<1>1. CASE m_lightbar_position = 0
  BY <1>0, <1>1, StayStep, SamePictureFits DEF PreviousSystem
<1>2. CASE m_lightbar_position # 0 /\ to + 1 > m_box_size * m_current_page
  <2>1. to \in Nat /\ to < systems /\ to + 1 = m_lightbar_position
    BY <1>2, Facts
  <2>2. m_current_page = to \div Box
    <3>1. /\ m_current_page \in Nat /\ Box \in Nat \ {0} /\ m_box_size = Box
          /\ m_lightbar_position \in Nat /\ m_lightbar_position < Box * (m_current_page + 1)
      BY Facts
    <3> DEFINE first == Box * m_current_page
               next == Box * (m_current_page + 1)
    <3>2. first \in Nat /\ next \in Nat
      BY <3>1
    <3>3. to + 1 > first /\ m_lightbar_position < next
      BY <1>2, <3>1
    <3> HIDE DEF first, next
    <3>4. first <= to /\ to < next
      BY <2>1, <3>1, <3>2, <3>3
    <3> QED
      BY <2>1, <3>1, <3>4, PageOfPosition DEF first, next
  <2>3. updateDialDirectory(m_current_page, to, m_current_theme_index, m,
            MoveBar(picture, m_lightbar_position, m_current_selection, to,
                    BarRow(m_current_page, to, m_current_theme_index)))
    BY <1>2, <2>1, BarMoves DEF PreviousSystem
  <2> HIDE DEF to
  <2> QED
    BY <2>1, <2>2, <2>3, MovedFits, Redraw, Facts
<1>3. CASE m_lightbar_position # 0 /\ ~(to + 1 > m_box_size * m_current_page)
  <2> DEFINE page == m_current_page - 1
  <2>1. to \in Nat /\ to < systems /\ to + 1 = m_lightbar_position
        /\ m_lightbar_position = Box * m_current_page
    BY <1>3, Facts
  <2>2. page \in Nat
    <3>1. m_current_page \in Nat /\ Box \in Nat
      BY Facts
    <3>2. m_current_page # 0
      BY <1>3, <2>1, <3>1
    <3> QED
      BY <3>1, <3>2
  <2>3. Box * page <= to /\ to < Box * (page + 1)
    <3>1. Box \in Nat \ {0} /\ m_current_page \in Nat
      BY Facts
    <3>2. Box * (page + 1) = to + 1 /\ Box * page = Box * m_current_page - Box
      BY <3>1, <2>1
    <3> QED
      BY <3>1, <3>2, <2>1
  <2>4. page = to \div Box
    BY <2>1, <2>2, <2>3, PageOfPosition, Facts
  <2>5. updateDialDirectory(page, to, m_current_theme_index, m, picture)
    BY <1>3 DEF PreviousSystem
  <2>6. Pages(Box) > 1
    <3>1. m_current_page < Pages(Box)
      BY PageExists, Facts
    <3> QED
      BY <3>1, <2>2, Facts
  <2>7. PictureFits(picture.rows, page, m_current_theme_index)
    BY <1>0, <2>6, SamePictureFits
  <2> HIDE DEF to, page
  <2> QED
    BY <2>1, <2>2, <2>4, <2>5, <2>7, Redraw, Facts
<1> QED
  BY <1>1, <1>2, <1>3


LEMMA FirstSystemStep ==
    ASSUME ListInv, systems > 0, UNCHANGED systems, NEW m, NEW picture,
           picture.rows = drawn.rows, FirstSystem(m, picture)
    PROVE  ListInv'
<1>1. Box \in Nat \ {0} /\ systems \in Nat /\ Pages(Box) \in Nat \ {0} /\ m_current_page \in Nat
      /\ Box * m_current_page < systems
  BY Facts
<1>2. m_current_page < Pages(Box)
  BY <1>1, PageExists
<1>3. 0 < Pages(Box) /\ (0 = m_current_page \/ Pages(Box) > 1) /\ 0 * Box = 0
  BY <1>1, <1>2
<1>4. updateDialDirectory(0, 0 * Box, m_current_theme_index, m, picture)
  BY <1>3 DEF FirstSystem
<1> QED
  BY <1>3, <1>4, FirstOfPage

LEMMA LastSystemStep ==
    ASSUME ListInv, systems > 0, UNCHANGED systems, NEW m, NEW picture,
           picture.rows = drawn.rows, LastSystem(m, picture)
    PROVE  ListInv'
<1> DEFINE page == Pages(Box) - 1
           position == systems - 1
<1>1. /\ Box \in Nat \ {0} /\ systems \in Nat \ {0} /\ Pages(Box) \in Nat \ {0}
      /\ Box * page < systems /\ systems <= Box * Pages(Box)
      /\ m_current_page \in Nat /\ Box * m_current_page < systems
      /\ m_current_theme_index \in 0 .. Len(Themes) - 1 /\ m_total_pages = Pages(Box)
  BY Facts
<1>2. page = m_current_page \/ Pages(Box) > 1
  <2>1. m_current_page < Pages(Box)
    BY <1>1, PageExists
  <2> QED
    BY <1>1, <2>1
<1>3. page \in Nat /\ position \in Nat /\ position < systems
  BY <1>1
<1>4. page = position \div Box
  <2>1. page + 1 = Pages(Box)
    BY <1>1
  <2> DEFINE first == Box * page
             next == Box * Pages(Box)
  <2>2. first \in Nat /\ next \in Nat /\ first < systems /\ systems <= next
    BY <1>1, <1>3
  <2> HIDE DEF first, next
  <2>3. first <= position /\ position < next
    BY <1>1, <2>2
  <2> HIDE DEF page, position
  <2> QED
    BY <1>1, <1>3, <2>1, <2>3, PageOfPosition DEF first, next
<1>5. PictureFits(picture.rows, page, m_current_theme_index)
  BY <1>2, SamePictureFits
<1>6. updateDialDirectory(page, position, m_current_theme_index, m, picture)
  BY <1>1 DEF LastSystem
<1> HIDE DEF page, position
<1> QED
  BY <1>1, <1>3, <1>4, <1>5, <1>6, Redraw

LEMMA DrawHeaderStep ==
    ASSUME ListInv, systems > 0, UNCHANGED systems, NEW m, DrawHeader(m)
    PROVE  ListInv'
BY StayStep, BlankFits DEF DrawHeader

LEMMA ChangeThemeStep ==
    ASSUME ListInv, systems > 0, UNCHANGED systems, NEW m, NEW step \in {-1, 1},
           changeTheme(step, m)
    PROVE  ListInv'
<1> DEFINE index == IF m_current_theme_index + step + 1 \in DOMAIN Themes
                    THEN m_current_theme_index + step ELSE m_current_theme_index
<1>1. index \in 0 .. Len(Themes) - 1
  <2>1. DOMAIN Themes = 1 .. Len(Themes) /\ m_current_theme_index \in 0 .. Len(Themes) - 1
        /\ Len(Themes) \in Nat
    BY Facts, ThemesAssumption
  <2> QED
    BY <2>1
<1>2. updateDialDirectory(m_current_page, m_lightbar_position, index,
                          [m EXCEPT !.m_previous_menu = ""], Blank)
  BY DEF changeTheme
<1>3. PictureFits(Blank.rows, m_current_page, index)
  BY BlankFits
<1> HIDE DEF index
<1> QED
  BY <1>1, <1>2, <1>3, Facts, Redraw

LEMMA NoActionStep ==
    ASSUME ListInv, UNCHANGED systems, NEW m, NEW picture,
           systems > 0 => picture.rows = drawn.rows, NoAction(m, picture)
    PROVE  ListInv'
<1>1. CASE systems = 0
  <2>1. UNCHANGED listVars
    BY <1>1 DEF NoAction
  <2> QED
    BY <1>1, <2>1 DEF ListInv, listVars
<1>2. CASE systems > 0
  BY <1>2, StayStep, SamePictureFits DEF NoAction
<1> QED
  BY <1>1, <1>2 DEF ListInv

-----------------------------------------------------------------------------
(* The steps of the main loop.                                             *)

(* Without commands the menu answers nothing, and an empty directory has   *)
(* no menu.                                                                *)
LEMMA EmptyIsSilent ==
    ASSUME ListInv, NEW input, menuProcess(menu, input).parameters \in Commands
    PROVE  systems > 0
<1> SUFFICES ASSUME systems = 0 PROVE FALSE
  BY DEF ListInv
<1>1. menu.m_command_record = <<>>
  <2>1. menu = NewMenu
    BY DEF ListInv
  <2>2. NewMenu.m_command_record = <<>>
    BY DEF NewMenu
  <2> QED
    BY <2>1, <2>2
<1>2. menuProcess(menu, input).parameters = ""
  BY <1>1 DEF menuProcess
<1> QED
  BY <1>2 DEF Commands

LEMMA MenuPicture ==
    ASSUME ListInv, systems > 0, NEW m, NEW input
    PROVE  /\ \E bar : AfterMenu(Picture(m, input), bar)
           /\ Picture(m, input).rows = drawn.rows
<1>1. drawn = [rows |-> drawn.rows, bar |-> drawn.bar]
  BY DEF ListInv
<1>2. [drawn EXCEPT !.bar = m.m_choice] = [rows |-> drawn.rows, bar |-> m.m_choice]
  BY <1>1
<1>3. Picture(m, input) \in {drawn, [drawn EXCEPT !.bar = m.m_choice]}
  BY DEF Picture
<1> QED
  BY <1>1, <1>2, <1>3 DEF AfterMenu


LEMMA UpdateStep == ListInv /\ Update => ListInv'
<1> SUFFICES ASSUME ListInv, Update PROVE ListInv'
  OBVIOUS
<1> DEFINE done == menuProcess(menu, m_inputSequence)
           picture == Picture(done.menu, m_inputSequence)
<1>0. systems > 0 => picture.rows = drawn.rows
  BY MenuPicture
<1>1. CASE UpdateIdle
  BY <1>1 DEF UpdateIdle, ListInv, listVars, Pages
<1>2. CASE UpdateUp
  <2>1. done.parameters = "!U" /\ UNCHANGED systems /\ PageUp(done.menu, picture)
    BY <1>2 DEF UpdateUp, Handle, Answer, AnswerPicture
  <2>2. systems > 0
    BY <2>1, EmptyIsSilent DEF Commands
  <2> HIDE DEF done, picture
  <2> QED
    BY <1>0, <2>1, <2>2, PageUpStep
<1>3. CASE UpdateDown
  <2>1. done.parameters = "!D" /\ UNCHANGED systems /\ PageDown(done.menu, picture)
    BY <1>3 DEF UpdateDown, Handle, Answer, AnswerPicture
  <2>2. systems > 0
    BY <2>1, EmptyIsSilent DEF Commands
  <2> HIDE DEF done, picture
  <2> QED
    BY <1>0, <2>1, <2>2, PageDownStep
<1>4. CASE UpdateNext
  <2>1. done.parameters = "!+" /\ UNCHANGED systems /\ NextSystem(done.menu, picture)
    BY <1>4 DEF UpdateNext, Handle, Answer, AnswerPicture
  <2>2. systems > 0
    BY <2>1, EmptyIsSilent DEF Commands
  <2>3. PICK bar : AfterMenu(picture, bar)
    BY <2>2, MenuPicture
  <2> HIDE DEF done, picture
  <2> QED
    BY <2>1, <2>2, <2>3, NextSystemStep
<1>5. CASE UpdatePrevious
  <2>1. done.parameters = "!-" /\ UNCHANGED systems /\ PreviousSystem(done.menu, picture)
    BY <1>5 DEF UpdatePrevious, Handle, Answer, AnswerPicture
  <2>2. systems > 0
    BY <2>1, EmptyIsSilent DEF Commands
  <2>3. PICK bar : AfterMenu(picture, bar)
    BY <2>2, MenuPicture
  <2> HIDE DEF done, picture
  <2> QED
    BY <2>1, <2>2, <2>3, PreviousSystemStep
<1>6. CASE UpdateFirst
  <2>1. done.parameters = "!F" /\ UNCHANGED systems /\ FirstSystem(done.menu, picture)
    BY <1>6 DEF UpdateFirst, Handle, Answer, AnswerPicture
  <2>2. systems > 0
    BY <2>1, EmptyIsSilent DEF Commands
  <2> HIDE DEF done, picture
  <2> QED
    BY <1>0, <2>1, <2>2, FirstSystemStep
<1>7. CASE UpdateLast
  <2>1. done.parameters = "!B" /\ UNCHANGED systems /\ LastSystem(done.menu, picture)
    BY <1>7 DEF UpdateLast, Handle, Answer, AnswerPicture
  <2>2. systems > 0
    BY <2>1, EmptyIsSilent DEF Commands
  <2> HIDE DEF done, picture
  <2> QED
    BY <1>0, <2>1, <2>2, LastSystemStep
<1>8. CASE UpdateHeader
  <2>1. done.parameters \in {"!?", "!A"} /\ UNCHANGED systems /\ DrawHeader(done.menu)
    BY <1>8 DEF UpdateHeader, Handle, Answer, AnswerPicture
  <2>2. systems > 0
    BY <2>1, EmptyIsSilent DEF Commands
  <2> HIDE DEF done, picture
  <2> QED
    BY <2>1, <2>2, DrawHeaderStep
<1>9. CASE UpdateTheme
  <2>1. /\ done.parameters \in {"!]", "!["} /\ UNCHANGED systems
        /\ changeTheme(1, done.menu) \/ changeTheme(-1, done.menu)
    BY <1>9 DEF UpdateTheme, Handle, Answer, AnswerPicture
  <2>2. systems > 0
    BY <2>1, EmptyIsSilent DEF Commands
  <2> HIDE DEF done, picture
  <2>3. -1 \in {-1, 1} /\ 1 \in {-1, 1}
    OBVIOUS
  <2> QED
    BY <2>1, <2>2, <2>3, ChangeThemeStep
<1>10. CASE UpdateDial
  <2>1. UNCHANGED systems /\ NoAction(done.menu, picture)
    BY <1>10 DEF UpdateDial, Handle, Answer, AnswerPicture
  <2> HIDE DEF done, picture
  <2> QED
    BY <1>0, <2>1, NoActionStep
<1>11. CASE UpdateQuit
  <2>1. /\ done.parameters = "!Q" /\ UNCHANGED systems /\ drawn' = picture
        /\ UNCHANGED <<m_lightbar_position, m_current_page, m_box_size,
                       m_current_theme_index, m_total_pages, m_current_selection>>
    BY <1>11 DEF UpdateQuit, Handle, Answer, AnswerPicture
  <2>2. systems > 0
    BY <2>1, EmptyIsSilent DEF Commands
  <2>3. PICK bar : picture = [rows |-> drawn.rows, bar |-> bar]
    BY <2>2, MenuPicture DEF AfterMenu
  <2> HIDE DEF done, picture
  <2>4. drawn'.rows = drawn.rows /\ drawn' = [rows |-> drawn'.rows, bar |-> drawn'.bar]
    BY <2>1, <2>3
  <2>5. Pages(Box)' = Pages(Box)
    BY <2>1 DEF Pages
  <2> QED
    BY <2>1, <2>2, <2>4, <2>5 DEF ListInv
<1>12. CASE UpdateNone
  <2>1. UNCHANGED systems /\ NoAction(done.menu, picture)
    BY <1>12 DEF UpdateNone, Handle, Answer, AnswerPicture
  <2> HIDE DEF done, picture
  <2> QED
    BY <1>0, <2>1, NoActionStep
<1> QED
  BY <1>1, <1>2, <1>3, <1>4, <1>5, <1>6, <1>7, <1>8, <1>9, <1>10, <1>11, <1>12 DEF Update

LEMMA ListStep == ListInv /\ [Next]_vars => ListInv'
<1> SUFFICES ASSUME ListInv, [Next]_vars PROVE ListInv'
  OBVIOUS
<1>1. CASE UNCHANGED <<systems, listVars>>
  BY <1>1 DEF ListInv, listVars, Pages
<1>2. CASE Update
  BY <1>2, UpdateStep
<1>3. WindowEvent \/ PushedClose \/ EndOfEvents \/ Spawn \/ UNCHANGED vars
        => UNCHANGED <<systems, listVars>>
  BY DEF WindowEvent, PushedClose, EndOfEvents, Spawn, vars
<1> QED
  BY <1>1, <1>2, <1>3 DEF Next, LoopStep

LEMMA ListInit == SameBoxes /\ Init => ListInv
<1> SUFFICES ASSUME SameBoxes, Init PROVE ListInv
  OBVIOUS
<1>1. systems \in Nat /\ 0 \in 0 .. Len(Themes) - 1 /\ m_current_theme_index = 0
  BY ThemesAssumption DEF Init, MenuInit
<1>2. CASE systems = 0
  BY <1>1, <1>2 DEF Init, MenuInit, ListInv
<1>3. CASE systems > 0
  <2>1. /\ m_lightbar_position = 0 /\ m_current_page = 0 /\ m_box_size = Box
        /\ m_total_pages = Pages(Box) /\ m_current_selection = Theme(0).top
        /\ \E bar : drawn = [rows |-> DrawVectorList(Blank.rows, 0, 0, 0), bar |-> bar]
    BY <1>1, <1>3 DEF Init, MenuInit, Box
  <2>2. /\ Box \in Nat \ {0} /\ BoxSize(0) = Box /\ Theme(0).top \in 1 .. ScreenRows
        /\ Box * 0 = 0 /\ 0 < Box * (0 + 1)
    BY <1>1, ThemeBoxes
  <2>3. 0 = 0 \div Box
    BY <2>2, PageOfPosition
  <2>4. BarRow(0, 0, 0) = Theme(0).top
    BY <2>2, ThemesAssumption DEF BarRow
  <2>5. PictureFits(Blank.rows, 0, 0)
    BY BlankFits
  <2>6. OneLit(DrawVectorList(Blank.rows, 0, 0, 0), BarRow(0, 0, 0), 0)
    BY <1>1, <1>3, <2>3, <2>5, DrawnRows
  <2> HIDE DEF Box, BarRow, OneLit
  <2>7. /\ drawn = [rows |-> drawn.rows, bar |-> drawn.bar]
        /\ drawn.rows = DrawVectorList(Blank.rows, 0, 0, 0)
    BY <2>1
  <2> QED
    BY <1>1, <1>3, <2>1, <2>3, <2>4, <2>6, <2>7 DEF ListInv
<1> QED
  BY <1>1, <1>2, <1>3


-----------------------------------------------------------------------------
(* What ListInv says of the screen.                                        *)

LEMMA PageHolds == ListInv => PageHoldsSelection
<1> SUFFICES ASSUME ListInv, systems > 0
             PROVE  /\ m_lightbar_position < systems
                    /\ m_current_page = m_lightbar_position \div BoxSize(m_current_theme_index)
                    /\ m_total_pages = Pages(BoxSize(m_current_theme_index))
  BY DEF PageHoldsSelection
<1>1. BoxSize(m_current_theme_index) = Box
  BY Facts, ThemeBoxes
<1> QED
  BY <1>1, Facts

LEMMA BarOnScreen ==
    ASSUME ListInv, systems > 0
    PROVE  /\ m_current_selection \in 1 .. ScreenRows
           /\ OneLit(drawn.rows, m_current_selection, m_lightbar_position)
<1>1. BarRow(m_current_page, m_lightbar_position, m_current_theme_index) \in 1 .. ScreenRows
  BY Facts, BarInBox
<1> QED
  BY <1>1 DEF ListInv

LEMMA ListShows == ListInv => ListShowsSelection
BY BarOnScreen DEF ListShowsSelection, OneLit

LEMMA DialStep ==
    ListInv /\ [Next]_vars
        => [ UpdateDial /\ screen = drawn
             => \E s \in 0 .. systems - 1 :
                   m_new_connections' = Append(m_new_connections, s) /\ Lit(screen, s) ]_vars
<1> SUFFICES ASSUME ListInv, UpdateDial, screen = drawn
             PROVE  \E s \in 0 .. systems - 1 :
                       m_new_connections' = Append(m_new_connections, s) /\ Lit(screen, s)
  OBVIOUS
<1>1. /\ menuProcess(menu, m_inputSequence).parameters = "!E"
      /\ m_new_connections' = Append(m_new_connections, m_lightbar_position)
  BY DEF UpdateDial, Handle, Answer, AnswerPicture
<1>2. systems > 0
  BY <1>1, EmptyIsSilent DEF Commands
<1>3. m_lightbar_position \in 0 .. systems - 1
  BY <1>2, Facts
<1>4. Lit(screen, m_lightbar_position)
  BY <1>2, BarOnScreen DEF Lit, OneLit
<1> QED
  BY <1>1, <1>3, <1>4

-----------------------------------------------------------------------------
(* ListInv holds throughout, when all themes have a box of the same size.  *)
THEOREM ListKept == SameBoxes /\ Spec => []ListInv
BY ListInit, ListStep, PTL DEF Spec

(* PageHoldsSelection: however handleMenuActions moves page and position,  *)
(* the selected system exists and its page is the one drawn.               *)
THEOREM SelectionKept == SameBoxes /\ Spec => []PageHoldsSelection
BY ListKept, PageHolds, PTL

(* drawVectorList leaves one row lit, that of the selected system.         *)
THEOREM OneSystemLit == SameBoxes /\ Spec => []ListShowsSelection
BY ListKept, ListShows, PTL

(* DialsWhatIsShown: Session::update queues the system that is lit.        *)
THEOREM DialsTheLitSystem == SameBoxes /\ Spec => DialsWhatIsShown
<1>1. SameBoxes /\ Spec => []ListInv
  BY ListKept
<1> QED
  BY <1>1, DialStep, PTL DEF Spec, DialsWhatIsShown

-----------------------------------------------------------------------------
(* The menu: its light bars.                                               *)

Strings == STRING \union {""}

MenuRecord ==
    [m_curent_menu : Strings, m_previous_menu : Strings, m_gosub_menu : Strings,
     m_choice : Nat, m_command_record : Seq(CommandRecord), m_command_index : Seq(Nat)]

Bars == Len(BarsOf(Menus[Themes[1].prompt]))

\* The menus whose choice is a light bar, and those of the themes among them.
ChoosingMenus == {m \in MenuRecord : m.m_choice < Bars}
ThemeMenus ==
    {m \in ChoosingMenus :
        /\ \E i \in DOMAIN Themes : m.m_command_record = Menus[Themes[i].prompt]
        /\ m.m_command_index = BarsOf(m.m_command_record)}

LEMMA BarsType ==
    ASSUME NEW commands \in Seq(CommandRecord)
    PROVE  /\ BarsOf(commands) \in Seq(1 .. Len(commands)) /\ BarsOf(commands) \in Seq(Nat)
           /\ BarsOf(commands) # <<>> => \E i \in DOMAIN commands : IsBar(commands[i])
<1> DEFINE n == Len(commands)
           pieces == [i \in DOMAIN commands |-> IF IsBar(commands[i]) THEN <<i>> ELSE <<>>]
<1>1. n \in Nat /\ DOMAIN commands = 1 .. n
  OBVIOUS
<1>2. BarsOf(commands) = FlattenSeq(pieces)
  BY DEF BarsOf
<1>3. BarsOf(commands) \in Seq(1 .. n)
  <2>0. PICK J : J = 1 .. n
    OBVIOUS
  <2>1. ASSUME NEW i \in 1 .. n PROVE pieces[i] \in Seq(J)
    <3>1. pieces[i] = IF IsBar(commands[i]) THEN <<i>> ELSE <<>>
      BY <1>1
    <3>2. <<i>> \in Seq(J) /\ <<>> \in Seq(J)
      BY <2>0
    <3> HIDE DEF n, pieces
    <3> QED
      BY <3>1, <3>2
  <2>2. pieces = [i \in 1 .. n |-> pieces[i]]
    BY <1>1
  <2> HIDE DEF n, pieces
  <2>3. pieces \in Seq(Seq(J))
    BY <1>1, <2>1, <2>2
  <2> QED
    BY <1>2, <2>0, <2>3, FlattenType
<1>4. ASSUME \A i \in DOMAIN commands : ~IsBar(commands[i]) PROVE BarsOf(commands) = <<>>
  <2>1. ASSUME NEW i \in 1 .. n PROVE pieces[i] \in Seq({})
    BY <1>1, <1>4
  <2>2. pieces = [i \in 1 .. n |-> pieces[i]]
    BY <1>1
  <2>3. PICK S : S = {}
    OBVIOUS
  <2> HIDE DEF n, pieces
  <2>4. pieces \in Seq(Seq(S))
    BY <1>1, <2>1, <2>2, <2>3
  <2>5. FlattenSeq(pieces) \in Seq(S)
    BY <2>4, FlattenType
  <2> QED
    BY <1>2, <2>3, <2>5
<1>5. BarsOf(commands) \in Seq(Nat)
  <2>1. ASSUME NEW i \in 1 .. n PROVE pieces[i] \in Seq(Nat)
    <3>1. pieces[i] = IF IsBar(commands[i]) THEN <<i>> ELSE <<>>
      BY <1>1
    <3>2. i \in Nat /\ <<>> \in Seq(Nat)
      BY <1>1
    <3>3. <<i>> \in Seq(Nat)
      BY ONLY <3>2
    <3> HIDE DEF n, pieces
    <3> QED
      BY <3>1, <3>2, <3>3
  <2>2. pieces = [i \in 1 .. n |-> pieces[i]]
    BY <1>1
  <2> HIDE DEF n, pieces
  <2>3. pieces \in Seq(Seq(Nat))
    BY <1>1, <2>1, <2>2
  <2> QED
    BY <1>2, <2>3, FlattenType
<1> QED
  BY <1>3, <1>4, <1>5

(* The menus of the themes, when SameBars holds.                           *)
LEMMA ThemeMenuFacts ==
    ASSUME SameBars, NEW i \in DOMAIN Themes
    PROVE  /\ Themes[i].prompt \in DOMAIN Menus \ {""} /\ Themes[i].prompt \in STRING
           /\ Menus[Themes[i].prompt] \in Seq(CommandRecord)
           /\ Len(BarsOf(Menus[Themes[i].prompt])) = Bars
           /\ Bars \in Nat \ {0}
           /\ BarsOf(Menus[Themes[i].prompt]) \in Seq(1 .. Len(Menus[Themes[i].prompt]))
           /\ BarsOf(Menus[Themes[i].prompt]) # <<>>
           /\ \E k \in DOMAIN Menus[Themes[i].prompt] : IsBar(Menus[Themes[i].prompt][k])
<1> DEFINE commands == Menus[Themes[i].prompt]
<1>1. /\ Themes[i].prompt \in DOMAIN Menus \ {""}
      /\ Len(BarsOf(commands)) = Bars /\ Len(BarsOf(commands)) > 0
  BY DEF SameBars, Bars
<1>2. Themes[i].prompt \in STRING /\ commands \in Seq(CommandRecord)
  BY <1>1, MenusAssumption
<1> HIDE DEF commands
<1>3. BarsOf(commands) \in Seq(1 .. Len(commands))
  BY <1>2, BarsType
<1>4. Bars \in Nat \ {0}
  <2>1. PICK J : BarsOf(commands) \in Seq(J)
    BY <1>3
  <2>2. Len(BarsOf(commands)) \in Nat
    BY <2>1
  <2>3. Bars \in Nat /\ Bars > 0
    BY ONLY <1>1, <2>2
  <2> QED
    BY ONLY <2>3
<1>5. BarsOf(commands) # <<>>
  <2>1. Len(BarsOf(commands)) # 0
    BY <1>1, <1>4
  <2> QED
    BY <2>1
<1>6. \E k \in DOMAIN commands : IsBar(commands[k])
  BY <1>2, <1>5, BarsType
<1> QED
  BY <1>1, <1>2, <1>3, <1>4, <1>5, <1>6 DEF commands

LEMMA ThemeMenuBars ==
    ASSUME SameBars, NEW m \in ThemeMenus
    PROVE  /\ m \in ChoosingMenus /\ m \in MenuRecord /\ m.m_choice \in 0 .. Bars - 1
           /\ Len(LightBars(m)) = Bars /\ LightBars(m) # <<>> /\ Bars \in Nat \ {0}
           /\ m.m_command_record \in Seq(CommandRecord)
<1>1. PICK i \in DOMAIN Themes : m.m_command_record = Menus[Themes[i].prompt]
  BY DEF ThemeMenus
<1>2. m \in ChoosingMenus /\ m \in MenuRecord /\ m.m_choice \in Nat /\ m.m_choice < Bars
  BY DEF ThemeMenus, ChoosingMenus, MenuRecord
<1>3. /\ Len(BarsOf(m.m_command_record)) = Bars /\ BarsOf(m.m_command_record) # <<>>
      /\ Bars \in Nat \ {0} /\ m.m_command_record \in Seq(CommandRecord)
  BY <1>1, ThemeMenuFacts
<1>4. m.m_command_index = BarsOf(m.m_command_record)
  BY DEF ThemeMenus
<1> QED
  BY <1>2, <1>3, <1>4 DEF LightBars

(* A command about the menu chooses the first light bar; others do nothing *)
(* to the menu.                                                            *)
LEMMA DoCommandKeeps ==
    ASSUME SameBars, NEW c \in CommandRecord, NEW m \in ChoosingMenus
    PROVE  /\ menuDoCommands(m, c) \in ChoosingMenus
           /\ menuDoCommands(m, c).m_command_record = m.m_command_record
           /\ menuDoCommands(m, c).m_command_index = m.m_command_index
           /\ c.command \notin {"-^", "-/", "-!"} => menuDoCommands(m, c) = m
<1>0. Bars \in Nat \ {0}
  <2>1. 1 \in DOMAIN Themes
    BY ThemesAssumption
  <2> QED
    BY <2>1, ThemeMenuFacts
<1>1. m \in MenuRecord /\ m.m_choice < Bars /\ c.string \in Strings
  BY DEF ChoosingMenus, CommandRecord, Strings
<1> HIDE DEF Bars
<1>2. CASE c.command = "-^"
  <2> DEFINE d == [m EXCEPT !.m_curent_menu = c.string, !.m_choice = 0]
  <2>1. menuDoCommands(m, c) = d
    BY <1>2 DEF menuDoCommands
  <2>2. d \in MenuRecord
    BY <1>1 DEF MenuRecord
  <2>3. /\ d.m_choice = 0 /\ d.m_command_record = m.m_command_record
        /\ d.m_command_index = m.m_command_index
    BY <1>1 DEF MenuRecord
  <2> HIDE DEF d
  <2>4. d \in ChoosingMenus
    BY <1>0, <2>2, <2>3 DEF ChoosingMenus
  <2> QED
    BY <1>2, <2>1, <2>3, <2>4
<1>3. CASE c.command = "-/"
  <2> DEFINE d == [m EXCEPT !.m_gosub_menu = m.m_curent_menu, !.m_curent_menu = c.string,
                            !.m_choice = 0]
  <2>1. menuDoCommands(m, c) = d
    BY <1>3 DEF menuDoCommands
  <2>2. d \in MenuRecord
    BY <1>1 DEF MenuRecord
  <2>3. /\ d.m_choice = 0 /\ d.m_command_record = m.m_command_record
        /\ d.m_command_index = m.m_command_index
    BY <1>1 DEF MenuRecord
  <2> HIDE DEF d
  <2>4. d \in ChoosingMenus
    BY <1>0, <2>2, <2>3 DEF ChoosingMenus
  <2> QED
    BY <1>3, <2>1, <2>3, <2>4
<1>4. CASE c.command = "-!" /\ m.m_gosub_menu # ""
  <2> DEFINE d == [m EXCEPT !.m_curent_menu = m.m_gosub_menu, !.m_choice = 0]
  <2>1. menuDoCommands(m, c) = d
    BY <1>4 DEF menuDoCommands
  <2>2. d \in MenuRecord
    BY <1>1 DEF MenuRecord
  <2>3. /\ d.m_choice = 0 /\ d.m_command_record = m.m_command_record
        /\ d.m_command_index = m.m_command_index
    BY <1>1 DEF MenuRecord
  <2> HIDE DEF d
  <2>4. d \in ChoosingMenus
    BY <1>0, <2>2, <2>3 DEF ChoosingMenus
  <2> QED
    BY <1>4, <2>1, <2>3, <2>4
<1>5. CASE /\ c.command # "-^" /\ c.command # "-/"
           /\ ~(c.command = "-!" /\ m.m_gosub_menu # "")
  BY <1>5 DEF menuDoCommands
<1> QED
  BY <1>2, <1>3, <1>4, <1>5

(* RunStacked runs commands one after the other: what each of them keeps   *)
(* of a set of menus, all of them keep.                                    *)
LEMMA RunStackedStays ==
    ASSUME NEW T, NEW cs \in Seq(CommandRecord), NEW m \in T, NEW key,
           \A t \in T : \A i \in DOMAIN cs : menuDoCommands(t, cs[i]) \in T
    PROVE  RunStacked(m, cs, key).menu \in T
<1> DEFINE n == Len(cs)
           base == [menu |-> m, parameters |-> ""]
           Eq(f) == f = [k \in 0 .. n |-> IF k = 0 THEN base ELSE RunOne(f[k - 1], cs[k], key)]
           ran == CHOOSE f : Eq(f)
           S == [menu : T, parameters : Strings]
           F == [p \in S \X (1 .. n) |-> RunOne(p[1], cs[p[2]], key)]
<1>1. n \in Nat /\ DOMAIN cs = 1 .. n /\ \A i \in 1 .. n : cs[i] \in CommandRecord
  OBVIOUS
<1>2. RunStacked(m, cs, key) = ran[n]
  BY DEF RunStacked
<1>3. ASSUME NEW done \in S, NEW i \in 1 .. n PROVE RunOne(done, cs[i], key) \in S
  <2>1. done.menu \in T /\ menuDoCommands(done.menu, cs[i]) \in T /\ cs[i].command \in Strings
    BY <1>1 DEF CommandRecord, Strings
  <2>2. [menu |-> menuDoCommands(done.menu, cs[i]), parameters |-> cs[i].command] \in S
    BY <2>1
  <2> HIDE DEF S
  <2> QED
    BY <2>2 DEF RunOne
<1>4. F \in [S \X (1 .. n) -> S] /\ base \in S
  <2>1. ASSUME NEW p \in S \X (1 .. n) PROVE RunOne(p[1], cs[p[2]], key) \in S
    <3>1. p[1] \in S /\ p[2] \in 1 .. n
      OBVIOUS
    <3> HIDE DEF n, S
    <3> QED
      BY <1>3, <3>1
  <2>2. base \in S
    <3>1. PICK e : e = ""
      OBVIOUS
    <3>2. e \in Strings
      BY ONLY <3>1 DEF Strings
    <3>3. [menu |-> m, parameters |-> e] \in S
      BY <3>2
    <3> QED
      BY ONLY <3>1, <3>3
  <2> HIDE DEF S, base, n
  <2> QED
    BY <2>1, <2>2
<1>5. Eq(ran)
  <2> HIDE DEF F, S, n, base
  <2>1. PICK it \in [SUBSET (1 .. n) -> S] : FoldsUpTo(it, n, base, F)
    BY <1>1, <1>4, FoldExists DEF FoldableTo
  <2> DEFINE f == [k \in 0 .. n |-> it[1 .. k]]
  <2>2. it[1 .. 0] = base
    <3>1. 1 .. 0 = {} /\ {} \in SUBSET (1 .. n)
      OBVIOUS
    <3>2. it[{}] = base
      BY <2>1, <3>1 DEF FoldsUpTo
    <3> QED
      BY <3>1, <3>2
  <2>3. ASSUME NEW k \in 1 .. n PROVE it[1 .. k] = RunOne(it[1 .. k - 1], cs[k], key)
    <3>1. /\ 1 .. k \in SUBSET (1 .. n) /\ 1 .. k # {} /\ k \in Nat
          /\ (1 .. k) \ {k} = 1 .. k - 1 /\ 1 .. k - 1 \in SUBSET (1 .. n)
      BY <1>1
    <3>2. Max(1 .. k) = k
      <4>1. k \in 1 .. k /\ \A i \in 1 .. k : i <= k
        BY <3>1
      <4> QED
        BY <3>1, <4>1, MaxIs
    <3>3. it[1 .. k] = F[<<it[1 .. k - 1], k>>]
      BY <2>1, <3>1, <3>2 DEF FoldsUpTo
    <3> DEFINE r == it[1 .. k - 1]
    <3>4. r \in S
      BY <2>1, <3>1
    <3> HIDE DEF r
    <3>5. F[<<r, k>>] = RunOne(r, cs[k], key)
      BY <3>4 DEF F
    <3> QED
      BY <3>3, <3>5 DEF r
  <2>4. ASSUME NEW k \in 0 .. n
        PROVE  f[k] = IF k = 0 THEN base ELSE RunOne(f[k - 1], cs[k], key)
    <3>1. CASE k = 0
      BY <2>2, <3>1
    <3>2. CASE k # 0
      <4>1. k \in 1 .. n /\ k - 1 \in 0 .. n
        BY <1>1, <3>2
      <4> QED
        BY <2>3, <3>2, <4>1
    <3> QED
      BY <3>1, <3>2
  <2>5. f = [k \in 0 .. n |-> f[k]]
    OBVIOUS
  <2> HIDE DEF f
  <2>6. Eq(f)
    BY <2>4, <2>5
  <2> HIDE DEF Eq
  <2> QED
    BY <2>6
<1>6. ASSUME NEW k \in 0 .. n PROVE ran[k] = IF k = 0 THEN base ELSE RunOne(ran[k - 1], cs[k], key)
  <2> HIDE DEF ran, n, base
  <2> QED
    BY <1>5
<1> HIDE DEF ran, F, S, base, n, Eq
<1> DEFINE Kept == {k \in Nat : k <= n => ran[k] \in S}
<1>7. 0 \in Kept
  <2>1. ran[0] = base
    BY <1>1, <1>6
  <2> QED
    BY <1>4, <2>1
<1>8. ASSUME NEW k \in Nat, k \in Kept PROVE k + 1 \in Kept
  <2> SUFFICES ASSUME k + 1 <= n PROVE ran[k + 1] \in S
    OBVIOUS
  <2>1. k + 1 \in 1 .. n /\ k + 1 \in 0 .. n /\ k + 1 # 0 /\ k + 1 - 1 = k
    BY <1>1
  <2>2. ran[k] \in S
    BY <1>1, <1>8
  <2>3. ran[k + 1] = RunOne(ran[k], cs[k + 1], key)
    BY <1>6, <2>1
  <2> HIDE DEF Kept
  <2> QED
    BY <1>3, <2>1, <2>2, <2>3
<1>9. n \in Kept
  <2> HIDE DEF Kept
  <2> QED
    BY <1>1, <1>7, <1>8, NatSet
<1>10. ran[n] \in S
  BY <1>1, <1>9
<1> QED
  BY <1>2, <1>10 DEF S

(* menuProcess: whatever the input, a light bar stays chosen.              *)
LEMMA StackedGood ==
    ASSUME SameBars, NEW m \in ThemeMenus, NEW key
    PROVE  /\ RunStacked(m, m.m_command_record, key).menu \in ThemeMenus
           /\ NoMenuCommands => RunStacked(m, m.m_command_record, key).menu = m
<1> DEFINE cs == m.m_command_record
<1>1. cs \in Seq(CommandRecord)
  BY ThemeMenuBars
<1>2. \A i \in DOMAIN cs : cs[i] \in CommandRecord
  <2> HIDE DEF cs
  <2> QED
    BY <1>1
<1>3. ASSUME NEW t \in ThemeMenus, NEW i \in DOMAIN cs
      PROVE  menuDoCommands(t, cs[i]) \in ThemeMenus
  <2>1. t \in ChoosingMenus
    BY DEF ThemeMenus
  <2>2. /\ menuDoCommands(t, cs[i]) \in ChoosingMenus
        /\ menuDoCommands(t, cs[i]).m_command_record = t.m_command_record
        /\ menuDoCommands(t, cs[i]).m_command_index = t.m_command_index
    BY <1>2, <2>1, DoCommandKeeps
  <2> QED
    BY <2>2 DEF ThemeMenus
<1>4. RunStacked(m, cs, key).menu \in ThemeMenus
  <2> HIDE DEF cs
  <2> QED
    BY <1>1, <1>3, RunStackedStays
<1>5. ASSUME NoMenuCommands PROVE RunStacked(m, cs, key).menu = m
  <2>1. PICK j \in DOMAIN Themes : cs = Menus[Themes[j].prompt]
    BY DEF ThemeMenus
  <2>2. ASSUME NEW i \in DOMAIN cs PROVE cs[i].command \notin {"-^", "-/", "-!"}
    BY <1>5, <2>1 DEF NoMenuCommands
  <2>3. m \in ChoosingMenus
    BY DEF ThemeMenus
  <2> HIDE DEF cs
  <2>4. \A t \in {m} : \A i \in DOMAIN cs : menuDoCommands(t, cs[i]) \in {m}
    BY <1>2, <2>2, <2>3, DoCommandKeeps
  <2>5. PICK T : T = {m}
    OBVIOUS
  <2>6. RunStacked(m, cs, key).menu \in T
    BY <1>1, <2>4, <2>5, RunStackedStays
  <2> QED
    BY <2>5, <2>6
<1> QED
  BY <1>4, <1>5

(* MoveChoice goes around the light bars.                                  *)
LEMMA MoveGood ==
    ASSUME SameBars, NEW m \in ThemeMenus, NEW second
    PROVE  /\ MoveChoice(m, second) \in ThemeMenus
           /\ second \notin {"C", "D"} => MoveChoice(m, second) = m
<1>1. /\ m \in MenuRecord /\ m.m_choice \in 0 .. Bars - 1
      /\ Len(LightBars(m)) = Bars /\ Bars \in Nat \ {0}
  BY ThemeMenuBars
<1>2. PICK j \in DOMAIN Themes : /\ m.m_command_record = Menus[Themes[j].prompt]
                                 /\ m.m_command_index = BarsOf(m.m_command_record)
  BY DEF ThemeMenus
<1> DEFINE left == IF m.m_choice = 0 THEN Bars - 1 ELSE m.m_choice - 1
           right == IF m.m_choice = Bars - 1 THEN 0 ELSE m.m_choice + 1
<1> HIDE DEF Bars
<1>3. left \in 0 .. Bars - 1 /\ right \in 0 .. Bars - 1
  BY <1>1
<1>4. MoveChoice(m, second) =
        CASE Bars > 0 /\ second = "D" -> [m EXCEPT !.m_choice = left]
          [] Bars > 0 /\ second = "C" -> [m EXCEPT !.m_choice = right]
          [] OTHER                     -> m
  BY <1>1 DEF MoveChoice
<1>5. ASSUME NEW v \in 0 .. Bars - 1 PROVE [m EXCEPT !.m_choice = v] \in ThemeMenus
  <2> DEFINE d == [m EXCEPT !.m_choice = v]
  <2>1. v \in Nat /\ v < Bars
    BY <1>1
  <2>2. /\ d \in MenuRecord /\ d.m_choice = v /\ d.m_command_record = m.m_command_record
        /\ d.m_command_index = m.m_command_index
    BY <1>1, <2>1 DEF MenuRecord
  <2> HIDE DEF d
  <2>3. d \in ChoosingMenus
    BY <2>1, <2>2 DEF ChoosingMenus
  <2>4. d \in ThemeMenus
    BY <1>2, <2>2, <2>3 DEF ThemeMenus
  <2> QED
    BY <2>4 DEF d
<1> HIDE DEF left, right
<1>6. CASE second = "D"
  BY <1>1, <1>3, <1>4, <1>5, <1>6
<1>7. CASE second = "C"
  BY <1>1, <1>3, <1>4, <1>5, <1>7
<1>8. CASE second # "C" /\ second # "D"
  BY <1>4, <1>8
<1> QED
  BY <1>6, <1>7, <1>8

(* The command of a function key is one of the menu.                       *)
LEMMA FirstCommand ==
    ASSUME SameBars, NEW m \in ThemeMenus, NEW key, FunctionCommands(m, key) # {}
    PROVE  Min(FunctionCommands(m, key)) \in DOMAIN m.m_command_record
<1> DEFINE found == FunctionCommands(m, key)
<1>1. m.m_command_record \in Seq(CommandRecord)
  BY ThemeMenuBars
<1>2. found \in SUBSET (DOMAIN m.m_command_record) /\ found \in SUBSET Nat
  BY <1>1 DEF FunctionCommands
<1> HIDE DEF found
<1>3. found # {}
  BY DEF found
<1>4. \E x \in found : \A i \in found : x <= i
  BY <1>2, <1>3, LeastOf
<1>5. Min(found) \in found
  BY <1>4 DEF Min
<1> QED
  BY <1>2, <1>5 DEF found

LEMMA ProcessGood ==
    ASSUME SameBars, NEW m \in ThemeMenus, NEW input
    PROVE  menuProcess(m, input).menu \in ThemeMenus
<1>1. CASE m.m_command_record = <<>>
  BY <1>1 DEF menuProcess
<1>2. CASE m.m_command_record # <<>> /\ input[1] = "ESC"
  <2>1. menuProcess(m, input).menu = EscapeInput(m, input).menu
    BY <1>2 DEF menuProcess, menuLightBars
  <2> DEFINE found == FunctionCommands(m, FunctionKey(input))
             first == m.m_command_record[Min(found)]
  <2>2. CASE found # {}
    <3>1. EscapeInput(m, input).menu = menuDoCommands(m, first)
      BY <2>2 DEF EscapeInput
    <3>2. PICK key : key = FunctionKey(input)
      OBVIOUS
    <3>3. m.m_command_record \in Seq(CommandRecord) /\ m \in ChoosingMenus
      BY ThemeMenuBars
    <3>4. Min(found) \in DOMAIN m.m_command_record
      BY <2>2, <3>2, FirstCommand
    <3> HIDE DEF found
    <3>5. first \in CommandRecord
      BY <3>3, <3>4
    <3>6. /\ menuDoCommands(m, first) \in ChoosingMenus
          /\ menuDoCommands(m, first).m_command_record = m.m_command_record
          /\ menuDoCommands(m, first).m_command_index = m.m_command_index
      BY <3>3, <3>5, DoCommandKeeps
    <3> QED
      BY <2>1, <3>1, <3>6 DEF ThemeMenus
  <2>3. CASE found = {}
    <3>1. EscapeInput(m, input).menu = MoveChoice(m, SecondSequence(input))
      BY <2>3 DEF EscapeInput
    <3> QED
      BY <2>1, <3>1, MoveGood
  <2> QED
    BY <2>2, <2>3
<1>3. CASE m.m_command_record # <<>> /\ input[1] # "ESC"
  <2>1. \/ menuProcess(m, input).menu = EnterInput(m).menu
        \/ menuProcess(m, input).menu = HotKeyInput(m, input[1]).menu
    BY <1>3 DEF menuProcess, menuLightBars
  <2>2. /\ EnterInput(m).menu \in ThemeMenus
        /\ HotKeyInput(m, input[1]).menu \in ThemeMenus
    BY StackedGood DEF EnterInput, HotKeyInput
  <2> QED
    BY <2>1, <2>2
<1> QED
  BY <1>1, <1>2, <1>3

(* Without commands about the menu, the choice moves exactly when Picture  *)
(* draws it.                                                               *)
LEMMA ProcessDrawn ==
    ASSUME SameBars, NoMenuCommands, menu \in ThemeMenus, NEW input,
           drawn = [rows |-> drawn.rows, bar |-> drawn.bar],
           drawn.bar \in {-1, menu.m_choice}
    PROVE  LET m == menuProcess(menu, input).menu IN Picture(m, input).bar \in {-1, m.m_choice}
<1> DEFINE m == menuProcess(menu, input).menu
           found == FunctionCommands(menu, FunctionKey(input))
           second == SecondSequence(input)
           moves == input[1] = "ESC" /\ second \in {"C", "D"} /\ found = {}
<1>1. LightBars(menu) # <<>> /\ menu.m_command_record \in Seq(CommandRecord)
  BY ThemeMenuBars
<1>2. CASE moves
  <2>1. Picture(m, input) = [drawn EXCEPT !.bar = m.m_choice]
    BY <1>1, <1>2 DEF Picture
  <2> HIDE DEF m
  <2>2. Picture(m, input).bar = m.m_choice
    BY <2>1
  <2> QED
    BY ONLY <2>2 DEF m
<1>3. CASE ~moves
  <2>1. Picture(m, input) = drawn
    BY <1>3 DEF Picture
  <2>2. m = menu
    <3>1. CASE menu.m_command_record = <<>>
      BY <3>1 DEF menuProcess
    <3>2. CASE menu.m_command_record # <<>> /\ input[1] = "ESC"
      <4>1. m = EscapeInput(menu, input).menu
        BY <3>2 DEF menuProcess, menuLightBars
      <4>2. CASE found # {}
        <5> DEFINE first == menu.m_command_record[Min(found)]
        <5>1. EscapeInput(menu, input).menu = menuDoCommands(menu, first)
          BY <4>2 DEF EscapeInput
        <5>2. PICK key : key = FunctionKey(input)
          OBVIOUS
        <5>3. Min(found) \in DOMAIN menu.m_command_record
          BY <4>2, <5>2, FirstCommand
        <5>4. PICK j \in DOMAIN Themes : menu.m_command_record = Menus[Themes[j].prompt]
          BY DEF ThemeMenus
        <5>5. menu \in ChoosingMenus
          BY ThemeMenuBars
        <5> HIDE DEF found
        <5>6. first \in CommandRecord
          BY <1>1, <5>3
        <5>7. first.command \notin {"-^", "-/", "-!"}
          BY <5>3, <5>4 DEF NoMenuCommands
        <5> HIDE DEF first
        <5>8. menuDoCommands(menu, first) = menu
          BY <5>5, <5>6, <5>7, DoCommandKeeps
        <5> QED
          BY <4>1, <5>1, <5>8
      <4>3. CASE found = {}
        <5>1. EscapeInput(menu, input).menu = MoveChoice(menu, second)
          BY <4>3 DEF EscapeInput
        <5>2. second \notin {"C", "D"}
          BY <1>3, <3>2, <4>3
        <5> QED
          BY <4>1, <5>1, <5>2, MoveGood
      <4> QED
        BY <4>2, <4>3
    <3>3. CASE menu.m_command_record # <<>> /\ input[1] # "ESC"
      <4>1. m = EnterInput(menu).menu \/ m = HotKeyInput(menu, input[1]).menu
        BY <3>3 DEF menuProcess, menuLightBars
      <4>2. EnterInput(menu).menu = menu /\ HotKeyInput(menu, input[1]).menu = menu
        BY StackedGood DEF EnterInput, HotKeyInput
      <4> QED
        BY <4>1, <4>2
    <3> QED
      BY <3>1, <3>2, <3>3
  <2> QED
    BY <2>1, <2>2
<1> HIDE DEF m, moves
<1> QED
  BY <1>2, <1>3 DEF m

(* menuStart: the menu loaded keeps its choice a light bar.                *)
LEMMA StartGood ==
    ASSUME SameBars, NEW i \in DOMAIN Themes, NEW m \in ChoosingMenus,
           m \in ThemeMenus \/ m.m_previous_menu = ""
    PROVE  /\ menuStart(m, Themes[i].prompt) \in ThemeMenus
           /\ m.m_previous_menu = Themes[i].prompt => menuStart(m, Themes[i].prompt) = m
<1> DEFINE name == Themes[i].prompt
           commands == Menus[name]
           asked == [m EXCEPT !.m_curent_menu = name, !.m_command_record = commands,
                              !.m_command_index = BarsOf(commands)]
           loaded == RunStacked(asked, commands, "FIRSTCMD").menu
<1>1. /\ name \in DOMAIN Menus /\ name # "" /\ name \in Strings
      /\ commands \in Seq(CommandRecord)
      /\ \E k \in DOMAIN commands : commands[k].key # "FIRSTCMD"
  BY ThemeMenuFacts DEF IsBar, Strings
<1>2. CASE m.m_previous_menu = name
  <2>1. menuStart(m, name) = m
    BY <1>2 DEF menuStart
  <2> QED
    BY <1>1, <1>2, <2>1
<1>3. CASE m.m_previous_menu # name
  <2>1. menuStart(m, name) = LoadMenu(m, name)
    BY <1>1, <1>3 DEF menuStart
  <2>2. LoadMenu(m, name) = [loaded EXCEPT !.m_previous_menu = loaded.m_curent_menu]
    BY <1>1 DEF LoadMenu
  <2>3. m \in MenuRecord /\ m.m_choice < Bars
    BY DEF ChoosingMenus
  <2>4. asked \in ThemeMenus
    <3> HIDE DEF name, commands
    <3>0. PICK bars : bars = BarsOf(commands)
      OBVIOUS
    <3>a. bars \in Seq(Nat)
      BY <1>1, <3>0, BarsType
    <3>1. /\ asked \in MenuRecord /\ asked.m_choice = m.m_choice
          /\ asked.m_command_record = commands /\ asked.m_command_index = bars
      BY <1>1, <2>3, <3>0, <3>a DEF MenuRecord
    <3> HIDE DEF asked
    <3>2. asked \in ChoosingMenus
      BY <2>3, <3>1 DEF ChoosingMenus
    <3> QED
      BY <3>0, <3>1, <3>2 DEF ThemeMenus, commands, name
  <2>5. asked.m_command_record = commands
    BY <2>3 DEF MenuRecord
  <2>6. PICK key : key = "FIRSTCMD"
    OBVIOUS
  <2>7. loaded \in ThemeMenus
    <3> HIDE DEF asked, commands
    <3>1. RunStacked(asked, asked.m_command_record, key).menu \in ThemeMenus
      BY <2>4, StackedGood
    <3> QED
      BY <2>5, <2>6, <3>1
  <2> DEFINE d == [loaded EXCEPT !.m_previous_menu = loaded.m_curent_menu]
  <2> HIDE DEF loaded
  <2>8. loaded \in MenuRecord /\ loaded.m_choice < Bars
    BY <2>7 DEF ThemeMenus, ChoosingMenus
  <2>9. d \in MenuRecord /\ d.m_choice = loaded.m_choice
        /\ d.m_command_record = loaded.m_command_record
        /\ d.m_command_index = loaded.m_command_index
    BY <2>8 DEF MenuRecord
  <2> HIDE DEF d
  <2>10. d \in ChoosingMenus
    BY <2>8, <2>9 DEF ChoosingMenus
  <2>11. d \in ThemeMenus
    BY <2>7, <2>9, <2>10 DEF ThemeMenus
  <2> QED
    BY <1>3, <2>1, <2>2, <2>11 DEF d
<1> QED
  BY <1>2, <1>3

-----------------------------------------------------------------------------
(* The steps.                                                              *)

LEMMA RedrawMenu ==
    ASSUME SameBars, systems > 0,
           NEW index \in 0 .. Len(Themes) - 1, NEW position, NEW page,
           NEW m \in ThemeMenus, NEW picture,
           updateDialDirectory(page, position, index, m, picture)
    PROVE  /\ menu' \in ThemeMenus
           /\ picture.bar \in {-1, m.m_choice} => drawn'.bar \in {-1, menu'.m_choice}
           /\ m_current_theme_index' = index /\ m_lightbar_position' = position
           /\ m_current_page' = page
<1> DEFINE name == Theme(index).prompt
           after == menuStart(m, name)
<1>1. index + 1 \in DOMAIN Themes /\ name = Themes[index + 1].prompt
  <2>1. DOMAIN Themes = 1 .. Len(Themes) /\ Len(Themes) \in Nat
    BY ThemesAssumption
  <2> QED
    BY <2>1 DEF Theme
<1>2. /\ menu' = after /\ drawn'.bar = DrawBars(picture.bar, m, after, name)
      /\ m_current_theme_index' = index /\ m_lightbar_position' = position
      /\ m_current_page' = page
  BY DEF updateDialDirectory
<1>3. PICK i \in DOMAIN Themes : i = index + 1
  BY <1>1
<1>4. m \in ChoosingMenus
  BY ThemeMenuBars
<1>5. after \in ThemeMenus /\ (m.m_previous_menu = name => after = m)
  BY <1>1, <1>3, <1>4, StartGood
<1>6. name \in DOMAIN Menus
  BY <1>1, ThemeMenuFacts
<1> HIDE DEF after, name
<1>7. LightBars(after) # <<>>
  BY <1>5, ThemeMenuBars
<1>8. CASE m.m_previous_menu = name
  BY <1>2, <1>5, <1>8 DEF DrawBars
<1>9. CASE m.m_previous_menu # name
  <2>1. drawn'.bar = after.m_choice
    BY <1>2, <1>6, <1>7, <1>9 DEF DrawBars
  <2> QED
    BY <1>2, <1>5, <2>1
<1> QED
  BY <1>8, <1>9

MenuInv ==
    /\ systems > 0 => menu \in ThemeMenus
    /\ systems = 0 => /\ m_lightbar_position = 0 /\ m_current_page = 0
                      /\ drawn = Blank

\* Of the light bars the picture lights the chosen one, or none.
BarInv == systems > 0 => drawn.bar \in {-1, menu.m_choice}

Moves(m, picture) ==
    \/ PageUp(m, picture) \/ PageDown(m, picture) \/ NextSystem(m, picture)
    \/ PreviousSystem(m, picture) \/ FirstSystem(m, picture) \/ LastSystem(m, picture)
    \/ NoAction(m, picture)

(* Each command draws with the menu it was given, and moves no light bar.  *)
LEMMA MovesRedraw ==
    ASSUME systems > 0, NEW m, NEW picture, NEW bar, AfterMenu(picture, bar), Moves(m, picture)
    PROVE  \E page, position, pic :
              /\ updateDialDirectory(page, position, m_current_theme_index, m, pic)
              /\ pic.bar = picture.bar
<1>1. ASSUME NEW from, NEW fromRow, NEW to, NEW toRow
      PROVE  MoveBar(picture, from, fromRow, to, toRow).bar = picture.bar
  BY DEF MoveBar, AfterMenu
<1>2. CASE PageUp(m, picture)
  BY <1>2 DEF PageUp
<1>3. CASE PageDown(m, picture)
  BY <1>3 DEF PageDown
<1>4. CASE FirstSystem(m, picture) \/ LastSystem(m, picture)
  BY <1>4 DEF FirstSystem, LastSystem
<1>5. CASE NoAction(m, picture)
  <2>1. systems # 0
    OBVIOUS
  <2> QED
    BY <1>5, <2>1 DEF NoAction
<1>6. CASE NextSystem(m, picture)
  <2> DEFINE to == m_lightbar_position + 1
             samePage == to + 1 < m_box_size * (m_current_page + 1) + 1
             moved == MoveBar(picture, to - 1, m_current_selection, to, m_current_selection + 1)
  <2>1. CASE to >= systems
    BY <1>6, <2>1 DEF NextSystem
  <2>2. CASE ~(to >= systems)
    <3>1. updateDialDirectory(IF samePage THEN m_current_page ELSE m_current_page + 1,
                              to, m_current_theme_index, m,
                              IF samePage THEN moved ELSE picture)
      BY <1>6, <2>2 DEF NextSystem
    <3>2. moved.bar = picture.bar
      BY <1>1
    <3> HIDE DEF moved, samePage, to
    <3>3. (IF samePage THEN moved ELSE picture).bar = picture.bar
      BY <3>2
    <3> QED
      BY <3>1, <3>3
  <2> QED
    BY <2>1, <2>2
<1>7. CASE PreviousSystem(m, picture)
  <2> DEFINE to == m_lightbar_position - 1
             samePage == to + 1 > m_box_size * m_current_page
             moved == MoveBar(picture, to + 1, m_current_selection, to, m_current_selection - 1)
  <2>1. CASE m_lightbar_position = 0
    BY <1>7, <2>1 DEF PreviousSystem
  <2>2. CASE m_lightbar_position # 0
    <3>1. updateDialDirectory(IF samePage THEN m_current_page ELSE m_current_page - 1,
                              to, m_current_theme_index, m,
                              IF samePage THEN moved ELSE picture)
      BY <1>7, <2>2 DEF PreviousSystem
    <3>2. moved.bar = picture.bar
      BY <1>1
    <3> HIDE DEF moved, samePage, to
    <3>3. (IF samePage THEN moved ELSE picture).bar = picture.bar
      BY <3>2
    <3> QED
      BY <3>1, <3>3
  <2> QED
    BY <2>1, <2>2
<1> QED
  BY <1>2, <1>3, <1>4, <1>5, <1>6, <1>7 DEF Moves

LEMMA MenuUpdate ==
    ASSUME SameBars, ListInv, MenuInv, Update
    PROVE  MenuInv' /\ (NoMenuCommands /\ BarInv => BarInv')
<1> DEFINE m == menuProcess(menu, m_inputSequence).menu
           picture == Picture(m, m_inputSequence)
<1>0. systems \in Nat /\ systems' = systems
  BY DEF ListInv, Update, UpdateIdle, UpdateUp, UpdateDown, UpdateNext, UpdatePrevious,
         UpdateFirst, UpdateLast, UpdateHeader, UpdateTheme, UpdateDial, UpdateQuit,
         UpdateNone, Handle
<1>1. CASE systems = 0
  <2>1. menuProcess(menu, m_inputSequence).parameters \notin Commands
    BY <1>1, EmptyIsSilent
  <2>2. UpdateIdle \/ UpdateNone \/ UpdateDial
    BY <2>1 DEF Update, UpdateUp, UpdateDown, UpdateNext, UpdatePrevious, UpdateFirst,
                UpdateLast, UpdateHeader, UpdateTheme, UpdateQuit, Handle, Answer, Commands
  <2>3. UNCHANGED listVars
    BY <1>1, <2>2 DEF UpdateIdle, UpdateNone, UpdateDial, NoAction
  <2> QED
    BY <1>0, <1>1, <2>3 DEF MenuInv, BarInv, listVars
<1>2. CASE systems > 0
  <2>1. menu \in ThemeMenus /\ m \in ThemeMenus
    BY <1>2, ProcessGood DEF MenuInv
  <2>2. m_current_theme_index \in 0 .. Len(Themes) - 1
        /\ drawn = [rows |-> drawn.rows, bar |-> drawn.bar]
    BY <1>2 DEF ListInv
  <2>3. PICK bar : AfterMenu(picture, bar)
    BY <1>2, MenuPicture
  <2>4. NoMenuCommands /\ BarInv => picture.bar \in {-1, m.m_choice}
    BY <1>2, <2>1, <2>2, ProcessDrawn DEF BarInv
  <2>5. Blank.bar = -1
    BY DEF Blank
  <2>6. CASE UpdateIdle
    BY <1>0, <1>2, <2>1, <2>6 DEF UpdateIdle, listVars, MenuInv, BarInv
  <2>7. CASE UpdateUp \/ UpdateDown \/ UpdateNext \/ UpdatePrevious \/ UpdateFirst
             \/ UpdateLast \/ UpdateDial \/ UpdateNone
    <3>1. Moves(m, picture)
      BY <2>7 DEF Moves, UpdateUp, UpdateDown, UpdateNext, UpdatePrevious, UpdateFirst,
                  UpdateLast, UpdateDial, UpdateNone, Answer, AnswerPicture
    <3> HIDE DEF m, picture
    <3>2. PICK page, position, pic :
             /\ updateDialDirectory(page, position, m_current_theme_index, m, pic)
             /\ pic.bar = picture.bar
      BY <1>2, <2>3, <3>1, MovesRedraw
    <3>3. /\ menu' \in ThemeMenus
          /\ pic.bar \in {-1, m.m_choice} => drawn'.bar \in {-1, menu'.m_choice}
      BY <1>2, <2>1, <2>2, <3>2, RedrawMenu
    <3> QED
      BY <1>0, <1>2, <2>4, <3>2, <3>3 DEF MenuInv, BarInv
  <2>8. CASE UpdateHeader
    <3>1. DrawHeader(m)
      BY <2>8 DEF UpdateHeader, Answer
    <3> HIDE DEF m
    <3>2. PICK blank : blank = Blank
      OBVIOUS
    <3>3. updateDialDirectory(m_current_page, m_lightbar_position, m_current_theme_index, m, blank)
      BY <3>1, <3>2 DEF DrawHeader
    <3>4. /\ menu' \in ThemeMenus
          /\ blank.bar \in {-1, m.m_choice} => drawn'.bar \in {-1, menu'.m_choice}
      BY <1>2, <2>1, <2>2, <3>3, RedrawMenu
    <3> QED
      BY <1>0, <1>2, <2>5, <3>2, <3>4 DEF MenuInv, BarInv
  <2>9. CASE UpdateTheme
    <3> DEFINE d == [m EXCEPT !.m_previous_menu = ""]
    <3>1. PICK step \in {-1, 1} : changeTheme(step, m)
      BY <2>9 DEF UpdateTheme, Answer
    <3> HIDE DEF m
    <3>2. PICK blank : blank = Blank
      OBVIOUS
    <3>3. PICK index : /\ index = IF m_current_theme_index + step + 1 \in DOMAIN Themes
                                  THEN m_current_theme_index + step ELSE m_current_theme_index
                       /\ updateDialDirectory(m_current_page, m_lightbar_position, index, d, blank)
      BY <3>1, <3>2 DEF changeTheme
    <3>4. index \in 0 .. Len(Themes) - 1
      <4>1. DOMAIN Themes = 1 .. Len(Themes) /\ Len(Themes) \in Nat
        BY ThemesAssumption
      <4>2. index = IF m_current_theme_index + step + 1 \in DOMAIN Themes
                    THEN m_current_theme_index + step ELSE m_current_theme_index
        BY <3>3
      <4>3. m_current_theme_index \in 0 .. Len(Themes) - 1
        BY <2>2
      <4> QED
        BY ONLY <3>1, <4>1, <4>2, <4>3
    <3>5. d \in ThemeMenus
      <4>1. m \in MenuRecord /\ m.m_choice < Bars
        BY <2>1 DEF ThemeMenus, ChoosingMenus
      <4>2. PICK e : e = ""
        OBVIOUS
      <4>3. e \in Strings
        BY <4>2 DEF Strings
      <4>4. d = [m EXCEPT !.m_previous_menu = e]
        BY <4>2
      <4> HIDE DEF d
      <4>5. d \in MenuRecord /\ d.m_choice = m.m_choice
            /\ d.m_command_record = m.m_command_record
            /\ d.m_command_index = m.m_command_index
        BY <4>1, <4>3, <4>4 DEF MenuRecord
      <4>6. d \in ChoosingMenus
        BY <4>1, <4>5 DEF ChoosingMenus
      <4> QED
        BY <2>1, <4>5, <4>6 DEF ThemeMenus
    <3> HIDE DEF d
    <3>6. /\ menu' \in ThemeMenus
          /\ blank.bar \in {-1, d.m_choice} => drawn'.bar \in {-1, menu'.m_choice}
      BY <1>2, <3>3, <3>4, <3>5, RedrawMenu
    <3> QED
      BY <1>0, <1>2, <2>5, <3>2, <3>6 DEF MenuInv, BarInv
  <2>10. CASE UpdateQuit
    <3>1. menu' = m /\ drawn' = picture
      BY <2>10 DEF UpdateQuit, Answer, AnswerPicture
    <3> HIDE DEF m, picture
    <3> QED
      BY <1>0, <1>2, <2>1, <2>4, <3>1 DEF MenuInv, BarInv
  <2> QED
    BY <2>6, <2>7, <2>8, <2>9, <2>10 DEF Update
<1> QED
  BY <1>0, <1>1, <1>2

(* The main loop: the queue of systems to connect to holds one at most,    *)
(* and only until Interface has emptied it.                                *)
LoopInv ==
    /\ m_keyMap = "ANSI"
    /\ m_globalShutdown \in BOOLEAN /\ m_isMouseSelected \in BOOLEAN
    /\ m_fullScreenWindowSize \in {0, 1}
    /\ phase \in {"events", "update", "spawn"}
    /\ IF phase = "spawn" THEN m_new_connections = <<>> \/ \E s : m_new_connections = <<s>>
                          ELSE m_new_connections = <<>>

LEMMA LoopStepKept == LoopInv /\ [Next]_vars => LoopInv'
<1> SUFFICES ASSUME LoopInv, [Next]_vars PROVE LoopInv'
  OBVIOUS
<1>1. CASE UNCHANGED vars
  BY <1>1 DEF LoopInv, vars, inputVars
<1>2. CASE WindowEvent
  <2>1. phase' = phase /\ m_new_connections' = m_new_connections /\ InputEvent
    BY <1>2 DEF WindowEvent
  <2>2. /\ m_keyMap' = m_keyMap /\ m_globalShutdown' \in BOOLEAN
        /\ m_isMouseSelected' \in BOOLEAN /\ m_fullScreenWindowSize' \in {0, 1}
    <3>1. CASE KeyDown \/ TextInput \/ Paste \/ Focus \/ Resize
      BY <3>1 DEF KeyDown, TextInput, Paste, Focus, Resize, modeVars, mouseVars, LoopInv
    <3>2. CASE AltH \/ Close
      BY <3>2 DEF AltH, Close, modeVars, mouseVars, LoopInv
    <3>3. CASE AltReturn
      BY <3>3 DEF AltReturn, mouseVars, LoopInv
    <3>4. CASE MouseDown \/ MouseUp
      BY <3>4 DEF MouseDown, MouseUp, modeVars, LoopInv
    <3> QED
      BY <2>1, <3>1, <3>2, <3>3, <3>4 DEF InputEvent
  <2> QED
    BY <2>1, <2>2 DEF LoopInv
<1>3. CASE PushedClose
  BY <1>3 DEF PushedClose, Close, LoopInv, modeVars, mouseVars
<1>4. CASE EndOfEvents
  BY <1>4 DEF EndOfEvents, inputVars, LoopInv
<1>5. CASE Spawn
  BY <1>5 DEF Spawn, inputVars, LoopInv
<1>6. CASE Update
  <2>1. /\ phase = "update" /\ phase' = "spawn" /\ m_keyMap' = m_keyMap
        /\ m_globalShutdown' = m_globalShutdown /\ m_isMouseSelected' = m_isMouseSelected
        /\ m_fullScreenWindowSize' = m_fullScreenWindowSize
    BY <1>6 DEF Update, UpdateIdle, UpdateUp, UpdateDown, UpdateNext, UpdatePrevious,
         UpdateFirst, UpdateLast, UpdateHeader, UpdateTheme, UpdateDial, UpdateQuit,
         UpdateNone, Handle, inputVars, modeVars, mouseVars
  <2>2. \/ m_new_connections' = m_new_connections
        \/ m_new_connections' = Append(m_new_connections, m_lightbar_position)
    BY <1>6 DEF Update, UpdateIdle, UpdateUp, UpdateDown, UpdateNext, UpdatePrevious,
         UpdateFirst, UpdateLast, UpdateHeader, UpdateTheme, UpdateDial, UpdateQuit,
         UpdateNone, KeepsQueues
  <2>3. m_new_connections = <<>>
    BY <2>1 DEF LoopInv
  <2>4. Append(<<>>, m_lightbar_position) = <<m_lightbar_position>>
    OBVIOUS
  <2> QED
    BY <2>1, <2>2, <2>3, <2>4 DEF LoopInv
<1> QED
  BY <1>1, <1>2, <1>3, <1>4, <1>5, <1>6 DEF Next, LoopStep

DirectoryInv == ListInv /\ SameBars /\ MenuInv /\ LoopInv

LEMMA DirectoryInit ==
    SameBoxes /\ SameBars /\ IsDialDirectory /\ Init
        => DirectoryInv /\ BarInv
<1> SUFFICES ASSUME SameBoxes, SameBars, IsDialDirectory, Init
             PROVE  DirectoryInv /\ BarInv
  OBVIOUS
<1>1. ListInv
  BY ListInit
<1>2. LoopInv
  BY InputAssumption DEF Init, InputInit, LoopInv
<1>3. MenuInv /\ BarInv
  <2>1. CASE systems = 0
    BY <2>1 DEF Init, MenuInit, MenuInv, BarInv
  <2>2. CASE systems > 0
    <3>1. /\ menu = menuStart(NewMenu, Theme(0).prompt)
          /\ drawn.bar = DrawBars(-1, NewMenu, menu, Theme(0).prompt)
      BY <2>2 DEF Init, MenuInit
    <3>2. 1 \in DOMAIN Themes /\ Theme(0) = Themes[1]
      BY ThemesAssumption DEF Theme
    <3>3. /\ Themes[1].prompt \in DOMAIN Menus \ {""} /\ Bars \in Nat \ {0}
      BY <3>2, ThemeMenuFacts
    <3>4. NewMenu \in ChoosingMenus /\ NewMenu.m_previous_menu = ""
      <4>1. PICK e : e = ""
        OBVIOUS
      <4>2. e \in Strings
        BY <4>1 DEF Strings
      <4>0. <<>> \in Seq(CommandRecord) /\ <<>> \in Seq(Nat)
        OBVIOUS
      <4>3. NewMenu = [m_curent_menu |-> e, m_previous_menu |-> e, m_gosub_menu |-> e,
                       m_choice |-> 0, m_command_record |-> <<>>, m_command_index |-> <<>>]
        BY <4>1 DEF NewMenu
      <4>4. NewMenu \in MenuRecord /\ NewMenu.m_choice = 0 /\ NewMenu.m_previous_menu = e
        BY <4>0, <4>2, <4>3 DEF MenuRecord
      <4>5. Bars \in Nat \ {0}
        BY <3>3
      <4> HIDE DEF Bars
      <4>6. NewMenu.m_choice < Bars
        BY <4>4, <4>5
      <4>7. NewMenu \in ChoosingMenus
        BY <4>4, <4>6 DEF ChoosingMenus
      <4> QED
        BY <4>1, <4>4, <4>7
    <3>5. PICK m : m = NewMenu
      OBVIOUS
    <3>6. menuStart(m, Themes[1].prompt) \in ThemeMenus
      BY <3>2, <3>4, <3>5, StartGood
    <3>7. menu \in ThemeMenus /\ LightBars(menu) # <<>>
      BY <3>1, <3>2, <3>5, <3>6, ThemeMenuBars
    <3>8. drawn.bar = menu.m_choice
      BY <3>1, <3>2, <3>3, <3>4, <3>7 DEF DrawBars
    <3> QED
      BY <2>2, <3>7, <3>8 DEF MenuInv, BarInv
  <2> QED
    BY <1>1, <2>1, <2>2 DEF ListInv
<1> QED
  BY <1>1, <1>2, <1>3 DEF DirectoryInv

LEMMA DirectoryStep ==
    DirectoryInv /\ [Next]_vars
        => DirectoryInv' /\ (NoMenuCommands /\ BarInv => BarInv')
<1> SUFFICES ASSUME DirectoryInv, [Next]_vars
             PROVE  DirectoryInv' /\ (NoMenuCommands /\ BarInv => BarInv')
  OBVIOUS
<1>1. ListInv' /\ LoopInv' /\ SameBars'
  BY ListStep, LoopStepKept DEF DirectoryInv, SameBars
<1>2. CASE Update
  BY <1>1, <1>2, MenuUpdate DEF DirectoryInv
<1>3. CASE UNCHANGED <<systems, listVars>>
  BY <1>1, <1>3 DEF DirectoryInv, MenuInv, BarInv, listVars
<1>4. WindowEvent \/ PushedClose \/ EndOfEvents \/ Spawn \/ UNCHANGED vars
        => UNCHANGED <<systems, listVars>>
  BY DEF WindowEvent, PushedClose, EndOfEvents, Spawn, vars
<1> QED
  BY <1>2, <1>3, <1>4 DEF Next, LoopStep

LEMMA DirectoryTypes == DirectoryInv => TypeOK
<1> SUFFICES ASSUME DirectoryInv PROVE TypeOK
  OBVIOUS
<1>1. m_current_theme_index \in 0 .. Len(Themes) - 1 /\ systems \in Nat
  BY DEF DirectoryInv, ListInv
<1>2. /\ drawn.rows \in [1 .. ScreenRows -> Cells]
      /\ m_lightbar_position \in Nat /\ m_current_page \in Nat
  <2>1. CASE systems = 0
    <3>1. Blank.rows = [r \in 1 .. ScreenRows |-> Empty]
      BY DEF Blank
    <3>2. Empty \in Cells
      BY DEF Empty, Cells
    <3> QED
      BY <2>1, <3>1, <3>2 DEF DirectoryInv, MenuInv
  <2>2. CASE systems > 0
    <3>1. OneLit(drawn.rows, m_current_selection, m_lightbar_position)
      BY <2>2, BarOnScreen DEF DirectoryInv
    <3> QED
      BY <2>2, <3>1, Facts DEF OneLit, DirectoryInv
  <2> QED
    BY <1>1, <2>1, <2>2
<1>3. systems > 0 => menu.m_choice \in 0 .. Len(LightBars(menu)) - 1
  <2> SUFFICES ASSUME systems > 0 PROVE menu.m_choice \in 0 .. Len(LightBars(menu)) - 1
    OBVIOUS
  <2>1. menu \in ThemeMenus
    BY DEF DirectoryInv, MenuInv
  <2>2. menu.m_choice \in 0 .. Bars - 1 /\ Len(LightBars(menu)) = Bars
    BY <2>1, ThemeMenuBars DEF DirectoryInv
  <2> QED
    BY ONLY <2>2
<1>4. Len(m_new_connections) <= 1
  <2>1. m_new_connections = <<>> \/ \E s : m_new_connections = <<s>>
    BY DEF DirectoryInv, LoopInv
  <2>2. CASE m_new_connections = <<>>
    BY <2>2
  <2>3. CASE \E s : m_new_connections = <<s>>
    BY <2>3
  <2> QED
    BY <2>1, <2>2, <2>3
<1>5. /\ m_keyMap = "ANSI" /\ m_globalShutdown \in BOOLEAN /\ m_isMouseSelected \in BOOLEAN
      /\ m_fullScreenWindowSize \in {0, 1} /\ phase \in {"events", "update", "spawn"}
  BY DEF DirectoryInv, LoopInv
<1> QED
  BY <1>1, <1>2, <1>3, <1>4, <1>5 DEF TypeOK

LEMMA PictureShows == DirectoryInv /\ BarInv => PictureShowsSelection
BY ListShows DEF DirectoryInv, BarInv, PictureShowsSelection

(* The light bar chosen is one of the menu, whatever keys come and whatever *)
(* themes the user turns to (menuLightBars, menuStart); the list is in      *)
(* range, and one system at most waits for its connection.                  *)
THEOREM DirectoryTypeCorrect == SameBoxes /\ SameBars /\ IsDialDirectory /\ Spec => []TypeOK
BY DirectoryInit, DirectoryStep, DirectoryTypes, PTL DEF Spec

(* PictureShowsSelection: the list lights the selected system, and of the   *)
(* light bars the one that ENTER would run or none.                         *)
THEOREM PictureIsTrue ==
    SameBoxes /\ SameBars /\ NoMenuCommands /\ IsDialDirectory /\ Spec
        => []PictureShowsSelection
<1> DEFINE Inv == DirectoryInv /\ NoMenuCommands /\ BarInv
<1>1. SameBoxes /\ SameBars /\ NoMenuCommands /\ IsDialDirectory /\ Init => Inv
  BY DirectoryInit
<1>2. Inv /\ [Next]_vars => Inv'
  BY DirectoryStep DEF NoMenuCommands
<1>3. Inv => PictureShowsSelection
  BY PictureShows
<1> QED
  BY <1>1, <1>2, <1>3, PTL DEF Spec
=============================================================================
